--------------------------- MODULE SendBudgetProofs ---------------------------
(***************************************************************************)
(* The bulk lane's minute and its day, proved for every number of          *)
(* processes, limit, share and span.                                       *)
(*                                                                         *)
(* What a day's windows add up to is a sum over a set.  Its lemmas need    *)
(* induction on the subsets of a finite set: had here from the least       *)
(* number of a set of numbers, with a set in the place of a predicate.     *)
(***************************************************************************)
EXTENDS SendBudget, FiniteSetTheorems, WellFoundedInduction, TLAPS

-----------------------------------------------------------------------------
(* Arithmetic *)

\* A count weighed by at most the whole of a span is at most the whole count.
LEMMA Weighed ==
  ASSUME NEW c \in Nat, NEW s \in Nat, c <= s, NEW k \in Nat, NEW m \in Nat, k <= m
  PROVE  c * k <= s * m
<1>1. c * k <= c * m  OBVIOUS
<1>2. c * m <= s * m  OBVIOUS
<1>3. c * k \in Nat /\ c * m \in Nat /\ s * m \in Nat  OBVIOUS
<1> QED BY <1>1, <1>2, <1>3

\* What fits whole spans fits.
LEMMA Unweighed ==
  ASSUME NEW c \in Nat, NEW s \in Nat, NEW m \in Nat, m > 0, c * m <= s * m
  PROVE  c <= s
<1> SUFFICES ASSUME c > s PROVE FALSE  OBVIOUS
<1>1. c >= s + 1  OBVIOUS
<1>2. c * m >= (s + 1) * m  BY <1>1
<1>3. (s + 1) * m = s * m + m  OBVIOUS
<1>4. c * m \in Nat /\ s * m \in Nat  OBVIOUS
<1> QED BY <1>2, <1>3, <1>4

\* n whole rows fit what a division left room for.
LEMMA DivisionFits ==
  ASSUME NEW n \in Nat, NEW r \in Int, NEW m \in Nat, m > 0, n <= r \div m
  PROVE  n * m <= r
<1>1. r = (r \div m) * m + (r % m) /\ (r % m) >= 0 /\ r \div m \in Int  OBVIOUS
<1>2. n * m <= (r \div m) * m  BY <1>1
<1>3. n * m \in Int /\ (r \div m) * m \in Int /\ (r % m) \in Int  BY <1>1
<1> QED BY <1>1, <1>2, <1>3

\* An instant lies in the window that starts at windowStart.
LEMMA WindowOf ==
  ASSUME NEW at \in Int, NEW span \in Nat, span > 0
  PROVE  /\ windowStart(at, span) \in Int
         /\ at \in Nat => windowStart(at, span) \in Nat
         /\ windowStart(at, span) <= at
         /\ at - windowStart(at, span) < span
<1>1. at % span \in 0..(span - 1)  OBVIOUS
<1>2. at = span * (at \div span) + (at % span) /\ at \div span \in Int  OBVIOUS
<1>3. at \in Nat => span * (at \div span) \in Nat
  <2> HAVE at \in Nat
  <2>1. at \div span \in Nat  OBVIOUS
  <2> QED BY <2>1
<1>4. span * (at \div span) \in Int  BY <1>2
<1> QED BY <1>1, <1>2, <1>3, <1>4 DEF windowStart

\* Windows follow each other: a later instant is in the same one, or in one
\* that starts at least a span later.
LEMMA WindowsInOrder ==
  ASSUME NEW a \in Int, NEW b \in Int, NEW span \in Nat, span > 0, a <= b
  PROVE  \/ windowStart(a, span) = windowStart(b, span)
         \/ windowStart(a, span) + span <= windowStart(b, span)
<1> DEFINE i == a \div span
           j == b \div span
<1>1. i \in Int /\ j \in Int  OBVIOUS
<1>2. a = span * i + (a % span) /\ a % span \in 0..(span - 1)  OBVIOUS
<1>3. b = span * j + (b % span) /\ b % span \in 0..(span - 1)  OBVIOUS
<1>4. span * i \in Int /\ span * j \in Int  BY <1>1
<1>5. windowStart(a, span) = span * i  BY <1>2, <1>4 DEF windowStart
<1>6. windowStart(b, span) = span * j  BY <1>3, <1>4 DEF windowStart
<1>7. CASE i = j  BY <1>5, <1>6, <1>7
<1>8. CASE i < j
  <2>1. j >= i + 1  BY <1>1, <1>8
  <2>2. span * j >= span * (i + 1)  BY <1>1, <2>1
  <2>3. span * (i + 1) = span * i + span  BY <1>1
  <2> QED BY <2>2, <2>3, <1>5, <1>6, <1>4
<1>9. CASE i > j
  <2>1. i >= j + 1  BY <1>1, <1>9
  <2>2. span * i >= span * (j + 1)  BY <1>1, <2>1
  <2>3. span * (j + 1) = span * j + span  BY <1>1
  <2>4. a > b  BY <2>2, <2>3, <1>2, <1>3, <1>4
  <2> QED BY <2>4
<1> QED BY <1>1, <1>7, <1>8, <1>9

\* The bulk lane's share of any limit is a number, and never nothing.
LEMMA ShareIsPositive ==
  ASSUME BudgetAssumption, NEW limit \in Nat
  PROVE  bulkShare(limit) \in Nat /\ bulkShare(limit) > 0
<1>1. limit * SharePercent \in Nat  BY DEF BudgetAssumption
<1>2. (limit * SharePercent) \div 100 \in Nat  BY <1>1
<1> QED BY <1>2 DEF bulkShare
-----------------------------------------------------------------------------
(* The estimate of a minute, of any counts f *)

Count(f, start) == IF start \in Instants THEN f[start] ELSE 0

Estimate(f, at) ==
  LET current == windowStart(at, MinuteSpan) IN
  Count(f, current - MinuteSpan) * (MinuteSpan - (at - current))
  + Count(f, current) * MinuteSpan

LEMMA EstimateOfMinutes ==
  ASSUME NEW at PROVE MinuteEstimate("bulk", at) = Estimate(minutes["bulk"], at)
BY DEF MinuteEstimate, Estimate, Count, Counted

LEMMA CountIsNat ==
  ASSUME NEW f \in [Instants -> Nat], NEW i PROVE Count(f, i) \in Nat
BY DEF Count

\* The weight of the previous window is at most a whole span.
LEMMA WeightOf ==
  ASSUME BudgetAssumption, NEW at \in Instants
  PROVE  /\ windowStart(at, MinuteSpan) \in Instants
         /\ at - windowStart(at, MinuteSpan) \in Nat
         /\ MinuteSpan - (at - windowStart(at, MinuteSpan)) \in 1..MinuteSpan
<1> DEFINE w == windowStart(at, MinuteSpan)
<1>1. /\ at \in Nat /\ at <= MaxNow /\ MaxNow \in Nat
      /\ MinuteSpan \in Nat /\ MinuteSpan > 0
  BY DEF Instants, BudgetAssumption
<1>2. w \in Nat /\ w <= at /\ at - w < MinuteSpan  BY <1>1, WindowOf
<1> SUFFICES w \in Instants /\ at - w \in Nat /\ MinuteSpan - (at - w) \in 1..MinuteSpan
  OBVIOUS
<1> HIDE DEF w
<1> QED BY <1>1, <1>2 DEF Instants

LEMMA EstimateIsNat ==
  ASSUME BudgetAssumption, NEW f \in [Instants -> Nat], NEW at \in Instants
  PROVE  Estimate(f, at) \in Nat
<1> DEFINE w == windowStart(at, MinuteSpan)
<1>1. Count(f, w - MinuteSpan) \in Nat /\ Count(f, w) \in Nat  BY CountIsNat
<1>2. MinuteSpan - (at - w) \in Nat /\ MinuteSpan \in Nat  BY WeightOf DEF BudgetAssumption
<1>3. \A x, y \in Nat : x * y \in Nat  OBVIOUS
<1>4. Count(f, w - MinuteSpan) * (MinuteSpan - (at - w)) \in Nat  BY <1>1, <1>2, <1>3
<1>5. Count(f, w) * MinuteSpan \in Nat  BY <1>1, <1>2, <1>3
<1> QED BY <1>4, <1>5 DEF Estimate

\* Dropping windows never raises it.
LEMMA EstimateOfLess ==
  ASSUME BudgetAssumption, NEW f \in [Instants -> Nat], NEW g \in [Instants -> Nat],
         \A i \in Instants : g[i] <= f[i], NEW at \in Instants
  PROVE  Estimate(g, at) <= Estimate(f, at)
<1> DEFINE w == windowStart(at, MinuteSpan)
           k == MinuteSpan - (at - w)
<1>1. k \in Nat /\ MinuteSpan \in Nat  BY WeightOf DEF BudgetAssumption
<1>2. \A i : Count(g, i) <= Count(f, i) /\ Count(g, i) \in Nat /\ Count(f, i) \in Nat
  BY DEF Count
<1>3. Count(g, w - MinuteSpan) * k <= Count(f, w - MinuteSpan) * k
  <2> HIDE DEF w, k
  <2> QED BY <1>1, <1>2, Weighed
<1>4. Count(g, w) * MinuteSpan <= Count(f, w) * MinuteSpan
  <2> HIDE DEF w, k
  <2> QED BY <1>1, <1>2, Weighed
<1>5. \A x, y \in Nat : x * y \in Nat  OBVIOUS
<1>6. /\ Count(g, w - MinuteSpan) * k \in Nat /\ Count(f, w - MinuteSpan) * k \in Nat
      /\ Count(g, w) * MinuteSpan \in Nat /\ Count(f, w) * MinuteSpan \in Nat
  <2> HIDE DEF w, k
  <2> QED BY <1>1, <1>2, <1>5
<1> QED BY <1>3, <1>4, <1>6 DEF Estimate

\* One window of at most s, alone, is within a span of s.
LEMMA OneWindow ==
  ASSUME NEW c \in Nat, NEW s \in Nat, c <= s, NEW k \in Nat, NEW m \in Nat, k <= m
  PROVE  c * k + 0 * m <= s * m /\ 0 * k + c * m <= s * m /\ 0 * k + 0 * m <= s * m
<1>1. c * k <= s * m /\ c * m <= s * m  BY Weighed
<1>2. c * k \in Nat /\ c * m \in Nat /\ s * m \in Nat  OBVIOUS
<1>3. 0 * k = 0 /\ 0 * m = 0  OBVIOUS
<1> QED BY <1>1, <1>2, <1>3

\* A tick later the estimate is within the share still: in the same window
\* the previous one weighs less, in the next one this one is all there is.
LEMMA EstimateAfterTick ==
  ASSUME BudgetAssumption, NEW f \in [Instants -> Nat], NEW s \in Nat,
         NEW t \in Instants, NEW u \in Instants, u = t + 1,
         \A i \in Instants : f[i] <= s,
         \A i \in Instants : i > windowStart(t, MinuteSpan) => f[i] = 0,
         Estimate(f, t) <= s * MinuteSpan
  PROVE  Estimate(f, u) <= s * MinuteSpan
<1> DEFINE v == windowStart(t, MinuteSpan)
           w == windowStart(u, MinuteSpan)
           prev == Count(f, v - MinuteSpan)
           cur == Count(f, v)
<1>1. /\ t \in Nat /\ MinuteSpan \in Nat /\ MinuteSpan > 0 /\ v \in Instants /\ w \in Instants
      /\ MinuteSpan - (t - v) \in Nat /\ MinuteSpan - (u - w) \in Nat
      /\ u - w \in Nat /\ t - v \in Nat /\ v \in Nat /\ w \in Nat
  <2>1. v \in Instants /\ t - v \in Nat /\ MinuteSpan - (t - v) \in 1..MinuteSpan  BY WeightOf
  <2>2. w \in Instants /\ u - w \in Nat /\ MinuteSpan - (u - w) \in 1..MinuteSpan
    BY WeightOf
  <2> HIDE DEF v, w
  <2> QED BY <2>1, <2>2 DEF BudgetAssumption, Instants
<1>2. w = v \/ v + MinuteSpan <= w  BY <1>1, WindowsInOrder
<1>3. prev \in Nat /\ cur \in Nat /\ cur <= s  BY <1>1, CountIsNat DEF Count
<1>4. \A x, y \in Nat : x * y \in Nat  OBVIOUS
<1>5. CASE w = v
  <2>1. prev * (MinuteSpan - (u - v)) <= prev * (MinuteSpan - (t - v))
    <3> HIDE DEF prev, v, w
    <3> QED BY <1>1, <1>3, <1>5, Weighed
  <2>2. /\ prev * (MinuteSpan - (u - v)) \in Nat /\ prev * (MinuteSpan - (t - v)) \in Nat
        /\ cur * MinuteSpan \in Nat /\ s * MinuteSpan \in Nat
    <3> HIDE DEF prev, cur, v, w
    <3> QED BY <1>1, <1>3, <1>4, <1>5
  <2>3. Estimate(f, t) = prev * (MinuteSpan - (t - v)) + cur * MinuteSpan  BY DEF Estimate
  <2>4. Estimate(f, u) = prev * (MinuteSpan - (u - v)) + cur * MinuteSpan
    <3>1. Estimate(f, u) = Count(f, w - MinuteSpan) * (MinuteSpan - (u - w))
                               + Count(f, w) * MinuteSpan
      BY DEF Estimate
    <3> HIDE DEF v, w
    <3> QED BY <3>1, <1>5
  <2> HIDE DEF prev, cur, v, w
  <2> QED BY <2>1, <2>2, <2>3, <2>4
<1>6. CASE v + MinuteSpan <= w
  <2>1. Count(f, w) = 0
    <3>1. w > v  BY <1>1, <1>6
    <3> QED BY <1>1, <3>1 DEF Count
  <2>2. Count(f, w - MinuteSpan) \in Nat /\ Count(f, w - MinuteSpan) <= s
    <3>1. CASE w - MinuteSpan \in Instants  BY <3>1 DEF Count
    <3>2. CASE w - MinuteSpan \notin Instants
      <4>1. Count(f, w - MinuteSpan) = 0  BY <3>2 DEF Count
      <4> QED BY <4>1
    <3> QED BY <3>1, <3>2
  <2>3. Estimate(f, u) = Count(f, w - MinuteSpan) * (MinuteSpan - (u - w)) + 0 * MinuteSpan
    <3>1. Estimate(f, u) = Count(f, w - MinuteSpan) * (MinuteSpan - (u - w))
                               + Count(f, w) * MinuteSpan
      BY DEF Estimate
    <3> HIDE DEF w
    <3> QED BY <3>1, <2>1
  <2>4. MinuteSpan - (u - w) <= MinuteSpan  BY <1>1
  <2> HIDE DEF prev, cur, v, w
  <2> QED BY <1>1, <2>2, <2>3, <2>4, OneWindow
<1> QED BY <1>2, <1>5, <1>6

\* n rows counted at an instant a that is over, which fitted there, fit now
\* when no later window has a row.
LEMMA EstimateAfterTake ==
  ASSUME BudgetAssumption, NEW f \in [Instants -> Nat], NEW s \in Nat, NEW n \in Nat,
         NEW a \in Instants, NEW t \in Instants, a <= t,
         \A i \in Instants : i > windowStart(a, MinuteSpan) => f[i] = 0,
         n * MinuteSpan + Estimate(f, a) <= s * MinuteSpan,
         NEW g \in [Instants -> Nat],
         g = [f EXCEPT ![windowStart(a, MinuteSpan)] = @ + n]
  PROVE  /\ g[windowStart(a, MinuteSpan)] <= s
         /\ Estimate(g, t) <= s * MinuteSpan
<1> DEFINE v == windowStart(a, MinuteSpan)
           w == windowStart(t, MinuteSpan)
           prev == Count(f, v - MinuteSpan)
           cur == f[v]
           m == MinuteSpan
<1>1. /\ a \in Nat /\ t \in Nat /\ m \in Nat /\ m > 0 /\ v \in Instants /\ w \in Instants
      /\ m - (a - v) \in Nat /\ m - (t - w) \in Nat /\ m - (t - w) <= m
      /\ t - w \in Nat /\ a - v \in Nat /\ v \in Nat /\ w \in Nat
  <2>1. v \in Instants /\ a - v \in Nat /\ m - (a - v) \in 1..m  BY WeightOf
  <2>2. w \in Instants /\ t - w \in Nat /\ m - (t - w) \in 1..m  BY WeightOf
  <2>3. m \in Nat /\ m > 0  BY DEF BudgetAssumption
  <2> HIDE DEF v, w, m
  <2> QED BY <2>1, <2>2, <2>3 DEF Instants
<1>2. w = v \/ v + m <= w  BY <1>1, WindowsInOrder
<1>3. prev \in Nat /\ cur \in Nat /\ Count(f, v) = cur  BY <1>1, CountIsNat DEF Count
<1>4. \A x, y \in Nat : x * y \in Nat  OBVIOUS
<1>5. Estimate(f, a) = prev * (m - (a - v)) + cur * m  BY <1>3 DEF Estimate
<1>6. /\ prev * (m - (a - v)) \in Nat /\ prev * (m - (t - v)) \in Int
      /\ cur * m \in Nat /\ n * m \in Nat /\ s * m \in Nat
  <2> HIDE DEF prev, cur, v, w, m
  <2> QED BY <1>1, <1>3, <1>4
<1>7. (cur + n) * m = cur * m + n * m
  <2> HIDE DEF prev, cur, v, w, m
  <2> QED BY <1>1, <1>3
<1>8. prev * (m - (a - v)) + (cur + n) * m <= s * m
  <2> HIDE DEF prev, cur, v, w, m
  <2> QED BY <1>5, <1>6, <1>7 DEF m
<1>9. g[v] = cur + n /\ \A i \in Instants : i # v => g[i] = f[i]  BY <1>1
<1>10. cur + n <= s
  <2> HIDE DEF prev, cur, v, w, m
  <2>1. (cur + n) * m <= s * m  BY <1>6, <1>7, <1>8
  <2> QED BY <1>1, <1>3, <2>1, Unweighed
<1>11. CASE w = v
  <2>1. Count(g, v - m) = prev /\ Count(g, v) = cur + n
    BY <1>1, <1>9 DEF Count
  <2>2. Estimate(g, t) = prev * (m - (t - v)) + (cur + n) * m  BY <1>11, <2>1 DEF Estimate
  <2>3. prev * (m - (t - v)) <= prev * (m - (a - v))
    <3> HIDE DEF prev, cur, v, w, m
    <3> QED BY <1>1, <1>3, <1>11, Weighed
  <2> HIDE DEF prev, cur, v, w, m
  <2>4. Estimate(g, t) <= s * m  BY <1>6, <1>7, <1>8, <2>2, <2>3
  <2> QED BY <2>4, <1>9, <1>10 DEF m, v
<1>12. CASE v + m <= w
  <2>1. Count(g, w) = 0
    <3>1. w > v  BY <1>1, <1>12
    <3> QED BY <1>1, <1>9, <3>1 DEF Count
  <2>2. Count(g, w - m) \in Nat /\ Count(g, w - m) <= s
    <3>1. CASE w - m = v  BY <1>1, <1>3, <1>9, <1>10, <3>1 DEF Count
    <3>2. CASE w - m # v
      <4>1. w - m > v  BY <1>1, <1>12, <3>2
      <4>2. w - m \in Instants => g[w - m] = 0
        <5> HIDE DEF w, m
        <5> QED BY <1>9, <3>2, <4>1
      <4>3. Count(g, w - m) = 0
        <5> HIDE DEF w, m
        <5> QED BY <4>2 DEF Count
      <4> QED BY <4>3
    <3> QED BY <3>1, <3>2
  <2>3. Estimate(g, t) = Count(g, w - m) * (m - (t - w)) + 0 * m  BY <2>1 DEF Estimate
  <2>4. Estimate(g, t) <= s * m
    <3> HIDE DEF prev, cur, v, w, m
    <3> QED BY <1>1, <2>2, <2>3, OneWindow
  <2> QED BY <2>4, <1>9, <1>10
<1> QED BY <1>2, <1>11, <1>12

-----------------------------------------------------------------------------
(* Types and the lock *)

LEMMA WindowIsInstant ==
  ASSUME BudgetAssumption, NEW at \in Instants
  PROVE  windowStart(at, MinuteSpan) \in Instants /\ windowStart(at, HourSpan) \in Instants
<1>1. /\ at \in Nat /\ at <= MaxNow /\ MaxNow \in Nat
      /\ MinuteSpan \in Nat /\ MinuteSpan > 0 /\ HourSpan \in Nat /\ HourSpan > 0
  BY DEF Instants, BudgetAssumption
<1>2. \A span \in Nat : span > 0 =>
        windowStart(at, span) \in Nat /\ windowStart(at, span) <= at
  BY <1>1, WindowOf
<1> QED BY <1>1, <1>2 DEF Instants

Safe == TypeOK /\ LockIsExclusive

LEMMA SafeInit == ASSUME BudgetAssumption, Init PROVE Safe
BY DEF Init, Safe, TypeOK, LockIsExclusive, InTransaction, Rest, Lanes, Instants, BudgetAssumption

\* What counting n rows at an instant does to the windows' types.
LEMMA CountSendsTypes ==
  ASSUME BudgetAssumption, TypeOK, NEW l \in Lanes, NEW at \in Instants, NEW n \in Nat,
         CountSends(l, at, n)
  PROVE  minutes' \in [Lanes -> [Instants -> Nat]] /\ hours' \in [Lanes -> [Instants -> Nat]]
<1>1. windowStart(at, MinuteSpan) \in Instants /\ windowStart(at, HourSpan) \in Instants
  BY WindowIsInstant
<1>2. \A i \in Instants : minutes[l][i] + n \in Nat /\ hours[l][i] + n \in Nat
  BY DEF TypeOK
<1> QED BY <1>1, <1>2 DEF CountSends, TypeOK

LEMMA SafeNext == ASSUME BudgetAssumption, Safe, [Next]_vars PROVE Safe'
<1> USE DEF Safe
<1>1. CASE QueueSystem
  BY <1>1 DEF QueueSystem, TypeOK, LockIsExclusive, InTransaction
<1>2. CASE Prune
  <2>1. minutes' \in [Lanes -> [Instants -> Nat]] /\ hours' \in [Lanes -> [Instants -> Nat]]
    BY <1>2 DEF Prune, DropBefore, TypeOK
  <2> QED BY <1>2, <2>1 DEF Prune, TypeOK, LockIsExclusive, InTransaction
<1>3. CASE Tick
  <2>1. now' \in Instants /\ now' = now + 1
    BY <1>3 DEF Tick, TypeOK, Instants, BudgetAssumption
  <2>2. \A p \in Procs : turn[p].at <= now'
    <3> TAKE p \in Procs
    <3>1. turn[p].at \in Int /\ now \in Int /\ turn[p].at <= now  BY DEF TypeOK, Instants
    <3> QED BY <2>1, <3>1
  <2> QED BY <1>3, <2>1, <2>2 DEF Tick, TypeOK, LockIsExclusive, InTransaction
<1>4. ASSUME NEW p \in Procs, TakeSystem(p) PROVE Safe'
  <2> DEFINE n == Least(due, MaxRows)
  <2>1. n \in Nat /\ due - n \in Nat  BY DEF Least, TypeOK, BudgetAssumption
  <2>2. 0 \in Instants /\ 0 <= now  BY DEF TypeOK, Instants
  <2>3. PICK pc \in {"bulk", "count"} : turn' = [turn EXCEPT ![p] = [pc |-> pc, at |-> 0, n |-> n]]
    BY <1>4 DEF TakeSystem
  <2>4. /\ turn[p].pc = "system" /\ due' = due - n
        /\ UNCHANGED <<now, minutes, hours, lock, queued, bulkAt>>
    BY <1>4 DEF TakeSystem
  <2> HIDE DEF n
  <2> QED BY <2>1, <2>2, <2>3, <2>4 DEF TypeOK, LockIsExclusive, InTransaction
<1>5. ASSUME NEW p \in Procs, CountSystemReads(p) PROVE Safe'
  <2>1. now <= now /\ now \in Instants  BY DEF TypeOK, Instants
  <2> QED BY <1>5, <2>1 DEF CountSystemReads, TypeOK, LockIsExclusive, InTransaction
<1>6. ASSUME NEW p \in Procs, CountSystemWrites(p) PROVE Safe'
  <2>1. minutes' \in [Lanes -> [Instants -> Nat]] /\ hours' \in [Lanes -> [Instants -> Nat]]
    <3>1. "system" \in Lanes /\ turn[p].at \in Instants /\ turn[p].n \in Nat  BY DEF Lanes, TypeOK
    <3> QED BY <1>6, <3>1, CountSendsTypes DEF CountSystemWrites
  <2>2. 0 \in Instants /\ 0 <= now  BY DEF TypeOK, Instants
  <2> QED BY <1>6, <2>1, <2>2 DEF CountSystemWrites, TypeOK, LockIsExclusive, InTransaction, Rest
<1>7. ASSUME NEW p \in Procs, CountSystemFails(p) PROVE Safe'
  <2>2. 0 \in Instants /\ 0 <= now  BY DEF TypeOK, Instants
  <2> QED BY <1>7, <2>2 DEF CountSystemFails, TypeOK, LockIsExclusive, InTransaction, Rest
<1>8. ASSUME NEW p \in Procs, SkipBulk(p) PROVE Safe'
  <2>2. 0 \in Instants /\ 0 <= now  BY DEF TypeOK, Instants
  <2> QED BY <1>8, <2>2 DEF SkipBulk, TypeOK, LockIsExclusive, InTransaction, Rest
<1>9. ASSUME NEW p \in Procs, LockBudget(p) PROVE Safe'
  <2>1. now <= now  BY DEF TypeOK, Instants
  <2>2. \A q \in Procs : q # NoProc  BY DEF BudgetAssumption
  <2> QED BY <1>9, <2>1, <2>2 DEF LockBudget, TypeOK, LockIsExclusive, InTransaction
<1>10. ASSUME NEW p \in Procs, ReadWindows(p) PROVE Safe'
  <2>1. 0..MaxRows \subseteq Nat  BY DEF BudgetAssumption
  <2>2. PICK n \in Nat : turn' = [turn EXCEPT ![p] = [pc |-> "read", at |-> turn[p].at, n |-> n]]
    BY <1>10, <2>1 DEF ReadWindows
  <2>3. turn[p].pc = "locked" /\ UNCHANGED <<now, minutes, hours, lock, due, queued, bulkAt>>
    BY <1>10 DEF ReadWindows
  <2> QED BY <2>2, <2>3 DEF TypeOK, LockIsExclusive, InTransaction
<1>11. ASSUME NEW p \in Procs, TakeBulk(p) PROVE Safe'
  <2>1. "bulk" \in Lanes /\ turn[p].at \in Instants /\ turn[p].n \in Nat  BY DEF Lanes, TypeOK
  <2>2. minutes' \in [Lanes -> [Instants -> Nat]] /\ hours' \in [Lanes -> [Instants -> Nat]]
    BY <1>11, <2>1, CountSendsTypes DEF TakeBulk
  <2>3. bulkAt' \in [Instants -> Nat]  BY <1>11, <2>1 DEF TakeBulk, TypeOK
  <2>4. 0 \in Instants /\ 0 <= now  BY DEF TypeOK, Instants
  <2>5. \A q \in Procs : q # NoProc  BY DEF BudgetAssumption
  <2> QED BY <1>11, <2>2, <2>3, <2>4, <2>5
           DEF TakeBulk, TypeOK, LockIsExclusive, InTransaction, Rest
<1>12. ASSUME NEW p \in Procs, AbortBulk(p) PROVE Safe'
  <2>4. 0 \in Instants /\ 0 <= now  BY DEF TypeOK, Instants
  <2>5. \A q \in Procs : q # NoProc  BY DEF BudgetAssumption
  <2> QED BY <1>12, <2>4, <2>5 DEF AbortBulk, TypeOK, LockIsExclusive, InTransaction, Rest
<1>13. CASE UNCHANGED vars
  BY <1>13 DEF vars, TypeOK, LockIsExclusive, InTransaction
<1> QED BY <1>1, <1>2, <1>3, <1>4, <1>5, <1>6, <1>7, <1>8, <1>9, <1>10, <1>11, <1>12, <1>13
        DEF Next, TurnStep

\* The budget's state is always well formed: no count goes below nothing, and
\* a transaction's instant is never ahead of the clock (budget.go, claimBulk).
THEOREM BudgetTypes == Spec => []TypeOK
<1>1. Init => Safe  BY SafeInit, BudgetAssumption
<1>2. Safe /\ [Next]_vars => Safe'  BY SafeNext, BudgetAssumption
<1>3. Safe => TypeOK  BY DEF Safe
<1> QED BY <1>1, <1>2, <1>3, PTL DEF Spec

\* One process at a time reads the windows, takes and counts, for any number
\* of processes and however their transactions end (LockSendBudget).
THEOREM BudgetLockExclusive == Spec => []LockIsExclusive
<1>1. Init => Safe  BY SafeInit, BudgetAssumption
<1>2. Safe /\ [Next]_vars => Safe'  BY SafeNext, BudgetAssumption
<1>3. Safe => LockIsExclusive  BY DEF Safe
<1> QED BY <1>1, <1>2, <1>3, PTL DEF Spec

-----------------------------------------------------------------------------
(* The minute *)

Bulk == minutes["bulk"]
Share == bulkShare(PerMinute)
Open(turns, p) == turns[p].pc \in {"locked", "read"}
NoneAfter(f, at) == \A i \in Instants : i > windowStart(at, MinuteSpan) => f[i] = 0

\* The inductive part, of the bulk counts f, the clock t and the turns: no
\* window is over the share, nothing is counted ahead of the clock, the
\* estimate holds now; and the transaction that is open finds the windows from
\* its instant on as it read them, so that what it goes on to take still fits.
Within(f, t, turns) ==
  /\ \A i \in Instants : f[i] <= Share
  /\ NoneAfter(f, t)
  /\ Estimate(f, t) <= Share * MinuteSpan
  /\ \A p \in Procs : Open(turns, p) => NoneAfter(f, turns[p].at)
  /\ \A p \in Procs : turns[p].pc = "read" /\ turns[p].n > 0 =>
       turns[p].n * MinuteSpan + Estimate(f, turns[p].at) <= Share * MinuteSpan

MinuteInv == Within(Bulk, now, turn)

\* Rows the minute has room for fit the estimate, in whole spans.
LEMMA RoomFits ==
  ASSUME BudgetAssumption, PerMinute > 0, TypeOK, NEW at \in Instants,
         NEW n \in Nat, n > 0, n <= windowRoom(at)
  PROVE  n * MinuteSpan + Estimate(Bulk, at) <= Share * MinuteSpan
<1> DEFINE bulk == MinuteEstimate("bulk", at)
           total == bulk + MinuteEstimate("system", at)
           share == Share * MinuteSpan
           limit == PerMinute * MinuteSpan
           room == Least(share - bulk, limit - total)
<1>1. /\ bulk = Estimate(Bulk, at)
      /\ MinuteEstimate("system", at) = Estimate(minutes["system"], at)
  BY EstimateOfMinutes DEF MinuteEstimate, Estimate, Count, Counted, Bulk
<1>2. Bulk \in [Instants -> Nat] /\ minutes["system"] \in [Instants -> Nat]
  BY DEF TypeOK, Bulk, Lanes
<1>3. bulk \in Nat /\ total \in Nat
  <2>1. Estimate(Bulk, at) \in Nat /\ Estimate(minutes["system"], at) \in Nat
    BY <1>2, EstimateIsNat
  <2> QED BY <1>1, <2>1
<1>4. Share \in Nat /\ MinuteSpan \in Nat /\ MinuteSpan > 0 /\ PerMinute \in Nat
  BY ShareIsPositive DEF BudgetAssumption, Share
<1>5. share \in Nat /\ limit \in Nat  BY <1>4
<1>6. windowRoom(at) = IF room <= 0 THEN 0 ELSE room \div MinuteSpan
  BY DEF windowRoom, limitRoom, Share
<1>7. room \in Int /\ room <= share - bulk
  <2> HIDE DEF bulk, total, share, limit
  <2> QED BY <1>3, <1>5 DEF Least
<1>8. n <= room \div MinuteSpan
  <2> HIDE DEF room
  <2> QED BY <1>6
<1>9. n * MinuteSpan <= room
  <2> HIDE DEF room
  <2> QED BY <1>4, <1>7, <1>8, DivisionFits
<1>10. n * MinuteSpan \in Nat  BY <1>4
<1>11. n * MinuteSpan + bulk <= share
  <2> HIDE DEF room, share, bulk
  <2> QED BY <1>3, <1>5, <1>7, <1>9, <1>10
<1> QED BY <1>1, <1>11

\* What has no row after a window has none after a later one.
LEMMA NoneAfterLater ==
  ASSUME BudgetAssumption, NEW f, NEW a \in Instants, NEW b \in Instants, a <= b, NoneAfter(f, a)
  PROVE  NoneAfter(f, b)
<1>1. windowStart(a, MinuteSpan) <= windowStart(b, MinuteSpan)
  <2> DEFINE v == windowStart(a, MinuteSpan)
             w == windowStart(b, MinuteSpan)
  <2>1. a \in Nat /\ b \in Nat /\ MinuteSpan \in Nat /\ MinuteSpan > 0
    BY DEF Instants, BudgetAssumption
  <2>2. v = w \/ v + MinuteSpan <= w  BY <2>1, WindowsInOrder
  <2>3. v \in Nat /\ w \in Nat  BY <2>1, WindowOf
  <2> HIDE DEF v, w
  <2>4. v <= w  BY <2>1, <2>2, <2>3
  <2> QED BY <2>4 DEF v, w
<1>2. windowStart(a, MinuteSpan) \in Instants /\ windowStart(b, MinuteSpan) \in Instants
  BY WindowIsInstant
<1>3. ASSUME NEW i \in Instants, i > windowStart(b, MinuteSpan) PROVE f[i] = 0
  <2>1. i > windowStart(a, MinuteSpan)  BY <1>1, <1>2, <1>3 DEF Instants
  <2> QED BY <2>1 DEF NoneAfter
<1> QED BY <1>3 DEF NoneAfter

\* Turns that leave or stay outside the transaction disturb nothing.
LEMMA WithinFrame ==
  ASSUME NEW f, NEW t, NEW turns, NEW turns2, Within(f, t, turns),
         \A p \in Procs : turns2[p] = turns[p] \/ ~Open(turns2, p)
  PROVE  Within(f, t, turns2)
BY DEF Within, Open

LEMMA WithinTick ==
  ASSUME BudgetAssumption, PerMinute > 0, NEW f \in [Instants -> Nat],
         NEW t \in Instants, NEW u \in Instants, u = t + 1,
         NEW turns, Within(f, t, turns)
  PROVE  Within(f, u, turns)
<1>1. Share \in Nat  BY ShareIsPositive DEF BudgetAssumption, Share
<1>2. Estimate(f, u) <= Share * MinuteSpan
  BY <1>1, EstimateAfterTick DEF Within, NoneAfter
<1>3. t <= u  BY DEF Instants
<1>4. NoneAfter(f, u)  BY <1>3, NoneAfterLater DEF Within
<1> QED BY <1>2, <1>4 DEF Within

\* Dropped windows leave what is within the share within it.
LEMMA WithinPrune ==
  ASSUME BudgetAssumption, PerMinute > 0,
         NEW f \in [Instants -> Nat], NEW g \in [Instants -> Nat],
         \A i \in Instants : g[i] <= f[i],
         NEW t \in Instants,
         NEW turns \in [Procs -> [pc : {"system", "count", "counting", "bulk", "locked", "read"},
                                  at : Instants, n : Nat]],
         Within(f, t, turns)
  PROVE  Within(g, t, turns)
<1>1. Share * MinuteSpan \in Nat /\ Share \in Nat /\ MinuteSpan \in Nat
  <2>1. Share \in Nat /\ MinuteSpan \in Nat  BY ShareIsPositive DEF BudgetAssumption, Share
  <2> QED BY <2>1
<1>2. \A at \in Instants : /\ Estimate(g, at) <= Estimate(f, at)
                            /\ Estimate(g, at) \in Nat /\ Estimate(f, at) \in Nat
  BY EstimateOfLess, EstimateIsNat
<1>3. \A i \in Instants : g[i] <= Share
  BY <1>1 DEF Within
<1>4. Estimate(g, t) <= Share * MinuteSpan  BY <1>1, <1>2 DEF Within
<1>5. \A at \in Instants : NoneAfter(f, at) => NoneAfter(g, at)
  <2> SUFFICES ASSUME NEW i \in Instants, f[i] = 0 PROVE g[i] = 0  BY DEF NoneAfter
  <2> QED OBVIOUS
<1>6. ASSUME NEW p \in Procs, turns[p].pc = "read", turns[p].n > 0
      PROVE  turns[p].n * MinuteSpan + Estimate(g, turns[p].at) <= Share * MinuteSpan
  <2>1. turns[p].at \in Instants /\ turns[p].n * MinuteSpan \in Nat  BY <1>1
  <2>2. turns[p].n * MinuteSpan + Estimate(f, turns[p].at) <= Share * MinuteSpan
    BY <1>6 DEF Within
  <2> QED BY <1>1, <1>2, <2>1, <2>2
<1> QED BY <1>3, <1>4, <1>5, <1>6 DEF Within

\* A take that was read to fit leaves everything within the share, whatever
\* time passed since: the next transaction is not open yet.
LEMMA WithinTake ==
  ASSUME BudgetAssumption, PerMinute > 0,
         NEW f \in [Instants -> Nat], NEW g \in [Instants -> Nat],
         NEW a \in Instants, NEW t \in Instants, a <= t, NEW n \in Nat, n > 0,
         g = [f EXCEPT ![windowStart(a, MinuteSpan)] = @ + n],
         NEW turns, NEW turns2, Within(f, t, turns), NoneAfter(f, a),
         n * MinuteSpan + Estimate(f, a) <= Share * MinuteSpan,
         \A p \in Procs : ~Open(turns2, p)
  PROVE  Within(g, t, turns2)
<1>1. Share \in Nat  BY ShareIsPositive DEF BudgetAssumption, Share
<1>2. g[windowStart(a, MinuteSpan)] <= Share /\ Estimate(g, t) <= Share * MinuteSpan
  BY <1>1, EstimateAfterTake DEF NoneAfter
<1>3. \A i \in Instants : i # windowStart(a, MinuteSpan) => g[i] = f[i]  OBVIOUS
<1>4. \A i \in Instants : g[i] <= Share  BY <1>2, <1>3 DEF Within
<1>5. NoneAfter(g, a)
  <2> SUFFICES ASSUME NEW i \in Instants, i > windowStart(a, MinuteSpan) PROVE g[i] = 0
    BY DEF NoneAfter
  <2>1. windowStart(a, MinuteSpan) \in Instants  BY WindowIsInstant
  <2>2. i # windowStart(a, MinuteSpan)  BY <2>1 DEF Instants
  <2> QED BY <1>3, <2>2 DEF NoneAfter
<1>6. NoneAfter(g, t)  BY <1>5, NoneAfterLater
<1> QED BY <1>2, <1>4, <1>6 DEF Within, Open

LEMMA MinuteInit == ASSUME BudgetAssumption, PerMinute > 0, Init PROVE MinuteInv
<1>1. Share \in Nat /\ MinuteSpan \in Nat  BY ShareIsPositive DEF BudgetAssumption, Share
<1>2. Share * MinuteSpan \in Nat  BY <1>1
<1>3. Bulk = [i \in Instants |-> 0] /\ now = 0 /\ 0 \in Instants
  BY DEF Init, Bulk, Lanes, Instants, BudgetAssumption
<1>4. \A i : Count(Bulk, i) = 0  BY <1>3 DEF Count
<1>5. Estimate(Bulk, now) = 0
  <2> DEFINE k == MinuteSpan - (now - windowStart(now, MinuteSpan))
  <2>1. k \in Nat  BY <1>3, WeightOf
  <2>2. Estimate(Bulk, now) = 0 * k + 0 * MinuteSpan  BY <1>4 DEF Estimate
  <2> HIDE DEF k
  <2> QED BY <1>1, <2>1, <2>2
<1>6. \A p \in Procs : ~Open(turn, p) /\ turn[p].pc # "read"  BY DEF Init, Rest, Open
<1>7. NoneAfter(Bulk, now)  BY <1>3 DEF NoneAfter
<1> QED BY <1>1, <1>2, <1>3, <1>5, <1>6, <1>7 DEF MinuteInv, Within

LEMMA MinuteNext ==
  ASSUME BudgetAssumption, PerMinute > 0, Safe, Safe', MinuteInv, [Next]_vars
  PROVE  MinuteInv'
<1> USE DEF MinuteInv
<1>1. Bulk \in [Instants -> Nat] /\ now \in Instants  BY DEF Safe, TypeOK, Bulk, Lanes
<1>2. Bulk' \in [Instants -> Nat] /\ now' \in Instants  BY DEF Safe, TypeOK, Bulk, Lanes
<1>3. \A p \in Procs : /\ turn[p].pc \in {"system", "count", "counting", "bulk", "locked", "read"}
                        /\ turn[p].at \in Instants /\ turn[p].at <= now /\ turn[p].n \in Nat
  BY DEF Safe, TypeOK
<1>4. \A p \in Procs : Open(turn, p) <=> lock = p
  BY DEF Safe, LockIsExclusive, InTransaction, Open
<1>5. DOMAIN turn = Procs  BY DEF Safe, TypeOK
\* What leaves the clock and the bulk counts, and opens no transaction.
<1>6. ASSUME Bulk' = Bulk, now' = now,
             \A p \in Procs : turn'[p] = turn[p] \/ ~Open(turn', p)
      PROVE  MinuteInv'
  BY <1>6, WithinFrame
<1>7. CASE QueueSystem  BY <1>6, <1>7 DEF QueueSystem, Bulk
<1>8. CASE UNCHANGED vars  BY <1>6, <1>8 DEF vars, Bulk
<1>9. ASSUME NEW p \in Procs,
             \/ TakeSystem(p) \/ CountSystemReads(p) \/ CountSystemFails(p)
             \/ SkipBulk(p) \/ AbortBulk(p)
      PROVE  MinuteInv'
  <2>1. PICK pc \in {"bulk", "count", "counting", "system"} :
          \E at, n : turn' = [turn EXCEPT ![p] = [pc |-> pc, at |-> at, n |-> n]]
    <3>1. CASE TakeSystem(p)
      <4> DEFINE n == Least(due, MaxRows)
      <4>1. turn' = [turn EXCEPT ![p] = [pc |-> IF n = 0 THEN "bulk" ELSE "count", at |-> 0, n |-> n]]
        BY <3>1 DEF TakeSystem
      <4> HIDE DEF n
      <4>2. CASE n = 0  BY <4>1, <4>2
      <4>3. CASE n # 0  BY <4>1, <4>3
      <4> QED BY <4>2, <4>3
    <3>2. CASE CountSystemReads(p)  BY <3>2 DEF CountSystemReads
    <3>3. CASE CountSystemFails(p)
      <4>1. turn' = [turn EXCEPT ![p] = [pc |-> "bulk", at |-> 0, n |-> 0]]
        BY <3>3 DEF CountSystemFails, Rest
      <4> QED BY <4>1
    <3>4. CASE SkipBulk(p)  BY <3>4 DEF SkipBulk, Rest
    <3>5. CASE AbortBulk(p)  BY <3>5 DEF AbortBulk, Rest
    <3> QED BY <1>9, <3>1, <3>2, <3>3, <3>4, <3>5
  <2>2. Bulk' = Bulk /\ now' = now
    BY <1>9 DEF TakeSystem, CountSystemReads, CountSystemFails, SkipBulk, AbortBulk, Bulk
  <2>3. \A q \in Procs : turn'[q] = turn[q] \/ ~Open(turn', q)
    BY <1>5, <2>1 DEF Open
  <2> QED BY <1>6, <2>2, <2>3
<1>10. ASSUME NEW p \in Procs, CountSystemWrites(p) PROVE MinuteInv'
  <2>1. Bulk' = Bulk /\ now' = now
    BY <1>10 DEF CountSystemWrites, CountSends, Bulk, Safe, TypeOK, Lanes
  <2>2. \A q \in Procs : turn'[q] = turn[q] \/ ~Open(turn', q)
    BY <1>5, <1>10 DEF CountSystemWrites, Open, Rest
  <2> QED BY <1>6, <2>1, <2>2
<1>11. ASSUME NEW p \in Procs, LockBudget(p) PROVE MinuteInv'
  <2>1. Bulk' = Bulk /\ now' = now  BY <1>11 DEF LockBudget, Bulk
  <2>2. turn' = [turn EXCEPT ![p] = [pc |-> "locked", at |-> now, n |-> 0]]
    BY <1>11 DEF LockBudget
  <2>3. \A q \in Procs : Open(turn', q) => NoneAfter(Bulk, turn'[q].at)
    BY <1>5, <2>2 DEF Within, Open
  <2>4. \A q \in Procs : turn'[q].pc = "read" => turn'[q] = turn[q]
    BY <1>5, <2>2
  <2>5. Within(Bulk, now, turn')  BY <2>3, <2>4 DEF Within
  <2> QED BY <2>1, <2>5
<1>12. ASSUME NEW p \in Procs, ReadWindows(p) PROVE MinuteInv'
  <2>1. Bulk' = Bulk /\ now' = now  BY <1>12 DEF ReadWindows, Bulk
  <2>2. PICK n \in 0..MaxRows :
          /\ n > 0 => RoomFor(n, turn[p].at)
          /\ turn' = [turn EXCEPT ![p] = [pc |-> "read", at |-> turn[p].at, n |-> n]]
    BY <1>12 DEF ReadWindows
  <2>3. Open(turn, p)  BY <1>12 DEF ReadWindows, Open
  <2>4. \A q \in Procs : Open(turn', q) => NoneAfter(Bulk, turn'[q].at)
    BY <1>5, <2>2, <2>3 DEF Within, Open
  <2>5. n > 0 => n * MinuteSpan + Estimate(Bulk, turn[p].at) <= Share * MinuteSpan
    <3> HAVE n > 0
    <3>1. n \in Nat /\ turn[p].at \in Instants  BY <1>3 DEF BudgetAssumption
    <3>2. n <= windowRoom(turn[p].at)  BY <2>2 DEF RoomFor
    <3> QED BY <3>1, <3>2, RoomFits DEF Safe
  <2>6. \A q \in Procs : turn'[q].pc = "read" /\ turn'[q].n > 0 =>
          turn'[q].n * MinuteSpan + Estimate(Bulk, turn'[q].at) <= Share * MinuteSpan
    <3> TAKE q \in Procs
    <3>1. CASE q = p
      <4>1. turn'[q].n = n /\ turn'[q].at = turn[p].at  BY <1>5, <2>2, <3>1
      <4> QED BY <2>5, <4>1
    <3>2. CASE q # p
      <4>1. turn'[q] = turn[q]  BY <1>5, <2>2, <3>2
      <4> QED BY <4>1 DEF Within
    <3> QED BY <3>1, <3>2
  <2>7. Within(Bulk, now, turn')  BY <2>4, <2>6 DEF Within
  <2> QED BY <2>1, <2>7
<1>13. ASSUME NEW p \in Procs, TakeBulk(p) PROVE MinuteInv'
  <2> DEFINE a == turn[p].at
             n == turn[p].n
             w == windowStart(a, MinuteSpan)
  <2>1. a \in Instants /\ a <= now /\ n \in Nat /\ w \in Instants  BY <1>3, WindowIsInstant
  <2>2. turn[p].pc = "read" /\ now' = now  BY <1>13 DEF TakeBulk
  <2>3. Bulk' = [Bulk EXCEPT ![w] = @ + n]
    BY <1>13 DEF TakeBulk, CountSends, Bulk, Safe, TypeOK, Lanes
  <2>4. \A q \in Procs : ~Open(turn', q)
    <3>1. turn' = [turn EXCEPT ![p] = Rest]  BY <1>13 DEF TakeBulk
    <3>2. lock = p  BY <1>4, <2>2 DEF Open
    <3>3. \A q \in Procs : q # p => ~Open(turn, q)  BY <1>4, <3>2
    <3> QED BY <1>5, <3>1, <3>3 DEF Open, Rest
  <2>5. CASE n = 0
    <3>1. Bulk' = Bulk
      <4>1. Bulk[w] + 0 = Bulk[w]  BY <1>1, <2>1
      <4> HIDE DEF w, n
      <4> QED BY <1>1, <1>2, <2>1, <2>3, <2>5, <4>1
    <3> QED BY <1>6, <2>2, <2>4, <3>1
  <2>6. CASE n > 0
    <3>1. NoneAfter(Bulk, a)  BY <2>2 DEF Within, Open
    <3>2. n * MinuteSpan + Estimate(Bulk, a) <= Share * MinuteSpan
      BY <2>2, <2>6 DEF Within
    <3> HIDE DEF a, n
    <3>3. Within(Bulk', now, turn')
      BY <1>1, <1>2, <2>1, <2>3, <2>4, <2>6, <3>1, <3>2, WithinTake
    <3> QED BY <2>2, <3>3
  <2> QED BY <2>1, <2>5, <2>6
<1>14. CASE Prune
  <2>1. \A i \in Instants : Bulk'[i] <= Bulk[i]
    <3>1. Bulk' = [i \in Instants |-> IF i < now - KeepWindows THEN 0 ELSE Bulk[i]]
      BY <1>14 DEF Prune, DropBefore, Bulk, Lanes
    <3> QED BY <1>1, <3>1
  <2>2. now' = now /\ turn' = turn  BY <1>14 DEF Prune
  <2>3. turn \in [Procs -> [pc : {"system", "count", "counting", "bulk", "locked", "read"},
                             at : Instants, n : Nat]]
    BY DEF Safe, TypeOK
  <2>4. Within(Bulk', now, turn)  BY <1>1, <1>2, <2>1, <2>3, WithinPrune
  <2> QED BY <2>2, <2>4
<1>15. CASE Tick
  <2>1. Bulk' = Bulk /\ now' = now + 1 /\ turn' = turn  BY <1>15 DEF Tick, Bulk
  <2>2. Within(Bulk, now', turn)  BY <1>1, <1>2, <2>1, WithinTick
  <2> QED BY <2>1, <2>2
<1> QED BY <1>7, <1>8, <1>9, <1>10, <1>11, <1>12, <1>13, <1>14, <1>15 DEF Next, TurnStep

\* For every limit, share and span, however many processes take and however
\* long their transactions stay open: the bulk lane's estimated minute, and
\* every aligned one, is within its share of the limit (bulkRoom).
THEOREM MinuteHeld == Spec => []MinuteEstimateHeld
<1>1. Init => Safe /\ (PerMinute > 0 => MinuteInv)
  BY SafeInit, MinuteInit, BudgetAssumption
<1>2. (Safe /\ (PerMinute > 0 => MinuteInv)) /\ [Next]_vars
        => (Safe /\ (PerMinute > 0 => MinuteInv))'
  BY SafeNext, MinuteNext, BudgetAssumption
<1>3. Safe /\ (PerMinute > 0 => MinuteInv) => MinuteEstimateHeld
  BY EstimateOfMinutes DEF MinuteInv, Within, MinuteEstimateHeld, Bulk, Share
<1> QED BY <1>1, <1>2, <1>3, PTL DEF Spec

-----------------------------------------------------------------------------
(* Sums over sets *)

\* A set of numbers with something in it has a least one.
LEMMA LeastNumber ==
  ASSUME NEW T \in SUBSET Nat, T # {}
  PROVE  \E n \in T : \A m \in T : n <= m
<1> DEFINE R == {p \in Nat \X Nat : p[1] < p[2]}
<1>1. IsWellFoundedOn(R, Nat)  BY NatLessThanWellFounded DEF OpToRel
<1>2. PICK n \in T : \A m \in T : ~(<<m, n>> \in R)
  <2> HIDE DEF R
  <2> QED BY <1>1, WFMin
<1>3. ASSUME NEW m \in T PROVE n <= m
  <2>1. m \in Nat /\ n \in Nat /\ ~(<<m, n>> \in R)  BY <1>2
  <2>2. ~(m < n)  BY <2>1
  <2> QED BY <2>1, <2>2
<1> QED BY <1>3

\* Induction on the subsets of a finite set: F holds all of them when it holds
\* each that it holds with any one element less.
LEMMA SubsetInduction ==
  ASSUME NEW S, IsFiniteSet(S), NEW F,
         \A s \in SUBSET S : (\A x \in s : s \ {x} \in F) => s \in F
  PROVE  \A s \in SUBSET S : s \in F
<1> DEFINE T == {n \in Nat : \E s \in SUBSET S : Cardinality(s) = n /\ s \notin F}
<1> SUFFICES ASSUME T # {} PROVE FALSE
  <2>1. \A s \in SUBSET S : Cardinality(s) \in Nat  BY FS_Subset, FS_CardinalityType
  <2> QED BY <2>1
<1>1. PICK n \in T : \A m \in T : n <= m
  <2>1. T \in SUBSET Nat  OBVIOUS
  <2> HIDE DEF T
  <2> QED BY <2>1, LeastNumber
<1>2. PICK s \in SUBSET S : Cardinality(s) = n /\ s \notin F  BY <1>1
<1>3. PICK x \in s : s \ {x} \notin F  BY <1>2
<1>4. IsFiniteSet(s) /\ s \ {x} \in SUBSET S  BY <1>2, FS_Subset
<1>5. Cardinality(s \ {x}) = n - 1 /\ IsFiniteSet(s \ {x})  BY <1>2, <1>4, FS_RemoveElement
<1>6. n - 1 \in Nat  BY <1>5, FS_CardinalityType
<1>7. n - 1 \in T  BY <1>3, <1>4, <1>5, <1>6
<1> QED
  <2>1. n \in Nat /\ n <= n - 1  BY <1>1, <1>7
  <2> QED BY <2>1

Chosen(s) == CHOOSE x \in s : TRUE

\* h adds up f on the sets of D, an element after the other.
Adds(h, f, D) ==
  h = [s \in D |-> IF s = {} THEN 0 ELSE f[Chosen(s)] + h[s \ {Chosen(s)}]]

\* However many numbers there are, a function adds them up.
LEMMA SumsExist ==
  ASSUME NEW S, IsFiniteSet(S), NEW f, \A i \in S : f[i] \in Nat
  PROVE  \E h \in [SUBSET S -> Nat] : Adds(h, f, SUBSET S)
<1> DEFINE Small(k) == {s \in SUBSET S : Cardinality(s) <= k}
           T == {k \in Nat : ~\E h \in [Small(k) -> Nat] : Adds(h, f, Small(k))}
<1>1. \A s \in SUBSET S : IsFiniteSet(s) /\ Cardinality(s) \in Nat  BY FS_Subset, FS_CardinalityType
<1>2. \A s \in SUBSET S : s # {} => Chosen(s) \in s  BY DEF Chosen
<1>3. T = {}
  <2> SUFFICES ASSUME T # {} PROVE FALSE  OBVIOUS
  <2>1. PICK n \in T : \A m \in T : n <= m
    <3>1. T \in SUBSET Nat  OBVIOUS
    <3> HIDE DEF T
    <3> QED BY <3>1, LeastNumber
  <2>2. CASE n = 0
    <3>1. \A s \in Small(0) : s = {}  BY <1>1, FS_EmptySet
    <3> DEFINE h == [s \in Small(0) |-> 0]
    <3>2. h \in [Small(0) -> Nat]  OBVIOUS
    <3>3. Adds(h, f, Small(0))  BY <3>1 DEF Adds
    <3> QED BY <2>1, <2>2, <3>2, <3>3
  <2>3. CASE n # 0
    <3>1. n \in Nat /\ n - 1 \in Nat /\ n - 1 \notin T  BY <2>1, <2>3
    <3>2. PICK h \in [Small(n - 1) -> Nat] : Adds(h, f, Small(n - 1))  BY <3>1
    <3> DEFINE g == [s \in Small(n) |-> IF s = {} THEN 0 ELSE f[Chosen(s)] + h[s \ {Chosen(s)}]]
    <3>3. \A s \in Small(n) : s # {} => s \ {Chosen(s)} \in Small(n - 1)
      <4> SUFFICES ASSUME NEW s \in Small(n), s # {} PROVE s \ {Chosen(s)} \in Small(n - 1)  OBVIOUS
      <4>1. Chosen(s) \in s /\ IsFiniteSet(s) /\ Cardinality(s) \in Nat /\ Cardinality(s) <= n  BY <1>1, <1>2
      <4>2. Cardinality(s \ {Chosen(s)}) = Cardinality(s) - 1  BY <4>1, FS_RemoveElement
      <4> QED BY <3>1, <4>1, <4>2
    <3>4. \A s \in Small(n - 1) : s \in Small(n) /\ g[s] = h[s]
      <4>1. \A s \in Small(n - 1) : s \in Small(n)  BY <1>1, <3>1
      <4>2. \A s \in Small(n - 1) : h[s] = IF s = {} THEN 0 ELSE f[Chosen(s)] + h[s \ {Chosen(s)}]
        <5> HIDE DEF Small
        <5> QED BY <3>2 DEF Adds
      <4> HIDE DEF Small
      <4> QED BY <4>1, <4>2
    <3>5. \A s \in Small(n) : s # {} => Chosen(s) \in S  BY <1>2
    <3>6. g \in [Small(n) -> Nat]
      <4> SUFFICES ASSUME NEW s \in Small(n)
                   PROVE  (IF s = {} THEN 0 ELSE f[Chosen(s)] + h[s \ {Chosen(s)}]) \in Nat
        OBVIOUS
      <4>1. CASE s # {}
        <5>1. f[Chosen(s)] \in Nat  BY <3>5, <4>1
        <5>2. h[s \ {Chosen(s)}] \in Nat
          <6> HIDE DEF Small
          <6> QED BY <3>2, <3>3, <4>1
        <5> QED BY <5>1, <5>2
      <4> QED BY <4>1
    <3>7. Adds(g, f, Small(n))
      <4>1. \A s \in Small(n) : s # {} => g[s \ {Chosen(s)}] = h[s \ {Chosen(s)}]  BY <3>3, <3>4
      <4>2. g = [s \in Small(n) |-> IF s = {} THEN 0 ELSE f[Chosen(s)] + g[s \ {Chosen(s)}]]
        <5> HIDE DEF Small
        <5> QED BY <4>1
      <4> HIDE DEF g, Small
      <4> QED BY <4>2 DEF Adds
    <3> QED
      <4> HIDE DEF g, Small
      <4> QED BY <2>1, <3>6, <3>7
  <2> QED BY <2>2, <2>3
<1>4. SUBSET S = Small(Cardinality(S)) /\ Cardinality(S) \in Nat  BY <1>1, FS_Subset
<1> QED
  <2>1. Cardinality(S) \notin T  BY <1>3
  <2> HIDE DEF Small
  <2> QED BY <1>4, <2>1

\* What SumFunctionOnSet is: the numbers of the set added up, one after the other,
\* however many others there are.
LEMMA SumIs ==
  ASSUME NEW S, IsFiniteSet(S), NEW f, \A i \in S : f[i] \in Nat,
         NEW h, Adds(h, f, SUBSET S)
  PROVE  \A s \in SUBSET S : SumFunctionOnSet(f, s) = h[s]
<1> SUFFICES ASSUME NEW s \in SUBSET S PROVE SumFunctionOnSet(f, s) = h[s]  OBVIOUS
<1> DEFINE k == CHOOSE iter : Adds(iter, f, SUBSET s)
           F == {r \in SUBSET s : k[r] = h[r]}
<1>1. SumFunctionOnSet(f, s) = k[s]
  BY DEF SumFunctionOnSet, FoldFunctionOnSet, MapThenFoldSet, Chosen, Adds
<1>2. IsFiniteSet(s)  BY FS_Subset
<1>3. \E iter : Adds(iter, f, SUBSET s)  BY <1>2, SumsExist
<1>4. Adds(k, f, SUBSET s)  BY <1>3
<1>5. ASSUME NEW r \in SUBSET s, \A x \in r : r \ {x} \in F PROVE r \in F
  <2> HIDE DEF k
  <2>1. /\ h[r] = IF r = {} THEN 0 ELSE f[Chosen(r)] + h[r \ {Chosen(r)}]
        /\ k[r] = IF r = {} THEN 0 ELSE f[Chosen(r)] + k[r \ {Chosen(r)}]
    <3>1. r \in SUBSET S  OBVIOUS
    <3> QED BY <1>4, <3>1 DEF Adds
  <2>2. r # {} => Chosen(r) \in r  BY DEF Chosen
  <2>3. r # {} => h[r \ {Chosen(r)}] = k[r \ {Chosen(r)}]  BY <1>5, <2>2
  <2>4. h[r] = k[r]  BY <2>1, <2>3
  <2> QED BY <2>4
<1>6. s \in F
  <2>1. s \in SUBSET s  OBVIOUS
  <2> HIDE DEF F
  <2> QED BY <1>2, <1>5, <2>1, SubsetInduction
<1> QED BY <1>1, <1>6

\* A sum is a number, nothing for no elements, and else an element and the rest.
LEMMA SumStep ==
  ASSUME NEW S, IsFiniteSet(S), NEW f, \A i \in S : f[i] \in Nat
  PROVE  /\ \A s \in SUBSET S : SumFunctionOnSet(f, s) \in Nat
         /\ SumFunctionOnSet(f, {}) = 0
         /\ \A s \in SUBSET S : s # {} =>
              /\ Chosen(s) \in s
              /\ SumFunctionOnSet(f, s) = f[Chosen(s)] + SumFunctionOnSet(f, s \ {Chosen(s)})
<1>1. PICK h \in [SUBSET S -> Nat] : Adds(h, f, SUBSET S)  BY SumsExist
<1>2. \A s \in SUBSET S : SumFunctionOnSet(f, s) = h[s]  BY <1>1, SumIs
<1>3. \A s \in SUBSET S : h[s] = IF s = {} THEN 0 ELSE f[Chosen(s)] + h[s \ {Chosen(s)}]
  BY <1>1 DEF Adds
<1>4. \A s \in SUBSET S : s # {} => Chosen(s) \in s /\ s \ {Chosen(s)} \in SUBSET S  BY DEF Chosen
<1>5. {} \in SUBSET S  OBVIOUS
<1>6. SumFunctionOnSet(f, {}) = 0  BY <1>2, <1>3, <1>5
<1>7. \A s \in SUBSET S : SumFunctionOnSet(f, s) \in Nat  BY <1>1, <1>2
<1>8. \A s \in SUBSET S : s # {} =>
        SumFunctionOnSet(f, s) = f[Chosen(s)] + SumFunctionOnSet(f, s \ {Chosen(s)})
  BY <1>2, <1>3, <1>4
<1> QED BY <1>4, <1>6, <1>7, <1>8

\* Any element may be the one that is split off.
LEMMA SumSplit ==
  ASSUME NEW S, IsFiniteSet(S), NEW f, \A i \in S : f[i] \in Nat, NEW x \in S
  PROVE  SumFunctionOnSet(f, S) = f[x] + SumFunctionOnSet(f, S \ {x})
<1> DEFINE F == {s \in SUBSET S : \A y \in s : SumFunctionOnSet(f, s) = f[y] + SumFunctionOnSet(f, s \ {y})}
<1>1. ASSUME NEW s \in SUBSET S, \A y \in s : s \ {y} \in F PROVE s \in F
  <2> SUFFICES ASSUME NEW y \in s
               PROVE  SumFunctionOnSet(f, s) = f[y] + SumFunctionOnSet(f, s \ {y})
    OBVIOUS
  <2> DEFINE c == Chosen(s)
  <2>1. c \in s /\ SumFunctionOnSet(f, s) = f[c] + SumFunctionOnSet(f, s \ {c})  BY SumStep
  <2>2. CASE y = c  BY <2>1, <2>2
  <2>3. CASE y # c
    <3> HIDE DEF c
    <3> DEFINE r == (s \ {c}) \ {y}
    <3>1. s \ {c} \in F /\ s \ {y} \in F  BY <1>1, <2>1
    <3>2. SumFunctionOnSet(f, s \ {c}) = f[y] + SumFunctionOnSet(f, r)  BY <3>1, <2>3
    <3>3. SumFunctionOnSet(f, s \ {y}) = f[c] + SumFunctionOnSet(f, (s \ {y}) \ {c})  BY <3>1, <2>1, <2>3
    <3>4. (s \ {y}) \ {c} = r  OBVIOUS
    <3>5. f[y] \in Nat /\ f[c] \in Nat /\ SumFunctionOnSet(f, r) \in Nat
      <4>1. y \in S /\ c \in S /\ r \in SUBSET S  BY <2>1
      <4>2. \A t \in SUBSET S : SumFunctionOnSet(f, t) \in Nat  BY SumStep
      <4> QED BY <4>1, <4>2
    <3>6. SumFunctionOnSet(f, s \ {y}) = f[c] + SumFunctionOnSet(f, r)  BY <3>3, <3>4
    <3> HIDE DEF r
    <3> QED BY <2>1, <3>2, <3>5, <3>6
  <2> QED BY <2>2, <2>3
<1>2. S \in F
  <2>1. S \in SUBSET S  OBVIOUS
  <2> HIDE DEF F
  <2> QED BY <1>1, <2>1, SubsetInduction
<1> QED BY <1>2

\* The larger set has the larger sum.
LEMMA SumOfMore ==
  ASSUME NEW S, IsFiniteSet(S), NEW f, \A i \in S : f[i] \in Nat, NEW R \in SUBSET S
  PROVE  SumFunctionOnSet(f, R) <= SumFunctionOnSet(f, S)
<1> DEFINE F == {s \in SUBSET S : R \subseteq s => SumFunctionOnSet(f, R) <= SumFunctionOnSet(f, s)}
<1>0. \A s \in SUBSET S : SumFunctionOnSet(f, s) \in Nat  BY SumStep
<1>1. ASSUME NEW s \in SUBSET S, \A y \in s : s \ {y} \in F PROVE s \in F
  <2> SUFFICES ASSUME R \subseteq s PROVE SumFunctionOnSet(f, R) <= SumFunctionOnSet(f, s)  OBVIOUS
  <2>1. CASE R = s  BY <1>0, <2>1
  <2>2. CASE R # s
    <3>1. PICK x \in s : x \notin R  BY <2>2
    <3>2. SumFunctionOnSet(f, R) <= SumFunctionOnSet(f, s \ {x})  BY <1>1, <3>1
    <3>3. SumFunctionOnSet(f, s) = f[x] + SumFunctionOnSet(f, s \ {x})
      <4>1. IsFiniteSet(s) /\ \A i \in s : f[i] \in Nat  BY FS_Subset
      <4> QED BY <4>1, SumSplit
    <3>4. /\ SumFunctionOnSet(f, R) \in Nat /\ SumFunctionOnSet(f, s \ {x}) \in Nat
          /\ f[x] \in Nat
      <4>1. s \ {x} \in SUBSET S /\ x \in S  OBVIOUS
      <4> QED BY <1>0, <4>1
    <3> QED BY <3>2, <3>3, <3>4
  <2> QED BY <2>1, <2>2
<1>2. S \in F
  <2>1. S \in SUBSET S  OBVIOUS
  <2> HIDE DEF F
  <2> QED BY <1>1, <2>1, SubsetInduction
<1> QED BY <1>2

\* Functions that agree on a set have one sum there.
LEMMA SumOfEqual ==
  ASSUME NEW S, IsFiniteSet(S), NEW f, \A i \in S : f[i] \in Nat,
         NEW g, \A i \in S : g[i] = f[i]
  PROVE  SumFunctionOnSet(g, S) = SumFunctionOnSet(f, S)
<1> DEFINE F == {s \in SUBSET S : SumFunctionOnSet(g, s) = SumFunctionOnSet(f, s)}
<1>0. \A i \in S : g[i] \in Nat  OBVIOUS
<1>3. \A s \in SUBSET S : s # {} =>
        Chosen(s) \in s /\ SumFunctionOnSet(f, s) = f[Chosen(s)] + SumFunctionOnSet(f, s \ {Chosen(s)})
  BY SumStep
<1>4. \A s \in SUBSET S : s # {} =>
        SumFunctionOnSet(g, s) = g[Chosen(s)] + SumFunctionOnSet(g, s \ {Chosen(s)})
  BY <1>0, SumStep
<1>1. ASSUME NEW s \in SUBSET S, \A y \in s : s \ {y} \in F PROVE s \in F
  <2>1. CASE s = {}
    <3>1. SumFunctionOnSet(f, {}) = 0  BY SumStep
    <3>2. SumFunctionOnSet(g, {}) = 0  BY <1>0, SumStep
    <3> QED BY <2>1, <3>1, <3>2
  <2>2. CASE s # {}
    <3> DEFINE c == Chosen(s)
    <3>1. c \in s /\ SumFunctionOnSet(f, s) = f[c] + SumFunctionOnSet(f, s \ {c})  BY <2>2, <1>3
    <3>2. SumFunctionOnSet(g, s) = g[c] + SumFunctionOnSet(g, s \ {c})  BY <2>2, <1>4
    <3> HIDE DEF c
    <3>3. f[c] = g[c] /\ SumFunctionOnSet(g, s \ {c}) = SumFunctionOnSet(f, s \ {c})  BY <1>1, <3>1
    <3> QED BY <3>1, <3>2, <3>3
  <2> QED BY <2>1, <2>2
<1>2. S \in F
  <2>1. S \in SUBSET S  OBVIOUS
  <2> HIDE DEF F
  <2> QED BY <1>1, <2>1, SubsetInduction
<1> QED BY <1>2

\* Raising one value raises the sums it is part of.
LEMMA SumOfRaised ==
  ASSUME NEW S, IsFiniteSet(S), NEW f, \A i \in S : f[i] \in Nat, NEW x \in S, NEW n \in Nat,
         NEW g, g[x] = f[x] + n, \A i \in S \ {x} : g[i] = f[i]
  PROVE  SumFunctionOnSet(g, S) = SumFunctionOnSet(f, S) + n
<1>1. SumFunctionOnSet(f, S) = f[x] + SumFunctionOnSet(f, S \ {x})  BY SumSplit
<1>2. SumFunctionOnSet(g, S) = g[x] + SumFunctionOnSet(g, S \ {x})
  <2>1. \A i \in S : g[i] \in Nat  OBVIOUS
  <2> QED BY <2>1, SumSplit
<1>3. SumFunctionOnSet(g, S \ {x}) = SumFunctionOnSet(f, S \ {x})
  <2>1. IsFiniteSet(S \ {x})  BY FS_Subset
  <2> QED BY <2>1, SumOfEqual
<1>4. SumFunctionOnSet(f, S \ {x}) \in Nat /\ f[x] \in Nat
  <2>1. S \ {x} \in SUBSET S  OBVIOUS
  <2> QED BY <2>1, SumStep
<1> QED BY <1>1, <1>2, <1>3, <1>4

\* Nothing but nothing adds up to nothing.
LEMMA SumOfNothing ==
  ASSUME NEW S, IsFiniteSet(S), NEW f, \A i \in S : f[i] = 0
  PROVE  SumFunctionOnSet(f, S) = 0
<1> DEFINE F == {s \in SUBSET S : SumFunctionOnSet(f, s) = 0}
<1>1. \A i \in S : f[i] \in Nat  OBVIOUS
<1>2. /\ SumFunctionOnSet(f, {}) = 0
      /\ \A s \in SUBSET S : s # {} =>
           Chosen(s) \in s /\ SumFunctionOnSet(f, s) = f[Chosen(s)] + SumFunctionOnSet(f, s \ {Chosen(s)})
  BY <1>1, SumStep
<1>3. ASSUME NEW s \in SUBSET S, \A y \in s : s \ {y} \in F PROVE s \in F
  <2>1. CASE s = {}  BY <1>2, <2>1
  <2>2. CASE s # {}
    <3> DEFINE c == Chosen(s)
    <3>1. c \in s /\ SumFunctionOnSet(f, s) = f[c] + SumFunctionOnSet(f, s \ {c})  BY <1>2, <2>2
    <3> HIDE DEF c
    <3>2. f[c] = 0 /\ SumFunctionOnSet(f, s \ {c}) = 0  BY <1>3, <3>1
    <3> QED BY <3>1, <3>2
  <2> QED BY <2>1, <2>2
<1>4. S \in F
  <2>1. S \in SUBSET S  OBVIOUS
  <2> HIDE DEF F
  <2> QED BY <1>3, <2>1, SubsetInduction
<1> QED BY <1>4

-----------------------------------------------------------------------------
(* The day *)

From(b) == {i \in Instants : i >= b}
Since(f, b) == SumFunctionOnSet(f, From(b))
DayShare == bulkShare(PerDay)
BulkHours == hours["bulk"]

\* The instants an hour's window starts at, those before the clock's included.
HourStarts == {b \in Int : windowStart(b, HourSpan) = b}

\* An instant comes after an hour's start when its hour does.
LEMMA HourStart ==
  ASSUME BudgetAssumption, NEW at \in Int
  PROVE  /\ windowStart(at, HourSpan) \in HourStarts
         /\ \A b \in HourStarts : at >= b <=> windowStart(at, HourSpan) >= b
<1> DEFINE w == windowStart(at, HourSpan)
<1>1. HourSpan \in Nat /\ HourSpan > 0  BY DEF BudgetAssumption
<1>2. w \in Int /\ w <= at  BY <1>1, WindowOf
<1>3. w \in HourStarts
  <2> DEFINE v == windowStart(w, HourSpan)
  <2>1. v \in Int /\ w - v < HourSpan  BY <1>1, <1>2, WindowOf
  <2>2. v = w \/ v + HourSpan <= w
    <3> HIDE DEF w
    <3>1. windowStart(w, HourSpan) = windowStart(at, HourSpan)
          \/ windowStart(w, HourSpan) + HourSpan <= windowStart(at, HourSpan)
      BY <1>1, <1>2, WindowsInOrder
    <3> QED BY <3>1 DEF w
  <2>3. v = w
    <3> HIDE DEF w, v
    <3> QED BY <1>1, <1>2, <2>1, <2>2
  <2> QED BY <1>2, <2>3 DEF HourStarts
<1>4. ASSUME NEW b \in HourStarts PROVE at >= b <=> w >= b
  <2>1. b \in Int /\ windowStart(b, HourSpan) = b  BY DEF HourStarts
  <2>2. CASE b <= at
    <3>1. windowStart(b, HourSpan) = w \/ windowStart(b, HourSpan) + HourSpan <= w
      BY <1>1, <2>1, <2>2, WindowsInOrder
    <3> HIDE DEF w
    <3>2. b <= w  BY <1>1, <1>2, <2>1, <3>1
    <3> QED BY <1>2, <2>1, <2>2, <3>2
  <2>3. CASE ~(b <= at)
    <3> HIDE DEF w
    <3> QED BY <1>2, <2>1, <2>3
  <2> QED BY <2>2, <2>3
<1> QED BY <1>3, <1>4

\* The clock's instants are finitely many.
LEMMA InstantsAreFinite ==
  ASSUME BudgetAssumption PROVE \A S \in SUBSET Instants : IsFiniteSet(S)
<1>1. IsFiniteSet(Instants)  BY FS_Interval DEF Instants, BudgetAssumption
<1> QED BY <1>1, FS_Subset

\* The sums of a day's proof, of counts by instant.
LEMMA SumIsNat ==
  ASSUME BudgetAssumption, NEW f \in [Instants -> Nat], NEW S \in SUBSET Instants
  PROVE  SumFunctionOnSet(f, S) \in Nat
<1>1. IsFiniteSet(S) /\ \A i \in S : f[i] \in Nat  BY InstantsAreFinite
<1>2. S \in SUBSET S  OBVIOUS
<1> QED BY <1>1, <1>2, SumStep

\* The later part of the counts has the lesser sum.
LEMMA SumOfPart ==
  ASSUME BudgetAssumption, NEW f \in [Instants -> Nat],
         NEW S \in SUBSET Instants, NEW R \in SUBSET S
  PROVE  SumFunctionOnSet(f, R) <= SumFunctionOnSet(f, S)
<1>1. IsFiniteSet(S) /\ \A i \in S : f[i] \in Nat  BY InstantsAreFinite
<1> QED BY <1>1, SumOfMore

\* Counting n rows at x is n rows more in the sums x is part of.
LEMMA SumAfterCount ==
  ASSUME BudgetAssumption, NEW f \in [Instants -> Nat], NEW x \in Instants, NEW n \in Nat,
         NEW g, g[x] = f[x] + n, \A i \in Instants \ {x} : g[i] = f[i],
         NEW S \in SUBSET Instants
  PROVE  /\ x \in S => SumFunctionOnSet(g, S) = SumFunctionOnSet(f, S) + n
         /\ x \notin S => SumFunctionOnSet(g, S) = SumFunctionOnSet(f, S)
<1>1. IsFiniteSet(S) /\ \A i \in S : f[i] \in Nat  BY InstantsAreFinite
<1>2. g[x] = f[x] + n /\ \A i \in S \ {x} : g[i] = f[i]  OBVIOUS
<1>3. CASE x \in S
  <2>1. \A h : h[x] = f[x] + n /\ (\A i \in S \ {x} : h[i] = f[i]) =>
          SumFunctionOnSet(h, S) = SumFunctionOnSet(f, S) + n
    BY <1>1, <1>3, SumOfRaised
  <2> QED BY <1>2, <1>3, <2>1
<1>4. CASE x \notin S
  <2>1. \A i \in S : g[i] = f[i]  BY <1>2, <1>4
  <2>2. SumFunctionOnSet(g, S) = SumFunctionOnSet(f, S)  BY <1>1, <2>1, SumOfEqual
  <2> QED BY <1>4, <2>2
<1> QED BY <1>3, <1>4

\* The inductive part, of the bulk rows taken (f), the hours counted (h), the
\* clock and the turns.  The hours from any start on that is not pruned yet
\* add up to what was taken from it on; so the transaction that has read them
\* knows what was taken in the day that ends at its instant.
Balanced(f, h, t) ==
  \A b \in HourStarts : b >= t - KeepWindows => Since(f, b) = Since(h, b)
OpenBriefly(t, turns) == \A p \in Procs : Open(turns, p) => t - turns[p].at <= MaxOpen
DayFits(f, turns) ==
  \A p \in Procs : turns[p].pc = "read" /\ turns[p].n > 0 =>
    turns[p].n + Since(f, turns[p].at - DaySpan + 1) <= DayShare
InDay(f) == \A t \in Instants :
  SumFunctionOnSet(f, {i \in Instants : t - DaySpan < i /\ i <= t}) <= DayShare

DayInv ==
  /\ Balanced(bulkAt, BulkHours, now)
  /\ OpenBriefly(now, turn)
  /\ PerDay > 0 => DayFits(bulkAt, turn) /\ InDay(bulkAt)

\* The invariant holds at first.
LEMMA DayInit == ASSUME BudgetAssumption, Init PROVE DayInv
<1>1. bulkAt = [i \in Instants |-> 0] /\ BulkHours = [i \in Instants |-> 0]
  BY DEF Init, BulkHours, Lanes
<1>2. Balanced(bulkAt, BulkHours, now)  BY <1>1 DEF Balanced
<1>3. \A p \in Procs : turn[p].pc = "system"  BY DEF Init, Rest
<1>4. ASSUME NEW S \in SUBSET Instants PROVE SumFunctionOnSet(bulkAt, S) = 0
  <2>1. \A i \in S : bulkAt[i] = 0  BY <1>1
  <2>2. IsFiniteSet(S)  BY InstantsAreFinite
  <2> QED BY <2>1, <2>2, SumOfNothing
<1>5. PerDay > 0 => InDay(bulkAt)
  <2> HAVE PerDay > 0
  <2>1. DayShare \in Nat  BY ShareIsPositive DEF BudgetAssumption, DayShare
  <2>2. \A t \in Instants : {i \in Instants : t - DaySpan < i /\ i <= t} \in SUBSET Instants  OBVIOUS
  <2> QED BY <1>4, <2>1, <2>2 DEF InDay
<1> QED BY <1>2, <1>3, <1>5 DEF DayInv, OpenBriefly, DayFits, Open

\* The windows are kept for as long as an open transaction may read them.
LEMMA DayIsKept ==
  ASSUME BudgetAssumption, NEW at \in Instants, NEW t \in Instants, t - at <= MaxOpen
  PROVE  /\ dayFrom(at) \in HourStarts
         /\ dayFrom(at) >= t - KeepWindows
         /\ dayFrom(at) < at - DaySpan + 1
<1> DEFINE x == at - DaySpan
           w == windowStart(x, HourSpan)
<1>1. /\ x \in Int /\ HourSpan \in Nat /\ HourSpan > 0 /\ at \in Int /\ t \in Int
      /\ DaySpan \in Nat /\ KeepWindows \in Nat /\ MaxOpen \in Nat
      /\ KeepWindows + 1 >= DaySpan + HourSpan + MaxOpen
  BY DEF BudgetAssumption, Instants
<1>2. w \in Int /\ w <= x /\ x - w < HourSpan  BY <1>1, WindowOf
<1>3. w \in HourStarts  BY <1>1, HourStart
<1>4. w >= t - KeepWindows /\ w < at - DaySpan + 1
  <2> HIDE DEF w
  <2> QED BY <1>1, <1>2
<1> QED BY <1>3, <1>4 DEF dayFrom

\* Rows the day has room for fit what was taken in the day up to the instant.
LEMMA DayRoomFits ==
  ASSUME BudgetAssumption, PerDay > 0, TypeOK, NEW at \in Instants, now - at <= MaxOpen,
         Balanced(bulkAt, BulkHours, now), NEW n \in Nat, n > 0, n <= dayRoom(at)
  PROVE  n + Since(bulkAt, at - DaySpan + 1) <= DayShare
<1> DEFINE bulk == DayTaken("bulk", at)
           total == bulk + DayTaken("system", at)
           room == Least(DayShare * 1 - bulk, PerDay * 1 - total)
<1>1. /\ bulkAt \in [Instants -> Nat] /\ BulkHours \in [Instants -> Nat]
      /\ hours["system"] \in [Instants -> Nat] /\ now \in Instants
  BY DEF TypeOK, BulkHours, Lanes
<1>2. bulk = Since(BulkHours, dayFrom(at))  BY DEF DayTaken, Since, From, BulkHours
<1>3. /\ dayFrom(at) \in HourStarts /\ dayFrom(at) >= now - KeepWindows
      /\ dayFrom(at) < at - DaySpan + 1
  BY <1>1, DayIsKept
<1>4. bulk = Since(bulkAt, dayFrom(at))  BY <1>2, <1>3 DEF Balanced
<1>5. Since(bulkAt, at - DaySpan + 1) <= bulk
  <2>1. at \in Int /\ DaySpan \in Int /\ dayFrom(at) \in Int
    BY <1>3 DEF Instants, BudgetAssumption, HourStarts
  <2>2. From(at - DaySpan + 1) \in SUBSET From(dayFrom(at)) /\ From(dayFrom(at)) \in SUBSET Instants
    BY <1>3, <2>1 DEF From, Instants
  <2>3. Since(bulkAt, at - DaySpan + 1) <= Since(bulkAt, dayFrom(at))
    BY <1>1, <2>2, SumOfPart DEF Since
  <2> QED BY <1>4, <2>3
<1>6. bulk \in Nat /\ DayTaken("system", at) \in Nat /\ Since(bulkAt, at - DaySpan + 1) \in Nat
  <2>1. \A b : From(b) \in SUBSET Instants  BY DEF From
  <2>2. {start \in Instants : start >= dayFrom(at)} \in SUBSET Instants  OBVIOUS
  <2> QED BY <1>1, <1>4, <2>1, <2>2, SumIsNat DEF Since, DayTaken
<1>7. DayShare \in Nat /\ PerDay \in Nat  BY ShareIsPositive DEF BudgetAssumption, DayShare
<1>8. dayRoom(at) = IF room <= 0 THEN 0 ELSE room \div 1
  BY DEF dayRoom, limitRoom, DayShare
<1>9. room \in Int /\ room <= DayShare - bulk
  <2> HIDE DEF bulk
  <2> QED BY <1>6, <1>7 DEF Least
<1>10. n <= room
  <2> HIDE DEF room
  <2>1. n <= room \div 1  BY <1>8
  <2>2. n * 1 <= room  BY <1>9, <2>1, DivisionFits
  <2> QED BY <2>2
<1> HIDE DEF room, bulk
<1> QED BY <1>5, <1>6, <1>7, <1>9, <1>10

\* Every step keeps it.  A turn that reads finds room for its rows (DayRoomFits);
\* no other counts meanwhile, and its rows are in the day of every later instant
\* of the 24 hours from its own on, no earlier row of which it has not seen.
LEMMA DayNext ==
  ASSUME BudgetAssumption, Safe, Safe', DayInv, [Next]_vars
  PROVE  DayInv'
<1> USE DEF DayInv
<1>1. bulkAt \in [Instants -> Nat] /\ BulkHours \in [Instants -> Nat] /\ now \in Instants
  BY DEF Safe, TypeOK, BulkHours, Lanes
<1>a. bulkAt \in [Instants -> Nat]  BY <1>1
<1>b. BulkHours \in [Instants -> Nat]  BY <1>1
<1>2. now' \in Instants  BY DEF Safe, TypeOK
<1>3. \A p \in Procs : /\ turn[p].pc \in {"system", "count", "counting", "bulk", "locked", "read"}
                        /\ turn[p].at \in Instants /\ turn[p].n \in Nat
  BY DEF Safe, TypeOK
<1>4. \A p \in Procs : Open(turn, p) <=> lock = p
  BY DEF Safe, LockIsExclusive, InTransaction, Open
<1>5. DOMAIN turn = Procs  BY DEF Safe, TypeOK
\* What leaves the clock and the bulk rows, and opens no transaction.
<1>6. ASSUME bulkAt' = bulkAt, BulkHours' = BulkHours, now' = now,
             \A p \in Procs : turn'[p] = turn[p] \/ ~Open(turn', p)
      PROVE  DayInv'
  BY <1>6 DEF OpenBriefly, DayFits, Open
<1>7. CASE QueueSystem  BY <1>6, <1>7 DEF QueueSystem, BulkHours
<1>8. CASE UNCHANGED vars  BY <1>6, <1>8 DEF vars, BulkHours
<1>9. ASSUME NEW p \in Procs,
             \/ TakeSystem(p) \/ CountSystemReads(p) \/ CountSystemWrites(p) \/ CountSystemFails(p)
             \/ SkipBulk(p) \/ AbortBulk(p)
      PROVE  DayInv'
  <2>1. \A q \in Procs : turn'[q] = turn[q] \/ ~Open(turn', q)
    BY <1>5, <1>9 DEF TakeSystem, CountSystemReads, CountSystemWrites, CountSystemFails,
                      SkipBulk, AbortBulk, Open, Rest
  <2>2. BulkHours' = BulkHours
    BY <1>9 DEF TakeSystem, CountSystemReads, CountSystemWrites, CountSystemFails, SkipBulk,
                AbortBulk, CountSends, BulkHours, Safe, TypeOK, Lanes
  <2>3. bulkAt' = bulkAt /\ now' = now
    BY <1>9 DEF TakeSystem, CountSystemReads, CountSystemWrites, CountSystemFails, SkipBulk, AbortBulk
  <2> QED BY <1>6, <2>1, <2>2, <2>3
<1>10. ASSUME NEW p \in Procs, LockBudget(p) PROVE DayInv'
  <2>1. bulkAt' = bulkAt /\ BulkHours' = BulkHours /\ now' = now  BY <1>10 DEF LockBudget, BulkHours
  <2>2. turn' = [turn EXCEPT ![p] = [pc |-> "locked", at |-> now, n |-> 0]]
    BY <1>10 DEF LockBudget
  <2>3. now - now <= MaxOpen  BY <1>1 DEF Instants, BudgetAssumption
  <2>4. OpenBriefly(now, turn')
    <3> SUFFICES ASSUME NEW q \in Procs, Open(turn', q) PROVE now - turn'[q].at <= MaxOpen
      BY DEF OpenBriefly
    <3>1. CASE q = p
      <4>1. turn'[q].at = now  BY <1>5, <2>2, <3>1
      <4> QED BY <2>3, <4>1
    <3>2. CASE q # p
      <4>1. turn'[q] = turn[q]  BY <1>5, <2>2, <3>2
      <4> QED BY <4>1 DEF OpenBriefly, Open
    <3> QED BY <3>1, <3>2
  <2>5. \A q \in Procs : turn'[q].pc = "read" => turn'[q] = turn[q]  BY <1>5, <2>2
  <2>6. PerDay > 0 => DayFits(bulkAt, turn')  BY <2>5 DEF DayFits
  <2> QED BY <2>1, <2>4, <2>6
<1>11. ASSUME NEW p \in Procs, ReadWindows(p) PROVE DayInv'
  <2>1. bulkAt' = bulkAt /\ BulkHours' = BulkHours /\ now' = now  BY <1>11 DEF ReadWindows, BulkHours
  <2>2. PICK n \in 0..MaxRows :
          /\ n > 0 => RoomFor(n, turn[p].at)
          /\ turn' = [turn EXCEPT ![p] = [pc |-> "read", at |-> turn[p].at, n |-> n]]
    BY <1>11 DEF ReadWindows
  <2>3. Open(turn, p)  BY <1>11 DEF ReadWindows, Open
  <2>4. OpenBriefly(now, turn')  BY <1>5, <2>2, <2>3 DEF OpenBriefly, Open
  <2>5. PerDay > 0 /\ n > 0 => n + Since(bulkAt, turn[p].at - DaySpan + 1) <= DayShare
    <3> HAVE PerDay > 0 /\ n > 0
    <3>1. n \in Nat /\ turn[p].at \in Instants  BY <1>3 DEF BudgetAssumption
    <3>2. n <= dayRoom(turn[p].at)  BY <2>2 DEF RoomFor
    <3>3. now - turn[p].at <= MaxOpen  BY <2>3 DEF OpenBriefly
    <3> QED BY <3>1, <3>2, <3>3, DayRoomFits DEF Safe
  <2>6. PerDay > 0 => DayFits(bulkAt, turn')
    <3> SUFFICES ASSUME PerDay > 0, NEW q \in Procs, turn'[q].pc = "read", turn'[q].n > 0
                 PROVE  turn'[q].n + Since(bulkAt, turn'[q].at - DaySpan + 1) <= DayShare
      BY DEF DayFits
    <3>1. CASE q = p
      <4>1. turn'[q].n = n /\ turn'[q].at = turn[p].at  BY <1>5, <2>2, <3>1
      <4> QED BY <2>5, <4>1
    <3>2. CASE q # p
      <4>1. turn'[q] = turn[q]  BY <1>5, <2>2, <3>2
      <4> QED BY <4>1 DEF DayFits
    <3> QED BY <3>1, <3>2
  <2> QED BY <2>1, <2>4, <2>6
<1>12. ASSUME NEW p \in Procs, TakeBulk(p) PROVE DayInv'
  <2> DEFINE a == turn[p].at
             n == turn[p].n
             w == windowStart(a, HourSpan)
  <2>1. a \in Instants /\ n \in Nat /\ w \in Instants  BY <1>3, WindowIsInstant
  <2>2. turn[p].pc = "read" /\ now' = now  BY <1>12 DEF TakeBulk
  <2>3. BulkHours' = [BulkHours EXCEPT ![w] = @ + n]
    BY <1>12 DEF TakeBulk, CountSends, BulkHours, Safe, TypeOK, Lanes
  <2>4. bulkAt' = [bulkAt EXCEPT ![a] = @ + n]  BY <1>12 DEF TakeBulk
  <2>5. \A q \in Procs : ~Open(turn', q)
    <3>1. turn' = [turn EXCEPT ![p] = Rest]  BY <1>12 DEF TakeBulk
    <3>2. lock = p  BY <1>4, <2>2 DEF Open
    <3>3. \A q \in Procs : q # p => ~Open(turn, q)  BY <1>4, <3>2
    <3> QED BY <1>5, <3>1, <3>3 DEF Open, Rest
  <2>6. \A S \in SUBSET Instants :
          /\ SumFunctionOnSet(bulkAt', S) = SumFunctionOnSet(bulkAt, S) + (IF a \in S THEN n ELSE 0)
          /\ SumFunctionOnSet(BulkHours', S)
               = SumFunctionOnSet(BulkHours, S) + (IF w \in S THEN n ELSE 0)
    <3> HIDE DEF a, n, w
    <3> TAKE S \in SUBSET Instants
    <3>1. bulkAt'[a] = bulkAt[a] + n /\ \A i \in Instants \ {a} : bulkAt'[i] = bulkAt[i]
      BY <1>1, <2>1, <2>4
    <3>2. BulkHours'[w] = BulkHours[w] + n /\ \A i \in Instants \ {w} : BulkHours'[i] = BulkHours[i]
      BY <1>1, <2>1, <2>3
    <3>a. a \in Instants /\ w \in Instants /\ n \in Nat  BY <2>1
    <3>3. /\ a \in S => SumFunctionOnSet(bulkAt', S) = SumFunctionOnSet(bulkAt, S) + n
          /\ a \notin S => SumFunctionOnSet(bulkAt', S) = SumFunctionOnSet(bulkAt, S)
      BY <1>a, <3>a, <3>1, SumAfterCount
    <3>4. /\ w \in S => SumFunctionOnSet(BulkHours', S) = SumFunctionOnSet(BulkHours, S) + n
          /\ w \notin S => SumFunctionOnSet(BulkHours', S) = SumFunctionOnSet(BulkHours, S)
      BY <1>b, <3>a, <3>2, SumAfterCount
    <3>5. SumFunctionOnSet(bulkAt, S) \in Nat /\ SumFunctionOnSet(BulkHours, S) \in Nat
      BY <1>1, SumIsNat
    <3> QED BY <2>1, <3>3, <3>4, <3>5
  <2>7. Balanced(bulkAt', BulkHours', now)
    <3> SUFFICES ASSUME NEW b \in HourStarts, b >= now - KeepWindows
                 PROVE  Since(bulkAt', b) = Since(BulkHours', b)
      BY DEF Balanced
    <3>1. a \in From(b) <=> w \in From(b)
      <4>1. a \in Int  BY <2>1 DEF Instants
      <4>2. a >= b <=> w >= b  BY <4>1, HourStart
      <4> QED BY <2>1, <4>2 DEF From
    <3>2. From(b) \in SUBSET Instants  BY DEF From
    <3> HIDE DEF a, n, w
    <3>3. Since(bulkAt', b) = Since(bulkAt, b) + (IF a \in From(b) THEN n ELSE 0)
      BY <2>6, <3>2 DEF Since
    <3>4. Since(BulkHours', b) = Since(BulkHours, b) + (IF w \in From(b) THEN n ELSE 0)
      BY <2>6, <3>2 DEF Since
    <3>5. Since(bulkAt, b) = Since(BulkHours, b)  BY DEF Balanced
    <3> QED BY <3>1, <3>3, <3>4, <3>5
  <2>8. ASSUME PerDay > 0 PROVE InDay(bulkAt')
    <3> SUFFICES ASSUME NEW t \in Instants
                 PROVE  SumFunctionOnSet(bulkAt', {i \in Instants : t - DaySpan < i /\ i <= t}) <= DayShare
      BY DEF InDay
    <3> DEFINE S == {i \in Instants : t - DaySpan < i /\ i <= t}
    <3>1. SumFunctionOnSet(bulkAt, S) <= DayShare  BY <2>8 DEF InDay
    <3>2. S \in SUBSET Instants  OBVIOUS
    <3>3. SumFunctionOnSet(bulkAt', S) = SumFunctionOnSet(bulkAt, S) + (IF a \in S THEN n ELSE 0)
      <4> HIDE DEF S, a, n
      <4> QED BY <2>6, <3>2
    <3>4. SumFunctionOnSet(bulkAt, S) \in Nat
      <4> HIDE DEF S
      <4> QED BY <1>1, <3>2, SumIsNat
    <3>5. CASE a \in S /\ n > 0
      <4>1. n + Since(bulkAt, a - DaySpan + 1) <= DayShare  BY <2>2, <2>8, <3>5 DEF DayFits
      <4>2. S \in SUBSET From(a - DaySpan + 1)
        <5>1. a \in Int /\ t \in Int /\ DaySpan \in Int /\ a <= t
          BY <2>1, <3>5 DEF Instants, BudgetAssumption
        <5> HIDE DEF a
        <5> QED BY <5>1 DEF From, Instants
      <4>3. From(a - DaySpan + 1) \in SUBSET Instants  BY DEF From
      <4> HIDE DEF S, a, n
      <4>4. SumFunctionOnSet(bulkAt, S) <= Since(bulkAt, a - DaySpan + 1)
        BY <1>1, <4>2, <4>3, SumOfPart DEF Since
      <4>5. Since(bulkAt, a - DaySpan + 1) \in Nat  BY <1>1, <4>3, SumIsNat DEF Since
      <4>6. DayShare \in Nat  BY ShareIsPositive DEF BudgetAssumption, DayShare
      <4>7. SumFunctionOnSet(bulkAt', S) = SumFunctionOnSet(bulkAt, S) + n  BY <3>3, <3>5
      <4>8. SumFunctionOnSet(bulkAt', S) <= DayShare
        BY <2>1, <3>4, <4>1, <4>4, <4>5, <4>6, <4>7
      <4> QED BY <4>8 DEF S
    <3>6. CASE ~(a \in S /\ n > 0)
      <4>1. (IF a \in S THEN n ELSE 0) = 0
        <5> HIDE DEF S, a
        <5> QED BY <2>1, <3>6
      <4>2. SumFunctionOnSet(bulkAt', S) = SumFunctionOnSet(bulkAt, S) + 0
        <5> HIDE DEF S, a, n
        <5> QED BY <3>3, <4>1
      <4> HIDE DEF S
      <4>3. SumFunctionOnSet(bulkAt', S) <= DayShare  BY <3>1, <3>4, <4>2
      <4> QED BY <4>3 DEF S
    <3> QED BY <3>5, <3>6
  <2>9. OpenBriefly(now, turn') /\ DayFits(bulkAt', turn')  BY <2>5 DEF OpenBriefly, DayFits, Open
  <2> QED BY <2>2, <2>7, <2>8, <2>9
<1>13. CASE Prune
  <2>1. now' = now /\ turn' = turn /\ bulkAt' = bulkAt  BY <1>13 DEF Prune
  <2>2. BulkHours' = [i \in Instants |-> IF i < now - KeepWindows THEN 0 ELSE BulkHours[i]]
    BY <1>13 DEF Prune, DropBefore, BulkHours, Lanes
  <2>3. ASSUME NEW b \in HourStarts, b >= now - KeepWindows
        PROVE  Since(BulkHours', b) = Since(BulkHours, b)
    <3>1. b \in Int /\ now \in Int /\ KeepWindows \in Int /\ Instants \subseteq Int
      BY <1>1 DEF HourStarts, Instants, BudgetAssumption
    <3>2. \A i \in From(b) : i \in Instants /\ ~(i < now - KeepWindows)  BY <2>3, <3>1 DEF From
    <3>3. \A i \in From(b) : BulkHours'[i] = BulkHours[i] /\ BulkHours[i] \in Nat  BY <1>1, <2>2, <3>2
    <3>4. From(b) \in SUBSET Instants  BY DEF From
    <3>5. IsFiniteSet(From(b))  BY <3>4, InstantsAreFinite
    <3> QED BY <3>3, <3>5, SumOfEqual DEF Since
  <2>4. Balanced(bulkAt, BulkHours', now)  BY <2>3 DEF Balanced
  <2> QED BY <2>1, <2>4
<1>14. CASE Tick
  <2>1. BulkHours' = BulkHours /\ bulkAt' = bulkAt /\ turn' = turn /\ now' = now + 1
    BY <1>14 DEF Tick, BulkHours
  <2>2. Balanced(bulkAt, BulkHours, now + 1)
    <3> SUFFICES ASSUME NEW b \in HourStarts, b >= (now + 1) - KeepWindows
                 PROVE  Since(bulkAt, b) = Since(BulkHours, b)
      BY DEF Balanced
    <3>1. b \in Int /\ now \in Int /\ KeepWindows \in Int
      BY <1>1 DEF HourStarts, Instants, BudgetAssumption
    <3>2. b >= now - KeepWindows  BY <3>1
    <3> QED BY <3>2 DEF Balanced
  <2>3. OpenBriefly(now + 1, turn)
    <3> SUFFICES ASSUME NEW q \in Procs, Open(turn, q) PROVE (now + 1) - turn[q].at <= MaxOpen
      BY DEF OpenBriefly
    <3>1. now - turn[q].at < MaxOpen  BY <1>14 DEF Tick, InTransaction, Open
    <3>2. now \in Int /\ turn[q].at \in Int /\ MaxOpen \in Int  BY <1>1, <1>3 DEF Instants, BudgetAssumption
    <3> QED BY <3>1, <3>2
  <2> QED BY <2>1, <2>2, <2>3
<1> QED BY <1>7, <1>8, <1>9, <1>10, <1>11, <1>12, <1>13, <1>14 DEF Next, TurnStep

\* For every limit, share and span, however many processes take, however long
\* their transactions stay open and whatever is pruned: no 24 hours, wherever
\* they begin, hold more bulk rows than the lane's share of the day (bulkRoom,
\* dayFrom).
THEOREM DayIsHeld == Spec => []DayHeld
<1>1. Init => Safe /\ DayInv  BY SafeInit, DayInit, BudgetAssumption
<1>2. (Safe /\ DayInv) /\ [Next]_vars => (Safe /\ DayInv)'
  BY SafeNext, DayNext, BudgetAssumption
<1>3. DayInv => DayHeld  BY DEF DayInv, InDay, DayHeld, BulkWithin, DayShare
<1> QED BY <1>1, <1>2, <1>3, PTL DEF Spec
=============================================================================
