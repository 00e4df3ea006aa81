-------------------------- MODULE ScheduledJobsProofs --------------------------
(***************************************************************************)
(* What ScheduledJobs keeps for every clock, every number of edits and     *)
(* editors, and every timing that its schema admits, in a zone whose       *)
(* clocks change as Regular says: computeNextRun and computeLatestRun      *)
(* return what they are named for, and the rows of a job are complete up   *)
(* to its next run whichever edits are in flight.                          *)
(***************************************************************************)
EXTENDS ScheduledJobs, WellFoundedInduction, TLAPS

\* Whether a timing has an occurrence at an instant, without a window around it.
Wall(t, d) == FromWallClock(t.zone, d, t.time)

Occurs(t, a) ==
    CASE t.kind = "once" -> a = t.at
      [] t.kind = "interval" -> a >= t.at /\ (a - t.at) % t.every = 0
      [] t.kind = "calendar" -> \E d \in Int : a = Wall(t, d) /\ Falls(t, d % WeekLen)

-----------------------------------------------------------------------------
\* Division.

LEMMA Divides ==
    ASSUME NEW x \in Int, NEW k \in Nat \ {0}
    PROVE  /\ x \div k \in Int /\ x % k \in 0 .. k - 1
           /\ x = k * (x \div k) + (x % k)
<1>1. x \div k \in Int
  OBVIOUS
<1>2. x % k \in 0 .. k - 1
  OBVIOUS
<1>3. x = k * (x \div k) + (x % k)
  OBVIOUS
<1>4. QED
  BY <1>1, <1>2, <1>3

LEMMA SmallMultiple ==
    ASSUME NEW j \in Int, NEW k \in Nat \ {0}, k * j < k, -k < k * j
    PROVE  j = 0
<1>1. CASE j >= 1
  BY <1>1
<1>2. CASE j <= -1
  BY <1>2
<1>3. QED
  BY <1>1, <1>2

LEMMA MultipleLeavesNothing ==
    ASSUME NEW m \in Int, NEW k \in Nat \ {0}
    PROVE  (k * m) % k = 0
<1> DEFINE x == k * m
           q == x \div k
           r == x % k
<1>1. x \in Int /\ k * q \in Int /\ q \in Int /\ r \in 0 .. k - 1 /\ x = k * q + r
  <2>1. x \in Int
    OBVIOUS
  <2> HIDE DEF x
  <2>2. q \in Int /\ r \in 0 .. k - 1 /\ x = k * q + r
    BY <2>1, Divides
  <2>3. k * q \in Int
    BY <2>2
  <2>4. QED
    BY <2>1, <2>2, <2>3
<1> HIDE DEF q, r
<1>2. k * (m - q) = x - k * q
  BY <1>1
<1>3. k * (m - q) = r
  <2> DEFINE p == k * q
  <2>1. p \in Int /\ x = p + r /\ k * (m - q) = x - p
    BY <1>1, <1>2
  <2> HIDE DEF p, x
  <2>2. QED
    BY <1>1, <2>1
<1>4. m - q = 0
  BY <1>1, <1>3, SmallMultiple
<1>5. QED
  BY <1>1, <1>3, <1>4 DEF r

-----------------------------------------------------------------------------
\* computeNextRun and computeLatestRun.

LEMMA OnceNext ==
    ASSUME NEW t, Simple(t), t.kind = "once", NEW after \in Int
    PROVE  /\ NextRun(t, after) = IF t.at > after THEN t.at ELSE Never
           /\ LatestRun(t, after) = IF t.at > after THEN Never ELSE t.at
  BY DEF NextRun, LatestRun

\* The occurrences around an instant that is past the first one.
LEMMA IntervalRuns ==
    ASSUME NEW t, Simple(t), t.kind = "interval", NEW i \in Int, t.at <= i,
           NEW q, q = (i - t.at) \div t.every
    PROVE  /\ q \in Int
           /\ NextRun(t, i) = t.at + (q + 1) * t.every
           /\ LatestRun(t, i) = t.at + q * t.every
           /\ t.at + q * t.every <= i /\ i < t.at + (q + 1) * t.every
           /\ q >= 0
<1> DEFINE k == t.every
           x == i - t.at
<1>1. k \in Nat \ {0} /\ x \in Nat /\ t.at \in Int
  BY DEF Simple
<1>2. q \in Int /\ x = k * q + (x % k) /\ x % k \in 0 .. k - 1
  <2> HIDE DEF x, k
  <2>1. x \in Int /\ x \div k \in Int /\ x % k \in 0 .. k - 1 /\ x = k * (x \div k) + (x % k)
    BY <1>1, Divides
  <2>2. q = x \div k
    BY DEF x, k
  <2>3. QED
    BY <2>1, <2>2
<1>3. /\ NextRun(t, i) = t.at + (q + 1) * t.every
      /\ LatestRun(t, i) = t.at + q * t.every
  BY DEF NextRun, LatestRun, Simple
<1>4. x = i - t.at
  OBVIOUS
<1>5. k = t.every
  OBVIOUS
<1> HIDE DEF x, k
<1> DEFINE p == k * q
           r == x % k
<1>6. p \in Int /\ r \in 0 .. k - 1 /\ x = p + r
  BY <1>1, <1>2
<1>7. q >= 0
  <2>1. CASE q <= -1
    <3>1. p <= -k
      BY <1>1, <1>2, <2>1
    <3> HIDE DEF p, r
    <3>2. QED
      BY <1>1, <1>6, <3>1
  <2>2. QED
    BY <1>2, <2>1
<1>8. p = q * k /\ p + k = (q + 1) * k
  BY <1>1, <1>2
<1> HIDE DEF p, r
<1>9. t.at + p <= i /\ i < t.at + (p + k)
  BY <1>1, <1>4, <1>6
<1>10. QED
  BY <1>2, <1>3, <1>5, <1>7, <1>8, <1>9

\* An occurrence of an interval is a multiple away from the first.
LEMMA IntervalOccurs ==
    ASSUME NEW t, Simple(t), t.kind = "interval"
    PROVE  /\ \A m \in Nat : Occurs(t, t.at + m * t.every)
           /\ \A a \in Int : Occurs(t, a) => \E m \in Nat : a = t.at + m * t.every
<1> DEFINE k == t.every
<1>1. k \in Nat \ {0} /\ t.at \in Int
  BY DEF Simple
<1>2. ASSUME NEW m \in Nat
      PROVE  Occurs(t, t.at + m * t.every)
  <2>1. (k * m) % k = 0 /\ k * m \in Nat /\ k * m = m * k
    BY <1>1, MultipleLeavesNothing
  <2>2. t.at + m * k >= t.at /\ (t.at + m * k) - t.at = k * m
    <3> DEFINE p == k * m
    <3>1. p \in Nat /\ m * k = p
      BY <2>1
    <3> HIDE DEF p, k
    <3>2. t.at + p >= t.at /\ (t.at + p) - t.at = p
      BY <1>1, <3>1
    <3>3. QED
      BY <3>1, <3>2 DEF p
  <2>3. QED
    BY <2>1, <2>2 DEF Occurs
<1>3. ASSUME NEW a \in Int, Occurs(t, a)
      PROVE  \E m \in Nat : a = t.at + m * t.every
  <2> DEFINE x == a - t.at
             q == x \div k
  <2>1. x \in Nat /\ x % k = 0
    BY <1>1, <1>3 DEF Occurs
  <2>2. q \in Int /\ x = k * q
    <3>1. q \in Int /\ x = k * q + (x % k)
      <4> HIDE DEF x, k
      <4>1. QED
        BY <1>1, <2>1, Divides
    <3>2. k * q \in Int
      BY <1>1, <3>1
    <3> HIDE DEF q, x, k
    <3>3. QED
      BY <2>1, <3>1, <3>2
  <2>3. a = t.at + x
    BY <1>1
  <2> HIDE DEF q, x
  <2>4. q \in Nat
    <3>1. CASE q <= -1
      <4>1. k * q <= -k
        BY <1>1, <2>2, <3>1
      <4>2. QED
        BY <1>1, <2>1, <2>2, <4>1
    <3>2. QED
      BY <2>2, <3>1
  <2>5. k * q = q * k
    BY <1>1, <2>2
  <2>6. QED
    BY <2>2, <2>3, <2>4, <2>5
<1>4. QED
  BY <1>2, <1>3

LEMMA Multiples ==
    ASSUME NEW m \in Int, NEW q \in Int, NEW k \in Nat \ {0}, NEW b \in Int
    PROVE  /\ m <= q => b + m * k <= b + q * k
           /\ m > q => b + m * k >= b + (q + 1) * k
<1>1. m * k \in Int /\ q * k \in Int /\ (q + 1) * k \in Int
  OBVIOUS
<1>2. m <= q => m * k <= q * k
  OBVIOUS
<1>3. m >= q + 1 => m * k >= (q + 1) * k
  OBVIOUS
<1>4. QED
  BY <1>1, <1>2, <1>3

\* computeNextRun: the first occurrence after an instant, if there is one.
LEMMA SimpleNext ==
    ASSUME NEW t, Simple(t), NEW i \in Int
    PROVE  /\ NextRun(t, i) = Never => \A a \in Int : Occurs(t, a) => a <= i
           /\ NextRun(t, i) # Never =>
                  /\ NextRun(t, i) \in Int /\ i < NextRun(t, i)
                  /\ Occurs(t, NextRun(t, i))
                  /\ \A a \in Int : Occurs(t, a) /\ i < a => NextRun(t, i) <= a
           /\ NextRun(t, i) \in Int \union {Never}
<1>1. t.at \in Int /\ Never \notin Int
  BY TimingAssumption DEF Simple
<1>2. CASE t.kind = "once"
  BY <1>1, <1>2, OnceNext DEF Occurs
<1>3. CASE t.kind = "interval" /\ i < t.at
  <2>1. NextRun(t, i) = t.at
    BY <1>1, <1>3 DEF NextRun
  <2>2. 0 \in Nat /\ t.every \in Nat /\ t.at + 0 * t.every = t.at
    BY <1>1, <1>3 DEF Simple
  <2>3. Occurs(t, t.at)
    BY <1>3, <2>2, IntervalOccurs
  <2>4. \A a \in Int : Occurs(t, a) => t.at <= a
    BY <1>1, <1>3 DEF Occurs
  <2>5. QED
    BY <1>1, <1>3, <2>1, <2>3, <2>4
<1>4. CASE t.kind = "interval" /\ t.at <= i
  <2> DEFINE q == (i - t.at) \div t.every
             next == t.at + (q + 1) * t.every
  <2>1. /\ q \in Int /\ q >= 0 /\ NextRun(t, i) = next
        /\ t.at + q * t.every <= i /\ i < next
    BY <1>4, IntervalRuns
  <2>2. t.every \in Nat \ {0}
    BY <1>4 DEF Simple
  <2> HIDE DEF q
  <2>3. next \in Int /\ q + 1 \in Nat
    BY <1>1, <2>1, <2>2
  <2>4. Occurs(t, next)
    BY <1>4, <2>3, IntervalOccurs
  <2>5. ASSUME NEW a \in Int, Occurs(t, a), i < a
        PROVE  next <= a
    <3>1. PICK m \in Nat : a = t.at + m * t.every
      BY <1>4, <2>5, IntervalOccurs
    <3>2. /\ m <= q => t.at + m * t.every <= t.at + q * t.every
          /\ m > q => t.at + m * t.every >= next
      BY <1>1, <2>1, <2>2, Multiples
    <3>3. t.at + q * t.every \in Int
      BY <1>1, <2>1, <2>2
    <3> HIDE DEF next
    <3>4. CASE m <= q
      BY <2>1, <2>5, <3>1, <3>2, <3>3, <3>4
    <3>5. CASE m > q
      BY <3>1, <3>2, <3>5
    <3>6. QED
      BY <2>1, <3>4, <3>5
  <2> HIDE DEF next
  <2>6. QED
    BY <1>1, <2>1, <2>3, <2>4, <2>5
<1>5. QED
  BY <1>1, <1>2, <1>3, <1>4 DEF Simple

\* computeLatestRun: the last occurrence up to an instant, if there is one.
LEMMA SimpleLatest ==
    ASSUME NEW t, Simple(t), NEW i \in Int
    PROVE  /\ LatestRun(t, i) = Never => \A a \in Int : Occurs(t, a) => i < a
           /\ LatestRun(t, i) # Never =>
                  /\ LatestRun(t, i) \in Int /\ LatestRun(t, i) <= i
                  /\ Occurs(t, LatestRun(t, i))
                  /\ \A a \in Int : Occurs(t, a) /\ a <= i => a <= LatestRun(t, i)
<1>1. t.at \in Int /\ Never \notin Int
  BY TimingAssumption DEF Simple
<1>2. CASE t.kind = "once"
  BY <1>1, <1>2, OnceNext DEF Occurs
<1>3. CASE t.kind = "interval" /\ i < t.at
  <2>1. LatestRun(t, i) = Never
    BY <1>1, <1>3 DEF LatestRun
  <2>2. \A a \in Int : Occurs(t, a) => t.at <= a
    BY <1>1, <1>3 DEF Occurs
  <2>3. QED
    BY <1>1, <1>3, <2>1, <2>2
<1>4. CASE t.kind = "interval" /\ t.at <= i
  <2> DEFINE q == (i - t.at) \div t.every
             latest == t.at + q * t.every
             next == t.at + (q + 1) * t.every
  <2>1. /\ q \in Int /\ q >= 0 /\ LatestRun(t, i) = latest
        /\ latest <= i /\ i < next
    BY <1>4, IntervalRuns
  <2>2. t.every \in Nat \ {0}
    BY <1>4 DEF Simple
  <2> HIDE DEF q
  <2>3. latest \in Int /\ next \in Int /\ q \in Nat
    BY <1>1, <2>1, <2>2
  <2>4. Occurs(t, latest)
    BY <1>4, <2>3, IntervalOccurs
  <2>5. ASSUME NEW a \in Int, Occurs(t, a), a <= i
        PROVE  a <= latest
    <3>1. PICK m \in Nat : a = t.at + m * t.every
      BY <1>4, <2>5, IntervalOccurs
    <3>2. /\ m <= q => t.at + m * t.every <= latest
          /\ m > q => t.at + m * t.every >= next
      BY <1>1, <2>1, <2>2, Multiples
    <3> HIDE DEF next, latest
    <3>3. CASE m <= q
      BY <3>1, <3>2, <3>3
    <3>4. CASE m > q
      BY <2>1, <2>3, <2>5, <3>1, <3>2, <3>4
    <3>5. QED
      BY <2>1, <3>3, <3>4
  <2> HIDE DEF next, latest
  <2>6. QED
    BY <1>1, <2>1, <2>3, <2>4, <2>5
<1>5. QED
  BY <1>1, <1>2, <1>3, <1>4 DEF Simple

-----------------------------------------------------------------------------
\* Calendars.

LEMMA Least ==
    ASSUME NEW S \in SUBSET Nat, S # {}
    PROVE  \E x \in S : \A y \in S : x <= y
<1> DEFINE R == OpToRel(<, Nat)
<1>1. IsWellFoundedOn(R, Nat)
  BY NatLessThanWellFounded, Zenon
<1>2. \A x, y \in Nat : <<x, y>> \in R <=> x < y
  BY DEF OpToRel
<1> HIDE DEF R
<1>3. PICK x \in S : \A y \in S : ~ (<<y, x>> \in R)
  BY <1>1, WFMin
<1>4. ASSUME NEW y \in S PROVE x <= y
  <2>1. x \in Nat /\ y \in Nat /\ ~(y < x)
    BY <1>2, <1>3
  <2>2. QED
    BY <2>1
<1>5. QED
  BY <1>4

LEMMA LeastAbove ==
    ASSUME NEW S \in SUBSET Int, S # {}, NEW b \in Int, \A s \in S : b <= s
    PROVE  \E x \in S : \A y \in S : x <= y
<1> DEFINE T == {s - b : s \in S}
<1>1. T \in SUBSET Nat /\ T # {}
  <2>1. ASSUME NEW s \in S PROVE s - b \in Nat
    BY <2>1
  <2>2. QED
    BY <2>1
<1>2. PICK x \in T : \A y \in T : x <= y
  <2> HIDE DEF T
  <2>1. QED
    BY <1>1, Least
<1>3. PICK s \in S : x = s - b
  BY <1>2
<1>4. ASSUME NEW y \in S PROVE s <= y
  <2>1. s - b <= y - b
    BY <1>2, <1>3
  <2>2. QED
    BY <2>1
<1>5. QED
  BY <1>4

LEMMA GreatestBelow ==
    ASSUME NEW S \in SUBSET Int, S # {}, NEW b \in Int, \A s \in S : s <= b
    PROVE  \E x \in S : \A y \in S : x >= y
<1> DEFINE T == {b - s : s \in S}
<1>1. T \in SUBSET Nat /\ T # {}
  <2>1. ASSUME NEW s \in S PROVE b - s \in Nat
    BY <2>1
  <2>2. QED
    BY <2>1
<1>2. PICK x \in T : \A y \in T : x <= y
  <2> HIDE DEF T
  <2>1. QED
    BY <1>1, Least
<1>3. PICK s \in S : x = b - s
  BY <1>2
<1>4. ASSUME NEW y \in S PROVE s >= y
  <2>1. b - s <= b - y
    BY <1>2, <1>3
  <2>2. QED
    BY <2>1
<1>5. QED
  BY <1>4

\* Numbers less than k apart with the same remainder are one, and every remainder comes up.
LEMMA DivisionIsUnique ==
    ASSUME NEW k \in Nat \ {0}, NEW d \in Int, NEW r \in 0 .. k - 1
    PROVE  (d * k + r) \div k = d /\ (d * k + r) % k = r
<1> DEFINE x == d * k + r
           e == x \div k
           f == x % k
<1>1. x \in Int /\ d * k \in Int
  OBVIOUS
<1>2. e \in Int /\ f \in 0 .. k - 1 /\ x = k * e + f
  <2> HIDE DEF x
  <2>1. QED
    BY <1>1, Divides
<1>3. x = d * k + r
  OBVIOUS
<1> HIDE DEF x, e, f
<1>4. k * (d - e) = f - r
  <2> DEFINE p == k * e
             u == d * k
  <2>1. p \in Int /\ u \in Int /\ k * (d - e) = u - p
    BY <1>2
  <2>2. x = p + f /\ x = u + r
    BY <1>2, <1>3
  <2> HIDE DEF p, u
  <2>3. QED
    BY <1>1, <1>2, <2>1, <2>2
<1>5. d - e = 0
  <2>1. f - r < k /\ -k < f - r
    BY <1>2
  <2>2. QED
    BY <1>2, <1>4, <2>1, SmallMultiple
<1>6. d = e /\ f = r
  BY <1>2, <1>4, <1>5
<1>7. QED
  BY <1>6 DEF e, f, x

LEMMA RemainderComes ==
    ASSUME NEW k \in Nat \ {0}, NEW v \in 0 .. k - 1, NEW b \in Int
    PROVE  \E d \in b .. b + (k - 1) : d % k = v
<1> DEFINE c == v - b
           e == c \div k
           f == c % k
<1>1. c \in Int /\ e \in Int /\ f \in 0 .. k - 1 /\ c = k * e + f
  <2>1. c \in Int
    OBVIOUS
  <2> HIDE DEF c
  <2>2. QED
    BY <2>1, Divides
<1>2. c = v - b
  OBVIOUS
<1> HIDE DEF c, e, f
<1>3. b + f \in b .. b + (k - 1)
  BY <1>1
<1> DEFINE g == -e
<1>4. g \in Int /\ b + f = g * k + v
  <2> DEFINE p == k * e
  <2>1. p \in Int /\ g \in Int /\ g * k = -p
    BY <1>1
  <2>2. c = p + f
    BY <1>1
  <2> HIDE DEF p, g
  <2>3. QED
    BY <1>1, <1>2, <2>1, <2>2
<1> HIDE DEF g
<1>5. (b + f) % k = v
  BY <1>4, DivisionIsUnique
<1>6. QED
  BY <1>3, <1>5

LEMMA SameRemainder ==
    ASSUME NEW k \in Nat \ {0}, NEW u \in Int, NEW v \in Int, u % k = v % k,
           u - v < k, -k < u - v
    PROVE  u = v
<1> DEFINE p == u \div k
           q == v \div k
           r == u % k
<1>1. p \in Int /\ q \in Int /\ r \in 0 .. k - 1 /\ u = k * p + r /\ v = k * q + r
  BY Divides
<1> HIDE DEF p, q, r
<1> DEFINE x == k * p
           y == k * q
<1>2. x \in Int /\ y \in Int /\ u = x + r /\ v = y + r /\ k * (p - q) = x - y
  BY <1>1
<1> HIDE DEF x, y
<1>3. k * (p - q) = u - v
  BY <1>1, <1>2
<1>4. p - q = 0
  BY <1>1, <1>3, SmallMultiple
<1>5. QED
  BY <1>1, <1>3, <1>4

LEMMA DivisionInOrder ==
    ASSUME NEW k \in Nat \ {0}, NEW u \in Int, NEW v \in Int, u <= v
    PROVE  u \div k \in Int /\ v \div k \in Int /\ u \div k <= v \div k
<1> DEFINE p == u \div k
           q == v \div k
           r == u % k
           f == v % k
<1>1. /\ p \in Int /\ q \in Int /\ r \in 0 .. k - 1 /\ f \in 0 .. k - 1
      /\ u = k * p + r /\ v = k * q + f
  BY Divides
<1> HIDE DEF p, q, r, f
<1>2. CASE p >= q + 1
  <2> DEFINE x == k * p
             y == k * q
  <2>1. k * (q + 1) = y + k /\ x \in Int /\ y \in Int
    BY <1>1
  <2>2. x >= k * (q + 1)
    BY <1>1, <1>2
  <2>3. u = x + r /\ v = y + f
    BY <1>1
  <2> HIDE DEF x, y
  <2>4. FALSE
    BY <1>1, <2>1, <2>2, <2>3
  <2>5. QED
    BY <2>4
<1>3. p \in Int /\ q \in Int /\ p <= q
  BY <1>1, <1>2
<1>4. QED
  BY <1>3 DEF p, q

\* What a clock shows, and when.
LEMMA ClockShows ==
    ASSUME NEW t, Calendar(t), Regular(t)
    PROVE  /\ \A a \in Int :
                  /\ Local(t.zone, a) \in Int
                  /\ DateOf(t.zone, a) \in Int
           /\ \A u \in Int, v \in Int : DateOf(t.zone, u) < DateOf(t.zone, v) => u < v
<1> DEFINE z == t.zone
           k == DayLen
<1>1. /\ z.before \in Int /\ z.after \in Int /\ z.change \in Int /\ k \in Nat \ {0}
      /\ z.after < z.before =>
             (z.change + z.after) \div k = (z.change + z.before - 1) \div k
  BY TimingAssumption DEF Regular
<1>2. ASSUME NEW a \in Int
      PROVE  /\ Local(z, a) = IF a < z.change THEN a + z.before ELSE a + z.after
             /\ Local(z, a) \in Int /\ DateOf(z, a) \in Int
             /\ DateOf(z, a) = Local(z, a) \div k
  <2>1. Local(z, a) = IF a < z.change THEN a + z.before ELSE a + z.after
    BY DEF Local, Offset
  <2>2. Local(z, a) \in Int
    BY <1>1, <2>1
  <2>3. Local(z, a) \div k \in Int
    BY <1>1, <2>2, Divides
  <2>4. QED
    BY <2>1, <2>2, <2>3 DEF DateOf
<1>3. ASSUME NEW u \in Int, NEW v \in Int, DateOf(z, u) < DateOf(z, v) PROVE u < v
  <2> SUFFICES ASSUME v <= u PROVE FALSE
    BY <1>3
  <2> DEFINE x == z.change
             b == z.before
             c == z.after
             lu == Local(z, u)
             lv == Local(z, v)
  <2>1. lu \in Int /\ lv \in Int /\ lu \div k \in Int /\ lv \div k \in Int
        /\ lu \div k < lv \div k
    BY <1>2, <1>3
  <2>2. /\ lu = IF u < x THEN u + b ELSE u + c
        /\ lv = IF v < x THEN v + b ELSE v + c
    BY <1>2
  <2>3. x \in Int /\ b \in Int /\ c \in Int
    BY <1>1
  <2>4. lu < lv
    <3> HIDE DEF lu, lv, k
    <3>1. lv <= lu => lv \div k <= lu \div k
      BY <1>1, <2>1, DivisionInOrder
    <3>2. QED
      BY <2>1, <3>1
  <2>5. c < b => (x + c) \div k = (x + b - 1) \div k
    BY <1>1
  <2> HIDE DEF x, b, c, lu, lv, k
  <2>6. v < x /\ x <= u /\ c < b
    BY <2>2, <2>3, <2>4
  <2>7. x + c <= lu /\ lv <= x + b - 1
    BY <2>2, <2>3, <2>6
  <2>8. x + c \in Int /\ x + b - 1 \in Int
    BY <2>3
  <2>9. (x + c) \div k <= lu \div k /\ lv \div k <= (x + b - 1) \div k
    BY <1>1, <2>1, <2>7, <2>8, DivisionInOrder
  <2>10. (x + c) \div k \in Int
    BY <1>1, <2>8, Divides
  <2>11. QED
    BY <2>1, <2>5, <2>6, <2>9, <2>10
<1>4. QED
  BY <1>2, <1>3

\* fromZonedLocal: two passes find a time that is shown, if it is ever.
Pass(z, l) == l - Offset(z, l - Offset(z, l))

LEMMA PassShows ==
    ASSUME NEW z, z.before \in Int, z.after \in Int, z.change \in Int, NEW l \in Int
    PROVE  /\ Pass(z, l) \in {l - z.before, l - z.after} /\ Pass(z, l) \in Int
           /\ l - z.before < z.change \/ z.change <= l - z.after
                  => Local(z, Pass(z, l)) = l
           /\ z.change <= l - z.before /\ l - z.after < z.change
                  => Local(z, Pass(z, l)) \in {l + (z.after - z.before), l - (z.after - z.before)}
<1> DEFINE x == z.change
           b == z.before
           c == z.after
           p == Pass(z, l)
<1>1. \A i \in Int : Offset(z, i) = IF i < x THEN b ELSE c
  BY DEF Offset
<1>2. b \in Int /\ c \in Int /\ x \in Int
  OBVIOUS
<1>3. p = l - (IF l - (IF l < x THEN b ELSE c) < x THEN b ELSE c)
  BY <1>1, <1>2 DEF Pass
<1> HIDE DEF b, c, x, p
<1>4. p \in {l - b, l - c} /\ p \in Int
  BY <1>2, <1>3
<1>5. Local(z, p) = IF p < x THEN p + b ELSE p + c
  BY <1>1, <1>4 DEF Local
<1>6. ASSUME l - b < x \/ x <= l - c PROVE Local(z, p) = l
  BY <1>2, <1>3, <1>5, <1>6
<1>7. ASSUME x <= l - b, l - c < x PROVE Local(z, p) \in {l + (c - b), l - (c - b)}
  BY <1>2, <1>3, <1>5, <1>7
<1>8. QED
  BY <1>4, <1>6, <1>7 DEF p, b, c, x

\* The instant that the code takes for a date is of that date, and one the reference names.
LEMMA WallClock ==
    ASSUME NEW t, Calendar(t), Regular(t), NEW d \in Int
    PROVE  /\ Wall(t, d) \in Int /\ DateOf(t.zone, Wall(t, d)) = d
           /\ Wall(t, d) \in Instants(t, d)
           /\ \A a \in Instants(t, d) : a \in Int /\ DateOf(t.zone, a) = d
<1> DEFINE z == t.zone
           k == DayLen
           h == HourLen
           r == t.time
           x == z.change
           b == z.before
           c == z.after
           l == d * k + r
           w == Wall(t, d)
           Showing(m) == {at \in {m - b, m - c} : Local(z, at) = m}
<1>1. /\ b \in Int /\ c \in Int /\ x \in Int /\ k \in Nat \ {0} /\ h \in Nat \ {0}
      /\ r \in 0 .. k - 1 /\ h < k /\ c <= b + h
      /\ \A m \in x + b .. x + c - 1 : m % k = r => r + h < k
  BY TimingAssumption DEF Calendar, Regular
<1>2. l \in Int /\ l \div k = d /\ l % k = r
  <2>1. k \in Nat \ {0} /\ r \in 0 .. k - 1
    BY <1>1
  <2> HIDE DEF k, r
  <2>2. d * k + r \in Int
    BY <2>1
  <2>3. QED
    BY <2>1, <2>2, DivisionIsUnique
<1>3. w = IF TimeOf(z, Pass(z, l)) = r THEN Pass(z, l) ELSE Pass(z, l + h)
  BY DEF Wall, FromWallClock, Pass
<1>4. Instants(t, d) = IF Showing(l) # {} THEN Showing(l) ELSE Showing(l + h)
  BY DEF Instants
<1>5. \A m \in Int :
          /\ Pass(z, m) \in {m - b, m - c} /\ Pass(z, m) \in Int
          /\ m - b < x \/ x <= m - c => Local(z, Pass(z, m)) = m
          /\ x <= m - b /\ m - c < x => Local(z, Pass(z, m)) \in {m + (c - b), m - (c - b)}
  BY <1>1, PassShows
<1>6. \A i \in Int : Local(z, i) = IF i < x THEN i + b ELSE i + c
  BY DEF Local, Offset
<1> HIDE DEF x, b, c, h, w, z
<1>7. CASE l - b < x \/ x <= l - c
  <2>1. Pass(z, l) \in Int /\ Pass(z, l) \in {l - b, l - c} /\ Local(z, Pass(z, l)) = l
    BY <1>2, <1>5, <1>7
  <2>2. w = Pass(z, l)
    BY <1>2, <1>3, <2>1 DEF TimeOf
  <2>3. Instants(t, d) = Showing(l) /\ w \in Showing(l)
    BY <1>4, <2>1, <2>2
  <2> HIDE DEF l
  <2>4. \A a \in Showing(l) : a \in Int /\ DateOf(z, a) = d
    BY <1>1, <1>2 DEF DateOf
  <2>5. QED
    BY <2>1, <2>2, <2>3, <2>4 DEF w, z
<1>8. CASE x <= l - b /\ l - c < x
  <2> DEFINE g == c - b
             m == l + h
  <2>1. g \in Int /\ g > 0 /\ g <= h
    BY <1>1, <1>2, <1>8
  <2>2. r + h < k /\ r + h \in 0 .. k - 1
    <3>1. l \in x + b .. x + c - 1
      <4>1. l \in Int /\ x \in Int /\ b \in Int /\ c \in Int
        BY <1>1, <1>2
      <4> HIDE DEF l
      <4>2. QED
        BY <1>8, <4>1
    <3> HIDE DEF l, k, r
    <3>2. r + h < k
      BY <1>1, <1>2, <3>1
    <3>3. r \in 0 .. k - 1 /\ h \in Nat /\ k \in Nat
      BY <1>1
    <3>4. QED
      BY <3>2, <3>3
  <2>3. m \in Int /\ m \div k = d
    <3> DEFINE s == r + h
    <3>1. d * k \in Int /\ s \in 0 .. k - 1 /\ m = d * k + s
      BY <1>1, <2>2
    <3> HIDE DEF s, m
    <3>2. m \div k = d
      BY <1>1, <3>1, DivisionIsUnique
    <3>3. QED
      BY <1>1, <3>1, <3>2
  <2>4. Local(z, Pass(z, l)) \in {l + g, l - g}
    BY <1>2, <1>5, <1>8
  <2> HIDE DEF l
  <2>5. TimeOf(z, Pass(z, l)) # r
    <3> DEFINE u == Local(z, Pass(z, l))
    <3>1. u \in Int /\ u # l /\ u - l < k /\ -k < u - l
      <4> HIDE DEF g, u
      <4>1. u \in {l + g, l - g}
        BY <2>4 DEF u
      <4>2. QED
        BY <1>1, <1>2, <2>1, <4>1
    <3>2. u % k # l % k
      <4> HIDE DEF u
      <4>1. QED
        BY <1>1, <1>2, <3>1, SameRemainder
    <3>3. QED
      BY <1>2, <3>2 DEF TimeOf
  <2>6. w = Pass(z, m)
    BY <1>3, <2>5
  <2>7. x <= m - c /\ m = l + h
    BY <1>1, <1>2, <1>8
  <2> HIDE DEF m
  <2>8. Pass(z, m) \in Int /\ Pass(z, m) \in {m - b, m - c} /\ Local(z, Pass(z, m)) = m
    BY <1>5, <2>3, <2>7
  <2>9. Showing(l) = {}
    <3>1. Local(z, l - b) = l - b + c /\ Local(z, l - c) = l - c + b
      BY <1>1, <1>2, <1>6, <1>8
    <3>2. Local(z, l - b) # l /\ Local(z, l - c) # l
      BY <1>1, <1>2, <2>1, <3>1
    <3>3. QED
      BY <3>2
  <2>10. Instants(t, d) = Showing(m) /\ w \in Showing(m)
    BY <1>4, <2>6, <2>7, <2>8, <2>9
  <2>11. \A a \in Showing(m) : a \in Int /\ DateOf(z, a) = d
    BY <1>1, <2>3 DEF DateOf
  <2>12. QED
    BY <2>6, <2>8, <2>10, <2>11 DEF w, z
<1>9. QED
  <2>1. (l - b < x \/ x <= l - c) \/ (x <= l - b /\ l - c < x)
    <3> HIDE DEF l
    <3>1. QED
      BY <1>1, <1>2
  <2>2. QED
    BY <1>7, <1>8, <2>1

LEMMA CalendarDates ==
    ASSUME NEW t, Calendar(t), Regular(t)
    PROVE  /\ \A d \in Int :
                  /\ Wall(t, d) \in Int /\ DateOf(t.zone, Wall(t, d)) = d
                  /\ WeekdayOf(t.zone, Wall(t, d)) = d % WeekLen
                  /\ Falls(t, d % WeekLen) => Occurs(t, Wall(t, d))
           /\ \A d \in Int, a \in Int :
                  /\ DateOf(t.zone, a) \in Int
                  /\ d > DateOf(t.zone, a) => a < Wall(t, d)
                  /\ d < DateOf(t.zone, a) => Wall(t, d) < a
           /\ \A a \in Int :
                  Occurs(t, a) => /\ a = Wall(t, DateOf(t.zone, a))
                                  /\ Falls(t, DateOf(t.zone, a) % WeekLen)
           /\ \A b \in Int : \E d \in b .. b + (WeekLen - 1) : Falls(t, d % WeekLen)
<1>1. WeekLen \in Nat \ {0} /\ t.kind = "calendar"
  BY TimingAssumption DEF Calendar
<1>2. ASSUME NEW d \in Int
      PROVE  /\ Wall(t, d) \in Int /\ DateOf(t.zone, Wall(t, d)) = d
             /\ WeekdayOf(t.zone, Wall(t, d)) = d % WeekLen
             /\ Falls(t, d % WeekLen) => Occurs(t, Wall(t, d))
  <2>1. Wall(t, d) \in Int /\ DateOf(t.zone, Wall(t, d)) = d
    BY WallClock
  <2>2. Falls(t, d % WeekLen) => Occurs(t, Wall(t, d))
    BY <1>1 DEF Occurs
  <2>3. QED
    BY <2>1, <2>2 DEF WeekdayOf
<1>3. ASSUME NEW d \in Int, NEW a \in Int
      PROVE  /\ DateOf(t.zone, a) \in Int
             /\ d > DateOf(t.zone, a) => a < Wall(t, d)
             /\ d < DateOf(t.zone, a) => Wall(t, d) < a
  <2>1. DateOf(t.zone, a) \in Int
    BY ClockShows
  <2>2. Wall(t, d) \in Int /\ DateOf(t.zone, Wall(t, d)) = d
    BY <1>2
  <2>3. d > DateOf(t.zone, a) => DateOf(t.zone, a) < DateOf(t.zone, Wall(t, d))
    BY <2>1, <2>2
  <2>4. QED
    BY <2>1, <2>2, <2>3, ClockShows
<1>4. ASSUME NEW a \in Int, Occurs(t, a)
      PROVE  a = Wall(t, DateOf(t.zone, a)) /\ Falls(t, DateOf(t.zone, a) % WeekLen)
  <2>1. PICK d \in Int : a = Wall(t, d) /\ Falls(t, d % WeekLen)
    BY <1>1, <1>4 DEF Occurs
  <2>2. DateOf(t.zone, a) = d
    BY <1>2, <2>1
  <2>3. QED
    BY <2>1, <2>2
<1>5. ASSUME NEW b \in Int
      PROVE  \E d \in b .. b + (WeekLen - 1) : Falls(t, d % WeekLen)
  <2>1. PICK v \in 0 .. WeekLen - 1 : Falls(t, v)
    BY <1>1 DEF Calendar, Falls
  <2>2. PICK d \in b .. b + (WeekLen - 1) : d % WeekLen = v
    BY <1>1, RemainderComes
  <2>3. QED
    BY <2>1, <2>2
<1>6. QED
  BY <1>2, <1>3, <1>4, <1>5

\* Two weeks of dates are enough, and the one found is at most a week ahead.
LEMMA CalendarNext ==
    ASSUME NEW t, Calendar(t), Regular(t), NEW i \in Int
    PROVE  LET next == NextRun(t, i)  today == DateOf(t.zone, i) IN
           /\ next \in Int /\ i < next /\ Occurs(t, next)
           /\ \A a \in Int : Occurs(t, a) /\ i < a => next <= a
           /\ DateOf(t.zone, next) \in today .. today + WeekLen
<1> DEFINE next == NextRun(t, i)
           today == DateOf(t.zone, i)
           window == today .. today + 2 * WeekLen
           S == {at \in Fitting(t, window) : at > i}
<1>1. WeekLen \in Nat \ {0} /\ today \in Int
  BY CalendarDates, TimingAssumption
<1>2. next = Earliest(S)
  BY DEF NextRun, NextDate, Calendar
<1> HIDE DEF today
<1>3. ASSUME NEW a \in S
      PROVE  a \in Int /\ i < a /\ Occurs(t, a) /\ DateOf(t.zone, a) \in window
  <2>1. PICK d \in window : a = Wall(t, d)
    BY DEF Fitting, Wall
  <2>2. Falls(t, WeekdayOf(t.zone, a)) /\ a > i
    BY DEF Fitting
  <2>3. d \in Int
    BY <1>1
  <2> HIDE DEF window, S
  <2>4. QED
    BY <2>1, <2>2, <2>3, CalendarDates
<1>4. ASSUME NEW d \in window, Falls(t, d % WeekLen), i < Wall(t, d)
      PROVE  Wall(t, d) \in S
  <2>1. d \in Int /\ d \in window
    BY <1>1
  <2>2. Falls(t, WeekdayOf(t.zone, Wall(t, d))) /\ Wall(t, d) > i
    BY <1>4, <2>1, CalendarDates
  <2>3. Wall(t, d) \in {FromWallClock(t.zone, date, t.time) : date \in window}
    BY <2>1 DEF Wall
  <2> HIDE DEF window
  <2>4. QED
    BY <2>2, <2>3 DEF Fitting
<1>5. PICK d0 \in today + 1 .. today + WeekLen : Falls(t, d0 % WeekLen)
  <2>1. today + 1 \in Int /\ (today + 1) + (WeekLen - 1) = today + WeekLen
    BY <1>1
  <2>2. QED
    BY <2>1, CalendarDates
<1>6. d0 \in Int /\ d0 \in window /\ today < d0 /\ d0 <= today + WeekLen
  BY <1>1, <1>5
<1>7. Wall(t, d0) \in S /\ Wall(t, d0) \in Int
  BY <1>4, <1>5, <1>6, CalendarDates DEF today
<1>8. next \in S /\ \A other \in S : next <= other
  <2>1. S \in SUBSET Int /\ S # {} /\ \A s \in S : i <= s
    BY <1>3, <1>7
  <2> HIDE DEF S
  <2>2. \E x \in S : \A y \in S : x <= y
    BY <2>1, LeastAbove
  <2>3. next = CHOOSE at \in S : \A other \in S : at <= other
    BY <1>2, <2>1 DEF Earliest
  <2>4. QED
    BY <2>2, <2>3
<1> HIDE DEF next, S
<1>9. ASSUME NEW a \in Int, Occurs(t, a), i < a PROVE next <= a
  <2> DEFINE d == DateOf(t.zone, a)
  <2>1. d \in Int /\ a = Wall(t, d) /\ Falls(t, d % WeekLen)
    BY <1>9, CalendarDates
  <2>2. d0 < d => Wall(t, d0) < a
    BY <1>6, CalendarDates
  <2> HIDE DEF d
  <2>3. today <= d
    <3>1. d < today => Wall(t, d) < i
      BY <2>1, CalendarDates DEF today
    <3>2. QED
      BY <1>1, <1>9, <2>1, <3>1
  <2>4. CASE d0 < d
    BY <1>3, <1>7, <1>8, <2>2, <2>4
  <2>5. CASE d <= d0
    <3>1. d \in window
      BY <1>1, <1>6, <2>1, <2>3, <2>5
    <3> HIDE DEF window
    <3>2. a \in S
      BY <1>4, <1>9, <2>1, <3>1
    <3>3. QED
      BY <1>8, <3>2
  <2>6. QED
    BY <1>6, <2>1, <2>4, <2>5
<1>10. DateOf(t.zone, next) \in today .. today + WeekLen
  <2>1. next \in Int /\ DateOf(t.zone, next) \in window /\ next <= Wall(t, d0)
    BY <1>3, <1>7, <1>8
  <2>2. d0 < DateOf(t.zone, next) => Wall(t, d0) < next
    BY <1>6, <2>1, CalendarDates
  <2>3. QED
    BY <1>1, <1>6, <1>7, <2>1, <2>2
<1>11. next \in Int /\ i < next /\ Occurs(t, next)
  BY <1>3, <1>8
<1>12. QED
  BY <1>9, <1>10, <1>11 DEF next, today

LEMMA CalendarLatest ==
    ASSUME NEW t, Calendar(t), Regular(t), NEW i \in Int
    PROVE  LET latest == LatestRun(t, i)  today == DateOf(t.zone, i) IN
           /\ latest \in Int /\ latest <= i /\ Occurs(t, latest)
           /\ \A a \in Int : Occurs(t, a) /\ a <= i => a <= latest
           /\ DateOf(t.zone, latest) \in today - WeekLen .. today
<1> DEFINE latest == LatestRun(t, i)
           today == DateOf(t.zone, i)
           window == today - 2 * WeekLen .. today
           S == {at \in Fitting(t, window) : at <= i}
<1>1. WeekLen \in Nat \ {0} /\ today \in Int
  BY CalendarDates, TimingAssumption
<1>2. latest = Last(S)
  BY DEF LatestRun, LatestDate, Calendar
<1> HIDE DEF today
<1>3. ASSUME NEW a \in S
      PROVE  a \in Int /\ a <= i /\ Occurs(t, a) /\ DateOf(t.zone, a) \in window
  <2>1. PICK d \in window : a = Wall(t, d)
    BY DEF Fitting, Wall
  <2>2. Falls(t, WeekdayOf(t.zone, a)) /\ a <= i
    BY DEF Fitting
  <2>3. d \in Int
    BY <1>1
  <2> HIDE DEF window, S
  <2>4. QED
    BY <2>1, <2>2, <2>3, CalendarDates
<1>4. ASSUME NEW d \in window, Falls(t, d % WeekLen), Wall(t, d) <= i
      PROVE  Wall(t, d) \in S
  <2>1. d \in Int /\ d \in window
    BY <1>1
  <2>2. Falls(t, WeekdayOf(t.zone, Wall(t, d))) /\ Wall(t, d) <= i
    BY <1>4, <2>1, CalendarDates
  <2>3. Wall(t, d) \in {FromWallClock(t.zone, date, t.time) : date \in window}
    BY <2>1 DEF Wall
  <2> HIDE DEF window
  <2>4. QED
    BY <2>2, <2>3 DEF Fitting
<1>5. PICK d0 \in today - WeekLen .. today - 1 : Falls(t, d0 % WeekLen)
  <2>1. today - WeekLen \in Int /\ (today - WeekLen) + (WeekLen - 1) = today - 1
    BY <1>1
  <2>2. QED
    BY <2>1, CalendarDates
<1>6. d0 \in Int /\ d0 \in window /\ d0 < today /\ today - WeekLen <= d0
  BY <1>1, <1>5
<1>7. Wall(t, d0) \in S /\ Wall(t, d0) \in Int
  <2>1. Wall(t, d0) \in Int /\ Wall(t, d0) < i
    BY <1>6, CalendarDates DEF today
  <2> HIDE DEF window, S
  <2>2. QED
    BY <1>4, <1>5, <1>6, <2>1
<1>8. latest \in S /\ \A other \in S : latest >= other
  <2>1. S \in SUBSET Int /\ S # {} /\ \A s \in S : s <= i
    BY <1>3, <1>7
  <2> HIDE DEF S
  <2>2. \E x \in S : \A y \in S : x >= y
    BY <2>1, GreatestBelow
  <2>3. latest = CHOOSE at \in S : \A other \in S : at >= other
    BY <1>2, <2>1 DEF Last
  <2>4. QED
    BY <2>2, <2>3
<1> HIDE DEF latest, S
<1>9. ASSUME NEW a \in Int, Occurs(t, a), a <= i PROVE a <= latest
  <2> DEFINE d == DateOf(t.zone, a)
  <2>1. d \in Int /\ a = Wall(t, d) /\ Falls(t, d % WeekLen)
    BY <1>9, CalendarDates
  <2>2. d < d0 => a < Wall(t, d0)
    BY <1>6, CalendarDates
  <2> HIDE DEF d
  <2>3. d <= today
    <3>1. today < d => i < Wall(t, d)
      BY <2>1, CalendarDates DEF today
    <3>2. QED
      BY <1>1, <1>9, <2>1, <3>1
  <2>4. CASE d < d0
    BY <1>3, <1>7, <1>8, <2>2, <2>4
  <2>5. CASE d0 <= d
    <3>1. d \in window
      BY <1>1, <1>6, <2>1, <2>3, <2>5
    <3> HIDE DEF window
    <3>2. a \in S
      BY <1>4, <1>9, <2>1, <3>1
    <3>3. QED
      BY <1>3, <1>8, <3>2
  <2>6. QED
    BY <1>6, <2>1, <2>4, <2>5
<1>10. DateOf(t.zone, latest) \in today - WeekLen .. today
  <2>1. latest \in Int /\ DateOf(t.zone, latest) \in window /\ latest >= Wall(t, d0)
    BY <1>3, <1>7, <1>8
  <2>2. DateOf(t.zone, latest) < d0 => latest < Wall(t, d0)
    BY <1>6, <2>1, CalendarDates
  <2>3. QED
    BY <1>1, <1>6, <1>7, <2>1, <2>2
<1>11. latest \in Int /\ latest <= i /\ Occurs(t, latest)
  BY <1>3, <1>8
<1>12. QED
  BY <1>9, <1>10, <1>11 DEF latest, today

-----------------------------------------------------------------------------
\* Every timing.

\* computeNextRun: the first occurrence after an instant, if there is one.
LEMMA NextIsFirst ==
    ASSUME NEW t, Steady(t), NEW i \in Int
    PROVE  /\ NextRun(t, i) = Never => \A a \in Int : Occurs(t, a) => a <= i
           /\ NextRun(t, i) # Never =>
                  /\ NextRun(t, i) \in Int /\ i < NextRun(t, i)
                  /\ Occurs(t, NextRun(t, i))
                  /\ \A a \in Int : Occurs(t, a) /\ i < a => NextRun(t, i) <= a
           /\ NextRun(t, i) \in Int \union {Never}
<1>1. CASE Simple(t)
  BY <1>1, SimpleNext
<1>2. CASE Calendar(t) /\ Regular(t)
  <2> DEFINE n == NextRun(t, i)
  <2>1. /\ n \in Int /\ i < n /\ Occurs(t, n)
        /\ \A a \in Int : Occurs(t, a) /\ i < a => n <= a
    BY <1>2, CalendarNext
  <2>2. n # Never
    BY <2>1, TimingAssumption
  <2>3. QED
    BY <2>1, <2>2
<1>3. QED
  BY <1>1, <1>2 DEF Steady

\* computeLatestRun: the last occurrence up to an instant, if there is one.
LEMMA LatestIsLast ==
    ASSUME NEW t, Steady(t), NEW i \in Int
    PROVE  /\ LatestRun(t, i) = Never => \A a \in Int : Occurs(t, a) => i < a
           /\ LatestRun(t, i) # Never =>
                  /\ LatestRun(t, i) \in Int /\ LatestRun(t, i) <= i
                  /\ Occurs(t, LatestRun(t, i))
                  /\ \A a \in Int : Occurs(t, a) /\ a <= i => a <= LatestRun(t, i)
<1>1. CASE Simple(t)
  BY <1>1, SimpleLatest
<1>2. CASE Calendar(t) /\ Regular(t)
  <2> DEFINE n == LatestRun(t, i)
  <2>1. /\ n \in Int /\ n <= i /\ Occurs(t, n)
        /\ \A a \in Int : Occurs(t, a) /\ a <= i => a <= n
    BY <1>2, CalendarLatest
  <2>2. n # Never
    BY <2>1, TimingAssumption
  <2>3. QED
    BY <2>1, <2>2
<1>3. QED
  BY <1>1, <1>2 DEF Steady

\* The windows of Occurrences hold what the comparison needs.
LEMMA SimpleWindow ==
    ASSUME NEW t, Simple(t), NEW near \in Int
    PROVE  /\ \A o \in Occurrences(t, near) : \E a \in Int : o = {a} /\ Occurs(t, a)
           /\ \A a \in Int :
                  /\ Occurs(t, a)
                  /\ \/ a <= near \/ a = t.at
                     \/ t.kind = "interval" /\ a <= near + t.every
                  => {a} \in Occurrences(t, near)
<1>1. t.at \in Int
  BY DEF Simple
<1>2. CASE t.kind = "once"
  <2>1. Occurrences(t, near) = {{t.at}}
    BY <1>2 DEF Occurrences
  <2>2. QED
    BY <1>1, <1>2, <2>1 DEF Occurs
<1>3. CASE t.kind = "interval"
  <2> DEFINE inside == {t.at} \union {a \in t.at .. near + t.every : (a - t.at) % t.every = 0}
  <2>1. Occurrences(t, near) = {{a} : a \in inside}
    BY <1>3 DEF Occurrences
  <2>2. t.every \in Nat \ {0} /\ near + t.every \in Int
    BY <1>3 DEF Simple
  <2>3. 0 \in Nat /\ t.at + 0 * t.every = t.at
    BY <1>1, <2>2
  <2>4. Occurs(t, t.at)
    BY <1>3, <2>3, IntervalOccurs
  <2>5. \A a \in inside : a \in Int /\ Occurs(t, a)
    BY <1>1, <1>3, <2>2, <2>4 DEF Occurs
  <2>6. \A a \in Int : Occurs(t, a) /\ a <= near + t.every => a \in inside
    BY <1>1, <1>3, <2>2 DEF Occurs
  <2>7. \A a \in Int : a <= near => a <= near + t.every
    BY <2>2
  <2> HIDE DEF inside
  <2>8. t.at \in inside
    BY DEF inside
  <2>9. QED
    BY <1>3, <2>1, <2>5, <2>6, <2>7, <2>8
<1>4. QED
  BY <1>2, <1>3 DEF Simple

LEMMA SimpleNear ==
    ASSUME NEW t, Simple(t), NEW i \in Int, NEW next, next = NextRun(t, i), next # Never
    PROVE  next = t.at \/ (t.kind = "interval" /\ next <= i + t.every)
<1>1. t.at \in Int /\ t.kind \in {"once", "interval"}
  BY DEF Simple
<1>2. CASE t.kind = "once"
  BY <1>2, OnceNext
<1>3. CASE t.kind = "interval" /\ i < t.at
  BY <1>1, <1>3 DEF NextRun
<1>4. CASE t.kind = "interval" /\ t.at <= i
  <2> DEFINE q == (i - t.at) \div t.every
             p == q * t.every
  <2>1. /\ q \in Int /\ NextRun(t, i) = t.at + (q + 1) * t.every
        /\ t.at + q * t.every <= i
    BY <1>4, IntervalRuns
  <2>2. t.every \in Nat
    BY <1>4 DEF Simple
  <2> HIDE DEF q
  <2>3. (q + 1) * t.every = p + t.every /\ p \in Int /\ t.at + p <= i
    BY <2>1, <2>2
  <2> HIDE DEF p
  <2>4. QED
    BY <1>1, <1>4, <2>1, <2>2, <2>3
<1>5. QED
  BY <1>1, <1>2, <1>3, <1>4

LEMMA CalendarWindow ==
    ASSUME NEW t, Calendar(t), Regular(t), NEW near \in Int
    PROVE  /\ \A o \in Occurrences(t, near) : \E a \in o :
                  /\ a \in Int /\ Occurs(t, a)
                  /\ \A other \in o : other \in Int /\ (Occurs(t, other) => other = a)
           /\ \A a \in Int :
                  Occurs(t, a) /\ DateOf(t.zone, a) \in DateOf(t.zone, near) - WeekLen ..
                                                         DateOf(t.zone, near) + WeekLen
                      => \E o \in Occurrences(t, near) : a \in o
<1> DEFINE today == DateOf(t.zone, near)
           dates == {d \in today - WeekLen - 1 .. today + WeekLen + 1 : Falls(t, d % WeekLen)}
<1>1. today \in Int /\ WeekLen \in Nat /\ dates \subseteq Int
  BY CalendarDates, TimingAssumption
<1>2. Occurrences(t, near) = {Instants(t, d) : d \in dates}
  BY DEF Occurrences, Calendar
<1>3. \A d \in Int : /\ Wall(t, d) \in Instants(t, d) /\ Wall(t, d) \in Int
                     /\ \A a \in Instants(t, d) : a \in Int /\ DateOf(t.zone, a) = d
  BY WallClock
<1>4. \A d \in dates : Falls(t, d % WeekLen) /\ Occurs(t, Wall(t, d))
  BY <1>1, CalendarDates
<1> HIDE DEF today
<1>5. ASSUME NEW a \in Int, Occurs(t, a),
             DateOf(t.zone, a) \in today - WeekLen .. today + WeekLen
      PROVE  \E o \in Occurrences(t, near) : a \in o
  <2> DEFINE d == DateOf(t.zone, a)
  <2>1. d \in Int /\ a = Wall(t, d) /\ Falls(t, d % WeekLen)
    BY <1>5, CalendarDates
  <2>2. d \in today - WeekLen .. today + WeekLen
    BY <1>5
  <2> HIDE DEF d
  <2>3. d \in today - WeekLen - 1 .. today + WeekLen + 1
    BY <1>1, <2>1, <2>2
  <2>4. QED
    BY <1>2, <1>3, <2>1, <2>3
<1> HIDE DEF dates
<1>6. ASSUME NEW o \in Occurrences(t, near)
      PROVE  \E a \in o : /\ a \in Int /\ Occurs(t, a)
                          /\ \A other \in o : other \in Int /\ (Occurs(t, other) => other = a)
  <2>1. PICK d \in dates : o = Instants(t, d)
    BY <1>2
  <2>2. d \in Int /\ Wall(t, d) \in o /\ Wall(t, d) \in Int /\ Occurs(t, Wall(t, d))
    BY <1>1, <1>3, <1>4, <2>1
  <2>3. ASSUME NEW other \in o
        PROVE  other \in Int /\ (Occurs(t, other) => other = Wall(t, d))
    <3>1. other \in Int /\ DateOf(t.zone, other) = d
      BY <1>3, <2>1, <2>2
    <3>2. QED
      BY <3>1, CalendarDates
  <2>4. QED
    BY <2>2, <2>3
<1>7. QED
  BY <1>5, <1>6 DEF today

LEMMA Window ==
    ASSUME NEW t, Steady(t), NEW i \in Int
    PROVE  /\ \A o \in Occurrences(t, i) : \E a \in o :
                  /\ a \in Int /\ Occurs(t, a)
                  /\ \A other \in o : other \in Int /\ (Occurs(t, other) => other = a)
           /\ NextRun(t, i) # Never => \E o \in Occurrences(t, i) : NextRun(t, i) \in o
           /\ LatestRun(t, i) # Never => \E o \in Occurrences(t, i) : LatestRun(t, i) \in o
<1> DEFINE next == NextRun(t, i)
           latest == LatestRun(t, i)
<1>1. /\ next # Never => next \in Int /\ Occurs(t, next)
      /\ latest # Never => latest \in Int /\ Occurs(t, latest) /\ latest <= i
  BY NextIsFirst, LatestIsLast
<1>2. CASE Simple(t)
  <2>1. next # Never => next = t.at \/ (t.kind = "interval" /\ next <= i + t.every)
    BY <1>2, SimpleNear
  <2> HIDE DEF next, latest
  <2>2. (next # Never => {next} \in Occurrences(t, i))
        /\ (latest # Never => {latest} \in Occurrences(t, i))
    BY <1>1, <1>2, <2>1, SimpleWindow
  <2>3. \A o \in Occurrences(t, i) : \E a \in o :
            /\ a \in Int /\ Occurs(t, a)
            /\ \A other \in o : other \in Int /\ (Occurs(t, other) => other = a)
    BY <1>2, SimpleWindow
  <2>4. QED
    BY <2>2, <2>3 DEF next, latest
<1>3. CASE Calendar(t) /\ Regular(t)
  <2>1. DateOf(t.zone, i) \in Int /\ WeekLen \in Nat
    BY <1>3, CalendarDates, TimingAssumption
  <2>2. /\ DateOf(t.zone, next) \in DateOf(t.zone, i) .. DateOf(t.zone, i) + WeekLen
        /\ DateOf(t.zone, latest) \in DateOf(t.zone, i) - WeekLen .. DateOf(t.zone, i)
    BY <1>3, CalendarNext, CalendarLatest
  <2> HIDE DEF next, latest
  <2>3. \A d \in {DateOf(t.zone, next), DateOf(t.zone, latest)} :
            d \in DateOf(t.zone, i) - WeekLen .. DateOf(t.zone, i) + WeekLen
    BY <2>1, <2>2
  <2>4. (next # Never => \E o \in Occurrences(t, i) : next \in o)
        /\ (latest # Never => \E o \in Occurrences(t, i) : latest \in o)
    BY <1>1, <1>3, <2>3, CalendarWindow
  <2>5. \A o \in Occurrences(t, i) : \E a \in o :
            /\ a \in Int /\ Occurs(t, a)
            /\ \A other \in o : other \in Int /\ (Occurs(t, other) => other = a)
    BY <1>3, CalendarWindow
  <2>6. QED
    BY <2>4, <2>5 DEF next, latest
<1>4. QED
  BY <1>2, <1>3 DEF Steady

\* The two find what the reference defines.
\* What occurs at an instant is among the occurrences around it.
LEMMA OccurrencesHold ==
    ASSUME NEW t, Steady(t), NEW i \in Int, Occurs(t, i)
    PROVE  \E o \in Occurrences(t, i) : i \in o
<1>1. LatestRun(t, i) = i
  <2>1. /\ LatestRun(t, i) # Never
        /\ LatestRun(t, i) \in Int /\ LatestRun(t, i) <= i /\ i <= LatestRun(t, i)
    BY LatestIsLast
  <2>2. QED
    BY <2>1
<1>2. LatestRun(t, i) # Never
  BY <1>1, TimingAssumption
<1>3. QED
  BY <1>1, <1>2, Window

LEMMA SteadyMeetsReference ==
    ASSUME NEW t, Steady(t), NEW i \in Int
    PROVE  /\ IsNext(t, i, NextRun(t, i))
           /\ IsLatest(t, i, LatestRun(t, i))
           /\ LatestRun(t, i) # Never => IsOnce(t, LatestRun(t, i))
<1> DEFINE next == NextRun(t, i)
           latest == LatestRun(t, i)
<1>1. Never \notin Int
  BY TimingAssumption
<1>2. \A o \in Occurrences(t, i) : \E a \in o : a \in Int /\ Occurs(t, a)
  BY Window
<1>3. IsNext(t, i, next)
  <2> HIDE DEF next
  <2>1. CASE next = Never
    <3>1. \A a \in Int : Occurs(t, a) => a <= i
      BY <2>1, NextIsFirst DEF next
    <3>2. QED
      BY <1>2, <2>1, <3>1 DEF IsNext
  <2>2. CASE next # Never
    <3>1. /\ next \in Int /\ i < next /\ Occurs(t, next)
          /\ \A a \in Int : Occurs(t, a) /\ i < a => next <= a
      BY <2>2, NextIsFirst DEF next
    <3>3. \E o \in Occurrences(t, i) : next \in o
      BY <2>2, Window DEF next
    <3>4. ~\E o \in Occurrences(t, i) : \A a \in o : i < a /\ a < next
      BY <1>2, <3>1
    <3>5. QED
      BY <2>2, <3>1, <3>3, <3>4 DEF IsNext
  <2>3. QED
    BY <2>1, <2>2
<1>4. IsLatest(t, i, latest)
  <2> HIDE DEF latest
  <2>1. CASE latest = Never
    <3>1. \A a \in Int : Occurs(t, a) => i < a
      BY <2>1, LatestIsLast DEF latest
    <3>2. QED
      BY <1>2, <2>1, <3>1 DEF IsLatest
  <2>2. CASE latest # Never
    <3>1. /\ latest \in Int /\ latest <= i /\ Occurs(t, latest)
          /\ \A a \in Int : Occurs(t, a) /\ a <= i => a <= latest
      BY <2>2, LatestIsLast DEF latest
    <3>2. \E o \in Occurrences(t, i) : latest \in o
      BY <2>2, Window DEF latest
    <3>3. ~\E o \in Occurrences(t, i) : \A a \in o : latest < a /\ a <= i
      BY <1>2, <3>1
    <3>4. QED
      BY <2>2, <3>1, <3>2, <3>3 DEF IsLatest
  <2>3. QED
    BY <2>1, <2>2
<1>5. ASSUME latest # Never PROVE IsOnce(t, latest)
  <2> DEFINE after == NextRun(t, latest)
  <2> HIDE DEF latest
  <2>1. latest \in Int /\ Occurs(t, latest)
    BY <1>5, LatestIsLast DEF latest
  <2>2. after = Never \/ (after \in Int /\ after # latest /\ Occurs(t, after))
    BY <2>1, NextIsFirst
  <2>3. \A o \in Occurrences(t, latest) :
            /\ \A other \in o : other \in Int
            /\ \A u \in o, v \in o : Occurs(t, u) /\ Occurs(t, v) => u = v
    <3>1. \A o \in Occurrences(t, latest) : \E a \in o :
              /\ a \in Int /\ Occurs(t, a)
              /\ \A other \in o : other \in Int /\ (Occurs(t, other) => other = a)
      BY <2>1, Window
    <3>2. QED
      BY <3>1
  <2> HIDE DEF after
  <2>4. \A o \in Occurrences(t, latest) : latest \in o => after \notin o
    BY <1>1, <2>1, <2>2, <2>3
  <2>5. QED
    BY <2>4 DEF IsOnce, after
<1>6. QED
  BY <1>3, <1>4, <1>5

-----------------------------------------------------------------------------
\* The inductive invariant.

\* What may become the row's plan: its own, and those that edits are about to write.
Plans == {job.plan} \union {edit[e].plan : e \in Editor}

\* A next run is an occurrence of the plan's own timing, after the plan was made.
WellPlanned(p) ==
    p.next # Never =>
        p.timing \in Timings /\ Occurs(p.timing, p.next) /\ p.since < p.next

\* The run has a row.
Ran(a) == a \in 1 .. MaxTime /\ runs[a] > 0

\* The plans that edits hold count as well: an edit that was computed before a tick
\* puts an earlier next run back, and the rows before that one must be there.
Complete(p) ==
    p.next # Never =>
        \A a \in Int : Occurs(p.timing, a) /\ p.since < a /\ a < p.next => Ran(a)

\* An edit has read a row.
Existing == \A e \in Editor : edit[e].pc = "writing" => job.status # "absent"

JobInv ==
    /\ TypeOK /\ Existing
    /\ \A p \in Plans : WellPlanned(p)
    /\ job.policy = "catch_up" => \A p \in Plans : Complete(p)

LEMMA PlanFields ==
    ASSUME NEW p \in Plan
    PROVE  /\ p = [timing |-> p.timing, next |-> p.next, since |-> p.since]
           /\ p.timing \in Timings \union {NoTiming}
           /\ p.next # Never => p.next \in Nat \ {0}
           /\ p.next \in (Nat \ {0}) \union {Never}
           /\ p.since \in Nat
  BY DEF Plan

LEMMA JobFields ==
    ASSUME TypeOK
    PROVE  /\ job = [status |-> job.status, policy |-> job.policy, plan |-> job.plan]
           /\ job.status \in Status \union {"absent"}
           /\ job.policy \in {"catch_up", "run_latest"} /\ job.plan \in Plan
           /\ job.status # "absent" => job.plan.timing \in Timings
           /\ now \in Nat \ {0} /\ now <= MaxTime
<1>1. job \in [status : Status \union {"absent"}, policy : {"catch_up", "run_latest"}, plan : Plan]
      /\ (job.status # "absent" <=> job.plan.timing # NoTiming) /\ now \in 1 .. MaxTime
  BY DEF TypeOK
<1>2. job.plan \in Plan
  BY <1>1
<1>3. QED
  BY <1>1, <1>2, PlanFields, JobAssumption

LEMMA EditFields ==
    ASSUME TypeOK, NEW e \in Editor
    PROVE  /\ edit[e].plan \in Plan /\ edit[e].status \in Status \union {"same"}
           /\ edit[e].pc = "writing" => edit[e].plan.timing # NoTiming
  BY DEF TypeOK

\* A plan that is made now.
LEMMA PlannedIsRight ==
    ASSUME SteadyTimings, NEW t \in Timings, now \in Nat \ {0}
    PROVE  /\ Planned(t) \in Plan /\ WellPlanned(Planned(t)) /\ Complete(Planned(t))
           /\ Planned(t).timing = t
<1> DEFINE n == NextRun(t, now)
<1>1. /\ Planned(t).timing = t /\ Planned(t).next = n /\ Planned(t).since = now
      /\ Planned(t) = [timing |-> t, next |-> n, since |-> now]
  BY DEF Planned
<1>2. Steady(t) /\ now \in Int
  BY DEF SteadyTimings
<1>3. /\ n \in Int \union {Never}
      /\ n # Never => /\ n \in Int /\ now < n /\ Occurs(t, n)
                      /\ \A a \in Int : Occurs(t, a) /\ now < a => n <= a
  BY <1>2, NextIsFirst
<1> HIDE DEF n
<1>4. n \in (Nat \ {0}) \union {Never}
  BY <1>3
<1>5. Planned(t) \in Plan
  BY <1>1, <1>4 DEF Plan
<1>6. WellPlanned(Planned(t))
  BY <1>1, <1>3 DEF WellPlanned
<1>7. Complete(Planned(t))
  BY <1>1, <1>2, <1>3 DEF Complete
<1>8. QED
  BY <1>1, <1>5, <1>6, <1>7

\* A plan with nothing to come.
LEMMA EmptyPlan ==
    ASSUME NEW p, p.next = Never
    PROVE  WellPlanned(p) /\ Complete(p)
  BY DEF WellPlanned, Complete

\* Rows are never taken back.
LEMMA RowsStay ==
    ASSUME NEW p, Complete(p), \A a \in 1 .. MaxTime : runs[a] > 0 => runs'[a] > 0
    PROVE  p.next # Never =>
               \A a \in Int : Occurs(p.timing, a) /\ p.since < a /\ a < p.next => Ran(a)'
  BY DEF Complete, Ran

\* A step that makes no row puts right plans where there were right ones.
LEMMA PlansStep ==
    ASSUME JobInv, TypeOK', Existing', UNCHANGED <<runs, job.policy>>,
           \A p \in Plans' : p \in Plans \/ (WellPlanned(p) /\ Complete(p))
    PROVE  JobInv'
<1>1. ASSUME NEW p \in Plans' PROVE WellPlanned(p)'
  <2>1. WellPlanned(p)
    BY <1>1 DEF JobInv
  <2>2. QED
    BY <2>1 DEF WellPlanned
<1>2. ASSUME NEW p \in Plans', job.policy' = "catch_up" PROVE Complete(p)'
  <2>1. Complete(p)
    BY <1>2 DEF JobInv
  <2>2. QED
    BY <2>1 DEF Complete, Ran
<1>3. QED
  BY <1>1, <1>2 DEF JobInv

LEMMA NoEditTyped ==
    /\ NoPlan \in Plan /\ NoPlan.next = Never /\ NoPlan.timing = NoTiming
    /\ NoEdit.plan = NoPlan /\ NoEdit.pc = "idle"
    /\ NoEdit \in [pc : {"idle", "writing"}, status : Status \union {"same"}, plan : Plan]
<1>1. NoPlan \in Plan /\ NoPlan.next = Never /\ NoPlan.timing = NoTiming
  BY DEF NoPlan, Plan
<1>2. QED
  BY <1>1 DEF NoEdit

\* What a step on the row alone has to do.
LEMMA JobStep ==
    ASSUME JobInv, NEW s \in Status, NEW p \in Plan, p.timing # NoTiming,
           p \in Plans \/ (WellPlanned(p) /\ Complete(p)),
           job' = [status |-> s, policy |-> job.policy, plan |-> p],
           UNCHANGED <<now, runs, edit>>, edits' \in 0 .. MaxEdits
    PROVE  JobInv'
<1>1. /\ job'.status = s /\ job'.policy = job.policy /\ job'.plan = p
      /\ job.policy \in {"catch_up", "run_latest"} /\ s # "absent"
  BY JobFields DEF JobInv, Status
<1>2. job' \in [status : Status \union {"absent"}, policy : {"catch_up", "run_latest"}, plan : Plan]
  BY <1>1
<1>3. TypeOK'
  BY <1>1, <1>2 DEF JobInv, TypeOK, Plan
<1>4. Existing'
  BY <1>1 DEF Existing
<1>5. \A q \in Plans' : q \in Plans \/ (WellPlanned(q) /\ Complete(q))
  BY <1>1 DEF Plans
<1>6. QED
  BY <1>1, <1>3, <1>4, <1>5, PlansStep

LEMMA CreateKeeps ==
    ASSUME SteadyTimings, JobInv, NEW t \in Timings, CreateScheduledAgentJob(t)
    PROVE  JobInv'
<1>1. /\ job' = [status |-> "active", policy |-> job.policy, plan |-> Planned(t)]
      /\ UNCHANGED <<now, runs, edit, edits>>
  BY JobFields DEF CreateScheduledAgentJob, JobInv
<1>2. /\ Planned(t) \in Plan /\ WellPlanned(Planned(t)) /\ Complete(Planned(t))
      /\ Planned(t).timing # NoTiming
  BY PlannedIsRight, JobFields, JobAssumption DEF JobInv
<1>3. "active" \in Status /\ edits \in 0 .. MaxEdits
  BY DEF Status, JobInv, TypeOK
<1>4. QED
  BY <1>1, <1>2, <1>3, JobStep

LEMMA ReadKeeps ==
    ASSUME SteadyTimings, JobInv, NEW e \in Editor,
           NEW status \in {"same", "active", "paused", "deleted"},
           NEW timing \in Timings \union {NoTiming}, ReadsForUpdate(e, status, timing)
    PROVE  JobInv'
<1> DEFINE newStatus == IF status = "same" THEN job.status ELSE status
           newTiming == IF timing = NoTiming THEN job.plan.timing ELSE timing
           recompute == Recomputes(status, timing)
           plan == IF newStatus # "active" THEN [timing |-> newTiming, next |-> Never, since |-> now]
                   ELSE IF recompute THEN Planned(newTiming)
                   ELSE [job.plan EXCEPT !.timing = newTiming]
           row == [pc |-> "writing", status |-> status, plan |-> plan]
<1>1. /\ job.status \notin {"absent", "deleted"} /\ edits < MaxEdits /\ edits' = edits + 1
      /\ edit' = [edit EXCEPT ![e] = row]
      /\ UNCHANGED <<now, job, runs>>
  BY DEF ReadsForUpdate, Edits
<1>2. newTiming \in Timings /\ now \in Nat \ {0} /\ job.plan \in Plan /\ job.plan.timing # NoTiming
  BY <1>1, JobFields, JobAssumption DEF JobInv
<1>3. /\ plan \in Plan /\ plan.timing # NoTiming
      /\ plan = job.plan \/ (WellPlanned(plan) /\ Complete(plan))
  <2>1. CASE newStatus # "active"
    <3> DEFINE p == [timing |-> newTiming, next |-> Never, since |-> now]
    <3>1. plan = p
      BY <2>1
    <3>2. p \in Plan /\ p.next = Never /\ p.timing = newTiming
      BY <1>2 DEF Plan
    <3> HIDE DEF newTiming, p
    <3>3. QED
      BY <1>2, <3>1, <3>2, EmptyPlan, JobAssumption
  <2>2. CASE newStatus = "active" /\ recompute
    <3>1. plan = Planned(newTiming)
      BY <2>2
    <3> HIDE DEF newTiming, plan
    <3>2. QED
      BY <1>2, <3>1, PlannedIsRight, JobAssumption
  <2>3. CASE newStatus = "active" /\ ~recompute
    <3> DEFINE p == job.plan
    <3>1. newTiming = p.timing
      BY <2>3 DEF Recomputes
    <3>2. plan = [p EXCEPT !.timing = newTiming]
      BY <2>3
    <3>3. p = [timing |-> p.timing, next |-> p.next, since |-> p.since]
      BY <1>2, PlanFields
    <3> HIDE DEF p, newTiming, plan
    <3>4. plan = p
      BY <3>1, <3>2, <3>3
    <3>5. QED
      BY <1>2, <3>4 DEF p
  <2>4. QED
    BY <2>1, <2>2, <2>3
<1> HIDE DEF newStatus, newTiming, recompute, plan
<1>4. row.plan = plan /\ row.pc = "writing" /\ row.status \in Status \union {"same"}
  BY DEF Status
<1>5. row \in [pc : {"idle", "writing"}, status : Status \union {"same"}, plan : Plan]
  BY <1>3, <1>4
<1> HIDE DEF row
<1>6. \A f \in Editor : edit'[f] = IF f = e THEN row ELSE edit[f]
  BY <1>1 DEF JobInv, TypeOK
<1>7. edit' \in [Editor -> [pc : {"idle", "writing"}, status : Status \union {"same"}, plan : Plan]]
  BY <1>1, <1>5 DEF JobInv, TypeOK
<1>8. edits' \in 0 .. MaxEdits
  BY <1>1, JobAssumption DEF JobInv, TypeOK
<1>9. TypeOK'
  BY <1>1, <1>3, <1>4, <1>6, <1>7, <1>8 DEF JobInv, TypeOK, Plan
<1>10. Existing'
  BY <1>1 DEF Existing
<1>11. \A q \in Plans' : q \in Plans \/ (WellPlanned(q) /\ Complete(q))
  BY <1>1, <1>3, <1>4, <1>6 DEF Plans
<1>12. QED
  BY <1>1, <1>9, <1>10, <1>11, PlansStep

LEMMA WriteKeeps ==
    ASSUME JobInv, NEW e \in Editor, WritesUpdate(e)
    PROVE  JobInv'
<1> DEFINE s == IF edit[e].status = "same" THEN job.status ELSE edit[e].status
<1>1. /\ job' = [status |-> s, policy |-> job.policy, plan |-> edit[e].plan]
      /\ edit' = [edit EXCEPT ![e] = NoEdit] /\ edit[e].pc = "writing"
      /\ UNCHANGED <<now, runs, edits>>
  BY JobFields DEF WritesUpdate, JobInv
<1>2. edit[e].plan \in Plan /\ edit[e].plan.timing # NoTiming
  BY <1>1, EditFields DEF JobInv
<1>3. s \in Status \union {"absent"} /\ s # "absent"
  BY <1>1, EditFields, JobFields DEF JobInv, Existing, Status
<1> HIDE DEF s
<1>4. job'.status = s /\ job'.policy = job.policy /\ job'.plan = edit[e].plan
  BY <1>1
<1>5. job' \in [status : Status \union {"absent"}, policy : {"catch_up", "run_latest"}, plan : Plan]
  BY <1>1, <1>2, <1>3, JobFields DEF JobInv
<1>6. \A f \in Editor : edit'[f] = IF f = e THEN NoEdit ELSE edit[f]
  BY <1>1 DEF JobInv, TypeOK
<1>7. edit' \in [Editor -> [pc : {"idle", "writing"}, status : Status \union {"same"}, plan : Plan]]
  BY <1>1, NoEditTyped DEF JobInv, TypeOK
<1>8. TypeOK'
  BY <1>1, <1>2, <1>3, <1>4, <1>5, <1>6, <1>7, NoEditTyped DEF JobInv, TypeOK
<1>9. Existing'
  BY <1>3, <1>4 DEF Existing
<1>10. \A q \in Plans' : q \in Plans \/ (WellPlanned(q) /\ Complete(q))
  BY <1>4, <1>6, NoEditTyped, EmptyPlan DEF Plans
<1>11. QED
  BY <1>1, <1>4, <1>8, <1>9, <1>10, PlansStep

LEMMA ReminderKeeps ==
    ASSUME SteadyTimings, JobInv, NEW status \in {"active", "paused"},
           SetReminderStatus(status)
    PROVE  JobInv'
<1> DEFINE t == job.plan.timing
           p == IF status = "active" THEN Planned(t) ELSE [job.plan EXCEPT !.next = Never]
<1>1. /\ job' = [status |-> status, policy |-> job.policy, plan |-> p]
      /\ job.status # "absent" /\ edits < MaxEdits /\ edits' = edits + 1
      /\ UNCHANGED <<now, runs, edit>>
  BY JobFields DEF SetReminderStatus, Edits, JobInv
<1>2. t \in Timings /\ t # NoTiming /\ now \in Nat \ {0} /\ job.plan \in Plan
  BY <1>1, JobFields, JobAssumption DEF JobInv
<1>3. p \in Plan /\ p.timing # NoTiming /\ WellPlanned(p) /\ Complete(p)
  <2>1. CASE status = "active"
    BY <1>2, <2>1, PlannedIsRight
  <2>2. CASE status # "active"
    <3>1. p = [timing |-> t, next |-> Never, since |-> job.plan.since] /\ job.plan.since \in Nat
      BY <1>2, <2>2, PlanFields
    <3> HIDE DEF p, t
    <3>2. p \in Plan /\ p.next = Never /\ p.timing = t
      BY <1>2, <3>1 DEF Plan
    <3>3. QED
      BY <1>2, <3>2, EmptyPlan
  <2>3. QED
    BY <2>1, <2>2
<1> HIDE DEF p, t
<1>4. status \in Status /\ edits' \in 0 .. MaxEdits
  BY <1>1, JobAssumption DEF Status, JobInv, TypeOK
<1>5. QED
  BY <1>1, <1>3, <1>4, JobStep

LEMMA CloseKeeps ==
    ASSUME JobInv, AccountCloses
    PROVE  JobInv'
<1>1. job.plan \in Plan /\ job.plan.timing # NoTiming /\ edits \in 0 .. MaxEdits
  BY JobFields DEF AccountCloses, JobInv, TypeOK
<1>2. PICK s \in {"paused", "deleted"} :
          job' = [status |-> s, policy |-> job.policy, plan |-> job.plan]
  BY JobFields DEF AccountCloses, JobInv
<1>3. s \in Status
  BY DEF Status
<1>4. QED
  BY <1>1, <1>2, <1>3, JobStep DEF AccountCloses, Plans

\* A tick takes an occurrence that is due, the stored one or a later one.
LEMMA TickTakes ==
    ASSUME SteadyTimings, JobInv, Due, NEW t, t = job.plan.timing,
           NEW at, at = ScheduledFor(t)
    PROVE  /\ t \in Timings /\ Steady(t)
           /\ at \in 1 .. MaxTime /\ at \in Int /\ job.plan.next <= at /\ at <= now
           /\ Occurs(t, at) /\ job.plan.next \in Int
           /\ job.policy = "catch_up" => at = job.plan.next
           /\ job.policy # "catch_up" => at = LatestRun(t, now) /\ LatestRun(t, now) # Never
<1> DEFINE n == job.plan.next
           latest == LatestRun(t, now)
<1>1. /\ t \in Timings /\ Steady(t) /\ n \in Nat \ {0} /\ n <= now /\ Occurs(t, n)
      /\ now \in Nat \ {0} /\ now <= MaxTime
  <2>1. job.status # "absent" /\ n # Never /\ n <= now
    BY DEF Due
  <2>2. job.plan \in Plan /\ t \in Timings /\ now \in Nat \ {0} /\ now <= MaxTime
    BY <2>1, JobFields DEF JobInv
  <2>3. WellPlanned(job.plan)
    BY DEF JobInv, Plans
  <2>4. QED
    BY <2>1, <2>2, <2>3, PlanFields DEF WellPlanned, SteadyTimings
<1>2. /\ latest # Never
      /\ latest \in Int /\ latest <= now /\ Occurs(t, latest) /\ n <= latest
  BY <1>1, LatestIsLast
<1>3. at = IF job.policy = "catch_up" THEN n ELSE latest
  BY <1>2 DEF ScheduledFor
<1> HIDE DEF n, latest
<1>4. at \in Int /\ n <= at /\ at <= now /\ Occurs(t, at)
  BY <1>1, <1>2, <1>3
<1>5. at \in 1 .. MaxTime
  BY <1>1, <1>4, JobAssumption
<1>6. QED
  BY <1>1, <1>2, <1>3, <1>4, <1>5 DEF n, latest

LEMMA MaterializeKeeps ==
    ASSUME SteadyTimings, JobInv, Materialize
    PROVE  JobInv'
<1> DEFINE t == job.plan.timing
           at == ScheduledFor(t)
           n == job.plan.next
           m == NextRun(t, at)
           p == [timing |-> t, next |-> m, since |-> job.plan.since]
<1>1. /\ Due /\ runs' = [runs EXCEPT ![at] = 1]
      /\ job' = [status |-> StatusAfter(m), policy |-> job.policy, plan |-> p]
      /\ UNCHANGED <<now, edit, edits>>
  <2>1. /\ Due /\ runs' = Inserted(at)
        /\ job' = [job EXCEPT !.status = StatusAfter(m), !.plan.next = m]
        /\ UNCHANGED <<now, edit, edits>>
    BY DEF Materialize, NextAfter
  <2>2. /\ job = [status |-> job.status, policy |-> job.policy, plan |-> job.plan]
        /\ job.plan = [timing |-> t, next |-> n, since |-> job.plan.since]
    BY JobFields, PlanFields DEF JobInv
  <2> DEFINE q == job.plan
  <2>3. [q EXCEPT !.next = m] = p
    BY <2>2
  <2>4. job' = [status |-> StatusAfter(m), policy |-> job.policy, plan |-> [q EXCEPT !.next = m]]
    BY <2>1, <2>2
  <2>5. QED
    BY <2>1, <2>3, <2>4 DEF Inserted
<1>2. /\ t \in Timings /\ Steady(t) /\ at \in 1 .. MaxTime /\ at \in Int
      /\ n <= at /\ Occurs(t, at) /\ n \in Int
      /\ job.policy = "catch_up" => at = n
  BY <1>1, TickTakes
<1>3. /\ job.plan \in Plan /\ job.plan.since \in Nat /\ n \in Nat \ {0} /\ n # Never
      /\ job.plan.since < n /\ t # NoTiming
  <2>1. job.plan \in Plan /\ n # Never
    BY <1>1, JobFields DEF JobInv, Due
  <2>2. WellPlanned(job.plan)
    BY DEF JobInv, Plans
  <2>3. QED
    BY <1>2, <2>1, <2>2, PlanFields, JobAssumption DEF WellPlanned
<1>4. /\ m \in Int \union {Never}
      /\ m # Never => /\ m \in Int /\ at < m /\ Occurs(t, m)
                      /\ \A a \in Int : Occurs(t, a) /\ at < a => m <= a
  BY <1>2, NextIsFirst
<1> HIDE DEF t, at, n, m
<1>5. p.timing = t /\ p.next = m /\ p.since = job.plan.since
  OBVIOUS
<1>6. p \in Plan /\ WellPlanned(p)
  <2>1. m # Never => m \in Nat \ {0} /\ job.plan.since < m
    BY <1>2, <1>3, <1>4
  <2>2. m \in (Nat \ {0}) \union {Never}
    BY <1>4, <2>1
  <2>3. p \in Plan
    BY <1>2, <1>3, <2>2 DEF Plan
  <2> HIDE DEF p
  <2>4. WellPlanned(p)
    BY <1>2, <1>4, <1>5, <2>1 DEF WellPlanned
  <2>5. QED
    BY <2>3, <2>4
<1> HIDE DEF p
<1>7. /\ runs' \in [1 .. MaxTime -> Nat] /\ runs'[at] = 1
      /\ \A a \in 1 .. MaxTime : runs[a] > 0 => runs'[a] > 0
  BY <1>1, <1>2 DEF JobInv, TypeOK
<1>8. /\ job'.status = StatusAfter(m) /\ job'.policy = job.policy /\ job'.plan = p
      /\ StatusAfter(m) \in Status /\ StatusAfter(m) # "absent"
      /\ job.policy \in {"catch_up", "run_latest"}
  BY <1>1, JobFields DEF JobInv, StatusAfter, Status
<1>9. TypeOK'
  <2>1. job' \in [status : Status \union {"absent"}, policy : {"catch_up", "run_latest"}, plan : Plan]
    BY <1>1, <1>6, <1>8
  <2>2. job'.status # "absent" <=> job'.plan.timing # NoTiming
    BY <1>3, <1>5, <1>8
  <2>3. QED
    BY <1>1, <1>7, <2>1, <2>2 DEF JobInv, TypeOK, Plan
<1>10. Existing'
  BY <1>8 DEF Existing
<1>11. ASSUME NEW q \in Plans' PROVE q = p \/ q \in Plans
  BY <1>1, <1>8, <1>11 DEF Plans
<1>12. ASSUME NEW q \in Plans' PROVE WellPlanned(q)'
  <2>1. WellPlanned(q)
    BY <1>6, <1>11, <1>12 DEF JobInv
  <2>2. QED
    BY <2>1 DEF WellPlanned
<1>13. ASSUME NEW q \in Plans', job.policy' = "catch_up" PROVE Complete(q)'
  <2>1. CASE q = p
    <3> SUFFICES ASSUME m # Never, NEW a \in Int, Occurs(t, a), job.plan.since < a, a < m
                 PROVE  Ran(a)'
      BY <1>5, <2>1 DEF Complete
    <3>1. at = n /\ a <= at
      BY <1>2, <1>4, <1>8, <1>13
    <3>2. CASE a = at
      BY <1>2, <1>7, <3>2 DEF Ran
    <3>3. CASE a < n
      <4>1. Complete(job.plan)
        BY <1>8, <1>13 DEF JobInv, Plans
      <4>2. Ran(a)
        BY <1>3, <3>3, <4>1 DEF Complete, t, n
      <4>3. QED
        BY <1>7, <4>2 DEF Ran
    <3>4. QED
      BY <1>2, <3>1, <3>2, <3>3
  <2>2. CASE q \in Plans
    <3>1. Complete(q)
      BY <1>8, <1>13, <2>2 DEF JobInv
    <3>2. QED
      BY <1>7, <3>1, RowsStay DEF Complete
  <2>3. QED
    BY <1>11, <1>13, <2>1, <2>2
<1>14. QED
  BY <1>9, <1>10, <1>12, <1>13 DEF JobInv

-----------------------------------------------------------------------------
LEMMA InitiallyJobInv == Init => JobInv
<1> SUFFICES ASSUME Init PROVE JobInv
  OBVIOUS
<1>1. /\ job.status = "absent" /\ job.plan = NoPlan
      /\ job \in [status : Status \union {"absent"}, policy : {"catch_up", "run_latest"}, plan : Plan]
      /\ \A e \in Editor : edit[e] = NoEdit
  <2>1. /\ job \in [status : {"absent"}, policy : {"catch_up", "run_latest"}, plan : {NoPlan}]
        /\ \A e \in Editor : edit[e] = NoEdit
    BY DEF Init
  <2>2. /\ job = [status |-> "absent", policy |-> job.policy, plan |-> NoPlan]
        /\ job.policy \in {"catch_up", "run_latest"} /\ NoPlan \in Plan
    BY <2>1, NoEditTyped
  <2>3. job.status = "absent" /\ job.plan = NoPlan /\ job.plan \in Plan
    BY <2>2
  <2>4. QED
    BY <2>1, <2>2, <2>3
<1>2. TypeOK
  <2>1. now \in 1 .. MaxTime /\ runs \in [1 .. MaxTime -> Nat] /\ edits \in 0 .. MaxEdits
    BY JobAssumption DEF Init
  <2>2. edit \in [Editor -> [pc : {"idle", "writing"}, status : Status \union {"same"}, plan : Plan]]
    BY NoEditTyped DEF Init
  <2>3. QED
    BY <1>1, <2>1, <2>2, NoEditTyped DEF TypeOK
<1>3. \A p \in Plans : p.next = Never
  BY <1>1, NoEditTyped DEF Plans
<1>4. Existing
  BY <1>1, NoEditTyped DEF Existing
<1>5. QED
  BY <1>2, <1>3, <1>4, EmptyPlan DEF JobInv

LEMMA NextJobInv ==
    ASSUME SteadyTimings, JobInv, [Next]_vars
    PROVE  JobInv'
<1>1. CASE TimePasses
  <2>1. now' \in 1 .. MaxTime /\ UNCHANGED <<job, runs, edit, edits>>
    BY <1>1, JobFields, JobAssumption DEF TimePasses, JobInv
  <2>2. TypeOK' /\ Existing' /\ Plans' = Plans
    BY <2>1 DEF JobInv, TypeOK, Existing, Plan, Plans
  <2>3. QED
    BY <2>1, <2>2, PlansStep
<1>2. CASE \E t \in Timings : CreateScheduledAgentJob(t)
  BY <1>2, CreateKeeps
<1>3. CASE \E e \in Editor : Update(e)
  BY <1>3, ReadKeeps, WriteKeeps DEF Update
<1>4. CASE \E status \in {"active", "paused"} : SetReminderStatus(status)
  BY <1>4, ReminderKeeps
<1>5. CASE AccountCloses
  BY <1>5, CloseKeeps
<1>6. CASE Materialize
  BY <1>6, MaterializeKeeps
<1>7. CASE UNCHANGED vars
  <2>1. UNCHANGED <<now, job, runs, edit, edits>>
    BY <1>7 DEF vars
  <2>2. TypeOK' /\ Existing' /\ Plans' = Plans
    BY <2>1 DEF JobInv, TypeOK, Existing, Plan, Plans
  <2>3. QED
    BY <2>1, <2>2, PlansStep
<1>8. QED
  BY <1>1, <1>2, <1>3, <1>4, <1>5, <1>6, <1>7 DEF Next

-----------------------------------------------------------------------------
\* The invariant, for jobs whose timings are steady.
THEOREM JobInvariant == ASSUME SteadyTimings PROVE Spec => []JobInv
<1>1. JobInv /\ [Next]_vars => JobInv'
  BY NextJobInv
<1>2. QED
  BY <1>1, InitiallyJobInv, PTL DEF Spec

\* Type correctness, in particular: a next run is after the epoch, and a row and an edit
\* in flight always have a timing.
THEOREM TypeCorrect == ASSUME SteadyTimings PROVE Spec => []TypeOK
<1>1. JobInv => TypeOK
  BY DEF JobInv
<1>2. QED
  BY <1>1, JobInvariant, PTL

\* computeNextRun and computeLatestRun find the first occurrence after and the last one
\* up to every instant, none skipped and none twice, for all first instants, periods,
\* weekdays, offsets and lengths of the day and the week.
THEOREM TimingIsRight == ASSUME SteadyTimings PROVE Spec => []TimingMeetsReference
<1>1. JobInv => TimingMeetsReference
  <2> SUFFICES ASSUME JobInv, NEW t \in Timings, NEW at \in now .. now + WeekLen * DayLen
               PROVE  /\ IsNext(t, at, NextRun(t, at))
                      /\ IsLatest(t, at, LatestRun(t, at))
                      /\ LatestRun(t, at) # Never => IsOnce(t, LatestRun(t, at))
    BY DEF TimingMeetsReference
  <2>1. at \in Int /\ Steady(t)
    BY DEF SteadyTimings
  <2>2. QED
    BY <2>1, SteadyMeetsReference
<1>2. QED
  BY <1>1, JobInvariant, PTL

\* However late the ticks and whatever stale plan an edit writes back, a catch_up job has
\* a run for every occurrence from its planning to its next run.
THEOREM NothingIsLost == ASSUME SteadyTimings PROVE Spec => []CatchUpLosesNothing
<1>1. JobInv => CatchUpLosesNothing
  <2> SUFFICES ASSUME JobInv, job.status = "active", job.policy = "catch_up",
                      job.plan.next # Never, NEW o \in Occurrences(job.plan.timing, now),
                      \A at \in o : job.plan.since < at /\ at < job.plan.next
               PROVE  \E at \in o : at \in DOMAIN runs /\ runs[at] > 0
    BY DEF CatchUpLosesNothing
  <2>1. job.plan.timing \in Timings /\ now \in Int
    BY JobFields DEF JobInv
  <2>2. PICK a \in o : a \in Int /\ Occurs(job.plan.timing, a)
    BY <2>1, Window DEF SteadyTimings
  <2>3. Complete(job.plan)
    BY DEF JobInv, Plans
  <2>4. Ran(a)
    BY <2>2, <2>3 DEF Complete
  <2>5. DOMAIN runs = 1 .. MaxTime
    BY DEF JobInv, TypeOK
  <2>6. QED
    BY <2>2, <2>4, <2>5 DEF Ran
<1>2. QED
  BY <1>1, JobInvariant, PTL

\* A tick runs no occurrence early, none from before the planning, and only what is one
\* of the timing that the job has by then, whichever stale plan an edit wrote back.
THEOREM NothingRunsAmiss == ASSUME SteadyTimings PROVE Spec => RunsAreOnSchedule
<1> DEFINE OnSchedule ==
        \A at \in 1 .. MaxTime :
            runs'[at] > runs[at] =>
                /\ job.plan.since < at /\ at <= now
                /\ \E o \in Occurrences(job.plan.timing, at) : at \in o
<1>1. JobInv /\ [Next]_vars => OnSchedule
  <2> SUFFICES ASSUME JobInv, [Next]_vars, NEW at \in 1 .. MaxTime, runs'[at] > runs[at]
               PROVE  /\ job.plan.since < at /\ at <= now
                      /\ \E o \in Occurrences(job.plan.timing, at) : at \in o
    OBVIOUS
  <2> DEFINE t == job.plan.timing
             taken == ScheduledFor(t)
  <2>1. runs[at] \in Nat
    BY DEF JobInv, TypeOK
  <2>2. Materialize
    <3>1. runs' # runs
      BY <2>1
    <3>2. QED
      BY <3>1 DEF Next, vars, TimePasses, CreateScheduledAgentJob, Update, ReadsForUpdate,
         WritesUpdate, SetReminderStatus, AccountCloses
  <2>3. Due /\ runs' = [runs EXCEPT ![taken] = 1]
    BY <2>2 DEF Materialize, Inserted
  <2>4. /\ Steady(t) /\ taken \in Int /\ job.plan.next <= taken /\ taken <= now
        /\ Occurs(t, taken) /\ job.plan.next \in Int
    BY <2>3, TickTakes
  <2>5. job.plan.next # Never /\ job.plan.since < job.plan.next /\ job.plan.since \in Nat
    BY <2>3, JobFields, PlanFields DEF JobInv, Due, Plans, WellPlanned
  <2>6. at = taken
    <3> HIDE DEF taken
    <3>1. QED
      BY <2>1, <2>3 DEF JobInv, TypeOK
  <2>7. \E o \in Occurrences(t, at) : at \in o
    BY <2>4, <2>6, OccurrencesHold
  <2> HIDE DEF t, taken
  <2>8. job.plan.since < at /\ at <= now
    BY <2>4, <2>5, <2>6
  <2>9. QED
    BY <2>7, <2>8 DEF t
<1>2. JobInv /\ [Next]_vars => [OnSchedule]_vars
  BY <1>1
<1> HIDE DEF OnSchedule
<1>3. []JobInv /\ [][Next]_vars => [][OnSchedule]_vars
  BY <1>2, PTL
<1>4. QED
  BY <1>3, JobInvariant DEF RunsAreOnSchedule, OnSchedule, Spec

\* A tick of a run_latest job runs the latest occurrence, however many were missed, and
\* leaves nothing due.
THEOREM LatestIsCaughtUp == ASSUME SteadyTimings PROVE Spec => RunLatestCatchesUp
<1> DEFINE CatchesUp ==
        job.policy = "run_latest" /\ Materialize =>
            /\ job'.plan.next = Never \/ job'.plan.next > now
            /\ \E at \in 1 .. now : runs'[at] > 0 /\ IsLatest(job.plan.timing, now, at)
<1>1. JobInv => CatchesUp
  <2> SUFFICES ASSUME JobInv, job.policy = "run_latest", Materialize
               PROVE  /\ job'.plan.next = Never \/ job'.plan.next > now
                      /\ \E at \in 1 .. now : runs'[at] > 0 /\ IsLatest(job.plan.timing, now, at)
    OBVIOUS
  <2> DEFINE t == job.plan.timing
             at == ScheduledFor(t)
             m == NextRun(t, at)
  <2>1. Due /\ runs' = [runs EXCEPT ![at] = 1] /\ job'.plan.next = m
    BY JobFields, PlanFields DEF Materialize, Inserted, NextAfter, JobInv
  <2>2. /\ Steady(t) /\ at \in 1 .. MaxTime /\ at \in Int /\ at <= now
        /\ at = LatestRun(t, now) /\ at # Never
    BY <2>1, TickTakes
  <2>3. now \in Int
    BY JobFields DEF JobInv
  <2>4. IsLatest(t, now, at)
    BY <2>2, <2>3, SteadyMeetsReference
  <2>5. \A a \in Int : Occurs(t, a) /\ a <= now => a <= at
    BY <2>2, <2>3, LatestIsLast
  <2>6. m # Never => m \in Int /\ at < m /\ Occurs(t, m)
    BY <2>2, NextIsFirst
  <2> HIDE DEF t, at, m
  <2>7. m = Never \/ m > now
    BY <2>2, <2>3, <2>5, <2>6
  <2>8. at \in 1 .. now /\ runs'[at] > 0
    BY <2>1, <2>2, <2>3 DEF JobInv, TypeOK
  <2>9. QED
    BY <2>1, <2>4, <2>7, <2>8 DEF t
<1>2. JobInv => [CatchesUp]_vars
  BY <1>1
<1> HIDE DEF CatchesUp
<1>3. []JobInv => [][CatchesUp]_vars
  BY <1>2, PTL
<1>4. QED
  BY <1>3, JobInvariant DEF RunLatestCatchesUp, CatchesUp
=============================================================================
