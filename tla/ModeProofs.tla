----------------------------- MODULE ModeProofs -----------------------------
(* What the owners' commands and the schedule come to: the clock arithmetic *)
(* of Schedule, for a day of any number of ticks, and the properties of     *)
(* OperationMode, for any threads.                                          *)
EXTENDS OperationMode, TLAPS

-----------------------------------------------------------------------------
(* Days.                                                                   *)

\* The time of day is the remainder, whatever day it is of.
LEMMA TimeOfDay ==
    ASSUME NEW q \in Int, NEW x \in 0..(Day - 1)
    PROVE  TimeOf(q * Day + x) = x
  <1>. DEFINE a == q * Day + x
              p == a \div Day
              y == a % Day
  <1>1. /\ Day \in Nat /\ Day > 0 /\ a \in Int
        /\ p \in Int /\ y \in 0..(Day - 1) /\ a = Day * p + y
    BY DayAssumption
  <1>. HIDE DEF p, y
  <1>2. a = q * Day + x
    OBVIOUS
  <1>3. Day * p + y = Day * q + x
    BY <1>1, <1>2
  <1>. HIDE DEF a
  <1>4. ASSUME p >= q + 1
        PROVE  FALSE
    <2>1. Day * p >= Day * (q + 1)
      BY <1>1, <1>4
    <2>2. Day * (q + 1) = Day * q + Day
      BY <1>1
    <2>. QED
      BY <1>1, <1>3, <2>1, <2>2
  <1>5. ASSUME q >= p + 1
        PROVE  FALSE
    <2>1. Day * q >= Day * (p + 1)
      BY <1>1, <1>5
    <2>2. Day * (p + 1) = Day * p + Day
      BY <1>1
    <2>. QED
      BY <1>1, <1>3, <2>1, <2>2
  <1>6. p = q
    BY <1>1, <1>4, <1>5
  <1>7. y = x
    BY <1>1, <1>3, <1>6
  <1>. QED
    BY <1>7 DEF TimeOf, y, a

\* The day of a time, the one before it and the one after it.
LEMMA Days ==
    ASSUME NEW t \in Int
    PROVE  /\ Day \in Int /\ Day >= 1
           /\ Midnight(t) \in Int /\ Midnight(t) <= t /\ t < Midnight(t) + Day
           /\ TimeOf(t) = t - Midnight(t)
           /\ \A x \in 0..(Day - 1) : /\ TimeOf(Midnight(t) + x) = x
                                      /\ TimeOf(Midnight(t) + Day + x) = x
                                      /\ TimeOf(Midnight(t) - Day + x) = x
  <1>. DEFINE q == t \div Day
              y == t % Day
  <1>1. /\ Day \in Int /\ Day >= 1
        /\ q \in Int /\ y \in 0..(Day - 1) /\ t = Day * q + y
    BY DayAssumption
  <1>2. TimeOf(t) = y /\ Midnight(t) = t - y
    BY DEF TimeOf, Midnight
  <1>. HIDE DEF q, y
  <1>3. Midnight(t) = Day * q
    BY <1>1, <1>2
  <1>4. Day * q = q * Day /\ Day * q + Day = (q + 1) * Day /\ Day * q - Day = (q - 1) * Day
    BY <1>1
  <1>5. \A x \in 0..(Day - 1) : /\ TimeOf(q * Day + x) = x
                                /\ TimeOf((q + 1) * Day + x) = x
                                /\ TimeOf((q - 1) * Day + x) = x
    <2>1. q + 1 \in Int /\ q - 1 \in Int
      BY <1>1
    <2>2. \A p \in Int : \A x \in 0..(Day - 1) : TimeOf(p * Day + x) = x
      BY TimeOfDay
    <2>. QED
      BY <1>1, <2>1, <2>2
  <1>. DEFINE m == Midnight(t)
  <1>6. /\ m = q * Day /\ m + Day = (q + 1) * Day /\ m - Day = (q - 1) * Day
        /\ m \in Int
    BY <1>1, <1>2, <1>3, <1>4
  <1>. HIDE DEF m
  <1>7. \A x \in 0..(Day - 1) : /\ TimeOf(m + x) = x
                                /\ TimeOf(m + Day + x) = x
                                /\ TimeOf(m - Day + x) = x
    BY <1>5, <1>6
  <1>. QED
    BY <1>1, <1>2, <1>6, <1>7 DEF m

\* The time of day over three days.
LEMMA Clock ==
    ASSUME NEW t \in Int, NEW u \in Int,
           Midnight(t) - Day <= u, u < Midnight(t) + Day + Day
    PROVE  TimeOf(u) = IF u < Midnight(t) THEN u - Midnight(t) + Day
                       ELSE IF u < Midnight(t) + Day THEN u - Midnight(t)
                       ELSE u - Midnight(t) - Day
  <1>. DEFINE m == Midnight(t)
  <1>1. /\ Day \in Int /\ Day >= 1 /\ m \in Int
        /\ \A x \in 0..(Day - 1) : TimeOf(m + x) = x /\ TimeOf(m + Day + x) = x
                                   /\ TimeOf(m - Day + x) = x
    BY Days
  <1>. HIDE DEF m
  <1>2. CASE u < m
    <2>1. u - m + Day \in 0..(Day - 1) /\ m - Day + (u - m + Day) = u
      BY <1>1, <1>2 DEF m
    <2>. QED
      BY <1>1, <1>2, <2>1 DEF m
  <1>3. CASE m <= u /\ u < m + Day
    <2>1. u - m \in 0..(Day - 1) /\ m + (u - m) = u
      BY <1>1, <1>3
    <2>. QED
      BY <1>1, <1>3, <2>1 DEF m
  <1>4. CASE m + Day <= u
    <2>1. u - m - Day \in 0..(Day - 1) /\ m + Day + (u - m - Day) = u
      BY <1>1, <1>4 DEF m
    <2>. QED
      BY <1>1, <1>4, <2>1 DEF m
  <1>. QED
    BY <1>1, <1>2, <1>3, <1>4

-----------------------------------------------------------------------------
(* The next flip and the end of the window.                                *)

\* The boundary is the next time at which the schedule has an end.
LEMMA NextBoundaryIs ==
    ASSUME NEW s \in Schedules, NEW t \in Int
    PROVE  /\ NextBoundary(s, t) \in Int
           /\ NextBoundary(s, t) > t
           /\ NextBoundary(s, t) < Midnight(t) + Day + Day
           /\ TimeOf(NextBoundary(s, t)) \in {s.start, s.end}
           /\ \A u \in Int : u > t /\ TimeOf(u) \in {s.start, s.end} => NextBoundary(s, t) <= u
  <1>. DEFINE m == Midnight(t)
              a == s.start
              e == s.end
              S == {u \in {m + a, m + e, m + Day + a, m + Day + e} : u > t}
              b == NextBoundary(s, t)
  <1>1. /\ Day \in Int /\ Day >= 1 /\ m \in Int /\ m <= t /\ t < m + Day
        /\ a \in 0..(Day - 1) /\ e \in 0..(Day - 1)
    BY Days DEF Schedules
  <1>2. b = Earliest(S)
    BY DEF NextBoundary
  <1>. HIDE DEF m, a, e, b
  <1>3. m + Day + a \in S /\ S \subseteq Int
    BY <1>1
  <1>4. \E u \in S : \A v \in S : u <= v
    <2>1. CASE m + a > t /\ m + e > t
      <3>1. CASE a <= e
        BY <1>1, <2>1, <3>1
      <3>2. CASE e <= a
        BY <1>1, <2>1, <3>2
      <3>. QED
        BY <1>1, <3>1, <3>2
    <2>2. CASE m + a > t /\ ~(m + e > t)
      <3>1. m + a \in S /\ \A v \in S : m + a <= v
        BY <1>1, <2>2
      <3>. QED
        BY <3>1
    <2>3. CASE ~(m + a > t) /\ m + e > t
      BY <1>1, <2>3
    <2>4. CASE ~(m + a > t) /\ ~(m + e > t)
      <3>1. CASE a <= e
        BY <1>1, <2>4, <3>1
      <3>2. CASE e <= a
        BY <1>1, <2>4, <3>2
      <3>. QED
        BY <1>1, <3>1, <3>2
    <2>. QED
      BY <2>1, <2>2, <2>3, <2>4
  <1>5. b \in S /\ \A v \in S : b <= v
    BY <1>2, <1>4 DEF Earliest
  <1>6. TimeOf(b) \in {a, e}
    <2>1. \A x \in 0..(Day - 1) : TimeOf(m + x) = x /\ TimeOf(m + Day + x) = x
      BY Days DEF m
    <2>. QED
      BY <1>1, <1>5, <2>1
  <1>7. ASSUME NEW u \in Int, u > t, TimeOf(u) \in {a, e}
        PROVE  b <= u
    <2>1. CASE u < m + Day
      <3>1. TimeOf(u) = u - m
        BY <1>1, <1>7, <2>1, Clock DEF m
      <3>2. u \in S
        BY <1>1, <1>7, <3>1
      <3>. QED
        BY <1>5, <3>2
    <2>2. CASE m + Day <= u /\ u < m + Day + Day
      <3>1. TimeOf(u) = u - m - Day
        BY <1>1, <1>7, <2>2, Clock DEF m
      <3>2. u \in S
        BY <1>1, <1>7, <3>1
      <3>. QED
        BY <1>5, <3>2
    <2>3. CASE m + Day + Day <= u
      BY <1>1, <1>3, <1>5, <2>3
    <2>. QED
      BY <1>1, <2>1, <2>2, <2>3
  <1>8. b \in Int /\ b > t /\ b < m + Day + Day
    BY <1>1, <1>5
  <1>. QED
    BY <1>6, <1>7, <1>8 DEF a, e, m, b

\* The end of the window is the next time at which the schedule closes.
LEMMA NextWindowEndIs ==
    ASSUME NEW s \in Schedules, NEW t \in Int
    PROVE  /\ NextWindowEnd(s, t) \in Int
           /\ NextWindowEnd(s, t) > t
           /\ NextWindowEnd(s, t) < Midnight(t) + Day + Day
           /\ TimeOf(NextWindowEnd(s, t)) = s.end
           /\ \A u \in Int : u > t /\ TimeOf(u) = s.end => NextWindowEnd(s, t) <= u
  <1>. DEFINE m == Midnight(t)
              e == s.end
              w == NextWindowEnd(s, t)
  <1>1. /\ Day \in Int /\ Day >= 1 /\ m \in Int /\ m <= t /\ t < m + Day
        /\ e \in 0..(Day - 1)
        /\ TimeOf(m + e) = e /\ TimeOf(m + Day + e) = e
    BY Days DEF Schedules
  <1>2. w = IF m + e > t THEN m + e ELSE m + Day + e
    BY <1>1 DEF NextWindowEnd
  <1>. HIDE DEF m, e, w
  <1>3. ASSUME NEW u \in Int, u > t, TimeOf(u) = e
        PROVE  w <= u
    <2>1. CASE u < m + Day
      <3>1. TimeOf(u) = u - m
        BY <1>1, <1>3, <2>1, Clock DEF m
      <3>. QED
        BY <1>1, <1>2, <1>3, <3>1
    <2>2. CASE m + Day <= u /\ u < m + Day + Day
      <3>1. TimeOf(u) = u - m - Day
        BY <1>1, <1>3, <2>2, Clock DEF m
      <3>. QED
        BY <1>1, <1>2, <1>3, <3>1
    <2>3. CASE m + Day + Day <= u
      BY <1>1, <1>2, <2>3
    <2>. QED
      BY <1>1, <2>1, <2>2, <2>3
  <1>4. w \in Int /\ w > t /\ w < m + Day + Day
    BY <1>1, <1>2
  <1>. QED
    BY <1>1, <1>2, <1>3, <1>4 DEF m, e, w

\* A boundary stays the next one until it comes.
LEMMA BoundaryStays ==
    ASSUME NEW s \in Schedules, NEW t \in Int, NEW u \in Int, t <= u,
           u < NextBoundary(s, t)
    PROVE  NextBoundary(s, u) = NextBoundary(s, t)
  <1>1. NextBoundary(s, t) <= NextBoundary(s, u) /\ NextBoundary(s, u) <= NextBoundary(s, t)
    BY NextBoundaryIs
  <1>. QED
    BY <1>1, NextBoundaryIs

\* An override lasts as long as the schedule says the same, and a hold through
\* the window.
LEMMA BoundaryFlips ==
    ASSUME NEW s \in Schedules, NEW t \in Int
    PROVE  BoundaryIsNextFlip(s, t)
  <1>. DEFINE m == Midnight(t)
              a == s.start
              e == s.end
              b == NextBoundary(s, t)
              On(u) == ScheduleOn(s, u)
  <1>1. /\ Day \in Int /\ Day >= 1 /\ m \in Int /\ m <= t /\ t < m + Day
        /\ a \in 0..(Day - 1) /\ e \in 0..(Day - 1)
        /\ \A x \in 0..(Day - 1) : TimeOf(m + x) = x /\ TimeOf(m + Day + x) = x
    BY Days DEF Schedules
  <1>2. /\ b \in Int /\ b > t /\ b < m + Day + Day /\ TimeOf(b) \in {a, e}
        /\ \A u \in Int : u > t /\ TimeOf(u) \in {a, e} => b <= u
    BY NextBoundaryIs
  <1>3. \A u \in Int : m - Day <= u /\ u < m + Day + Day =>
          (On(u) <=> IF a <= e THEN a <= TimeOf(u) /\ TimeOf(u) < e
                     ELSE a <= TimeOf(u) \/ TimeOf(u) < e)
    BY DEF ScheduleOn
  <1>4. \A u \in Int : m - Day <= u /\ u < m + Day + Day =>
          TimeOf(u) = IF u < m THEN u - m + Day ELSE IF u < m + Day THEN u - m ELSE u - m - Day
    BY Clock
  <1>. HIDE DEF m, a, e, b, On
  <1>5. ASSUME a # e
        PROVE  (On(b) /\ ~On(b - 1)) \/ (~On(b) /\ On(b - 1))
    <2>1. b - 1 \in Int /\ m <= b - 1 /\ b - 1 < m + Day + Day
      BY <1>1, <1>2
    <2>2. TimeOf(b) = IF TimeOf(b - 1) = Day - 1 THEN 0 ELSE TimeOf(b - 1) + 1
      BY <1>1, <1>2, <1>4, <2>1
    <2>3. TimeOf(b - 1) \in 0..(Day - 1)
      BY <1>1, <1>4, <2>1
    <2>. QED
      BY <1>1, <1>2, <1>3, <1>5, <2>1, <2>2, <2>3
  <1>6. ASSUME a # e, NEW u \in (t + 1)..(b - 1)
        PROVE  On(u) = On(t)
    <2>1. /\ u \in Int /\ m <= u /\ u < m + Day + Day
          /\ TimeOf(u) = IF u < m + Day THEN u - m ELSE u - m - Day
          /\ TimeOf(t) = t - m
      BY <1>1, <1>2, <1>4
    <2>2. /\ m + a > t => m + a > u
          /\ m + e > t => m + e > u
          /\ m + Day + a > u /\ m + Day + e > u
      BY <1>1, <1>2
    <2>3. On(u) <=> On(t)
      BY <1>1, <1>3, <2>1, <2>2
    <2>4. On(u) \in BOOLEAN /\ On(t) \in BOOLEAN
      BY DEF On, ScheduleOn
    <2>. QED
      BY <2>3, <2>4
  <1>. QED
    BY <1>2, <1>5, <1>6 DEF BoundaryIsNextFlip, OpensAt, ClosesAt, a, e, b, On

LEMMA HoldCovers ==
    ASSUME NEW s \in Schedules, NEW t \in Int
    PROVE  HoldCoversWindow(s, t)
  <1>. DEFINE m == Midnight(t)
              a == s.start
              e == s.end
              w == NextWindowEnd(s, t)
              On(u) == ScheduleOn(s, u)
  <1>1. /\ Day \in Int /\ Day >= 1 /\ m \in Int /\ m <= t /\ t < m + Day
        /\ a \in 0..(Day - 1) /\ e \in 0..(Day - 1)
    BY Days DEF Schedules
  <1>2. /\ w \in Int /\ w > t /\ w < m + Day + Day /\ TimeOf(w) = e
        /\ \A u \in Int : u > t /\ TimeOf(u) = e => w <= u
    BY NextWindowEndIs
  <1>3. \A u \in Int : m - Day <= u /\ u < m + Day + Day =>
          (On(u) <=> IF a <= e THEN a <= TimeOf(u) /\ TimeOf(u) < e
                     ELSE a <= TimeOf(u) \/ TimeOf(u) < e)
    BY DEF ScheduleOn
  <1>4. \A u \in Int : m <= u /\ u < m + Day + Day =>
          /\ TimeOf(u) \in 0..(Day - 1)
          /\ u > t => TimeOf(u) = IF TimeOf(u - 1) = Day - 1 THEN 0 ELSE TimeOf(u - 1) + 1
    <2>1. \A u \in Int : m <= u /\ u < m + Day + Day =>
            TimeOf(u) = IF u < m + Day THEN u - m ELSE u - m - Day
      BY <1>1, Clock
    <2>. HIDE DEF m
    <2>. QED
      BY <1>1, <2>1
  <1>. HIDE DEF m, a, e, w, On
  <1>5. ASSUME a # e
        PROVE  ~On(w) /\ On(w - 1)
    <2>1. w - 1 \in Int /\ m <= w - 1 /\ w - 1 < m + Day + Day
      BY <1>1, <1>2
    <2>. QED
      BY <1>1, <1>2, <1>3, <1>4, <1>5, <2>1
  <1>6. ASSUME a # e, NEW u \in (t + 1)..(w - 1)
        PROVE  ~(~On(u) /\ On(u - 1))
    <2>1. /\ u \in Int /\ m <= u /\ u < m + Day + Day /\ u > t
          /\ u - 1 \in Int /\ m <= u - 1 /\ u - 1 < m + Day + Day
      BY <1>1, <1>2
    <2>2. TimeOf(u) # e
      BY <1>2, <2>1
    <2>. QED
      BY <1>1, <1>3, <1>4, <1>6, <2>1, <2>2
  <1>. QED
    BY <1>2, <1>5, <1>6 DEF HoldCoversWindow, ClosesAt, a, e, w, On

\* The day has its hours: what a schedule says over the day of a time and the
\* day before it.
LEMMA TwoDays ==
    ASSUME NEW s \in Schedules, NEW t \in Int, NEW u \in Int,
           Midnight(t) - Day <= u, u < Midnight(t) + Day
    PROVE  ScheduleOn(s, u) <=>
              LET m == IF u < Midnight(t) THEN Midnight(t) - Day ELSE Midnight(t)
              IN  IF s.start <= s.end THEN m + s.start <= u /\ u < m + s.end
                  ELSE m + s.start <= u \/ u < m + s.end
  <1>. DEFINE m == Midnight(t)
              a == s.start
              e == s.end
              x == TimeOf(u)
  <1>1. /\ Day \in Int /\ Day >= 1 /\ m \in Int /\ m <= t /\ t < m + Day
        /\ a \in 0..(Day - 1) /\ e \in 0..(Day - 1)
    BY Days DEF Schedules
  <1>2. x = IF u < m THEN u - m + Day ELSE u - m
    BY <1>1, Clock
  <1>3. ScheduleOn(s, u) <=> IF a <= e THEN a <= x /\ x < e ELSE a <= x \/ x < e
    BY DEF ScheduleOn
  <1>. HIDE DEF m, a, e, x
  <1>4. (IF a <= e THEN a <= x /\ x < e ELSE a <= x \/ x < e)
           <=> LET k == IF u < m THEN m - Day ELSE m
               IN  IF a <= e THEN k + a <= u /\ u < k + e ELSE k + a <= u \/ u < k + e
    BY <1>1, <1>2
  <1>. QED
    BY <1>3, <1>4 DEF m, a, e

\* The digest's date is the day the window that is on began.
LEMMA DigestIs ==
    ASSUME NEW s \in Schedules, NEW t \in Int
    PROVE  DigestIsPerWindow(s, t)
  <1>. DEFINE m == Midnight(t)
              a == s.start
              e == s.end
              D == DigestDate(s, t)
              On(u) == ScheduleOn(s, u)
  <1>1. /\ Day \in Int /\ Day >= 1 /\ m \in Int /\ m <= t /\ t < m + Day
        /\ a \in 0..(Day - 1) /\ e \in 0..(Day - 1) /\ TimeOf(t) = t - m
    BY Days DEF Schedules
  <1>2. \A u \in Int : m - Day <= u /\ u < m + Day =>
          (On(u) <=> LET k == IF u < m THEN m - Day ELSE m
                     IN  IF a <= e THEN k + a <= u /\ u < k + e ELSE k + a <= u \/ u < k + e)
    BY TwoDays
  <1>3. D = IF a <= e THEN {m : u \in {TimeOf(t)} \cap a..(e - 1)}
            ELSE IF TimeOf(t) >= a THEN {m}
            ELSE IF TimeOf(t) < e THEN {m - Day} ELSE {}
    BY DEF DigestDate
  <1>4. m % Day = 0 /\ (m - Day) % Day = 0
    <2>1. TimeOf(m + 0) = 0 /\ TimeOf(m - Day + 0) = 0
      BY Days, <1>1
    <2>. QED
      BY <1>1, <2>1 DEF TimeOf
  <1>. HIDE DEF m, a, e, D, On
  <1>5. /\ D # {} <=> On(t)
        /\ \A d \in D : IF a <= e \/ t - m >= a THEN d = m ELSE d = m - Day
    <2>1. CASE a <= e
      BY <1>1, <1>2, <1>3, <2>1
    <2>2. CASE ~(a <= e)
      BY <1>1, <1>2, <1>3, <2>2
    <2>. QED
      BY <2>1, <2>2
  <1>6. ASSUME NEW d \in D
        PROVE  /\ d <= t /\ d % Day = 0
               /\ On(d + a) /\ ~On((d + a) - 1)
               /\ \A u \in (d + a)..t : On(u)
    <2>1. On(t)
      BY <1>5
    <2>2. d \in Int /\ d <= t /\ d % Day = 0
      BY <1>1, <1>4, <1>5
    <2>3. On(d + a)
      BY <1>1, <1>2, <1>5, <2>1
    <2>4. ~On((d + a) - 1)
      <3>1. CASE a <= e
        <4>1. d = m /\ a < e
          BY <1>1, <1>2, <1>5, <2>1, <3>1
        <4>2. d + a - 1 \in Int /\ m - Day <= d + a - 1 /\ d + a - 1 < m + Day
          BY <1>1, <4>1
        <4>3. CASE a = 0
          BY <1>1, <1>2, <3>1, <4>1, <4>2, <4>3
        <4>4. CASE a > 0
          BY <1>1, <1>2, <3>1, <4>1, <4>2, <4>4
        <4>. QED
          BY <1>1, <4>3, <4>4
      <3>2. CASE ~(a <= e)
        <4>1. d = m \/ d = m - Day
          BY <1>5
        <4>2. d + a - 1 \in Int /\ m - Day <= d + a - 1 /\ d + a - 1 < m + Day
          BY <1>1, <3>2, <4>1
        <4>. QED
          BY <1>1, <1>2, <3>2, <4>1, <4>2
      <3>. QED
        BY <3>1, <3>2
    <2>5. ASSUME NEW u \in (d + a)..t
          PROVE  On(u)
      <3>1. u \in Int /\ m - Day <= u /\ u < m + Day
        BY <1>1, <1>5, <2>2
      <3>. QED
        BY <1>1, <1>2, <1>5, <2>1, <3>1
    <2>. QED
      BY <2>2, <2>3, <2>4, <2>5
  <1>. QED
    <2>1. DigestDate(s, t) # {} <=> ScheduleOn(s, t)
      BY <1>5 DEF D, On
    <2>2. ASSUME NEW d \in DigestDate(s, t)
          PROVE  /\ d <= t /\ d % Day = 0
                 /\ OpensAt(s, d + s.start)
                 /\ \A u \in (d + s.start)..t : ScheduleOn(s, u)
      <3>1. d \in D
        BY <2>2 DEF D
      <3>2. /\ d <= t /\ d % Day = 0
            /\ On(d + a) /\ ~On((d + a) - 1)
            /\ \A u \in (d + a)..t : On(u)
        BY <1>6, <3>1
      <3>3. ScheduleOn(s, d + s.start) /\ ~ScheduleOn(s, (d + s.start) - 1)
        BY <3>2 DEF On, a
      <3>4. OpensAt(s, d + s.start)
        BY <3>3 DEF OpensAt
      <3>5. \A u \in (d + s.start)..t : ScheduleOn(s, u)
        BY <3>2 DEF On, a
      <3>. QED
        BY <3>2, <3>4, <3>5
    <2>. QED
      BY <2>1, <2>2 DEF DigestIsPerWindow

\* compute_most_recent_schedule_window gives the window that opened last.
LEMMA RecentIs ==
    ASSUME NEW s \in Schedules, NEW t \in Int, s.start # s.end
    PROVE  LET w == RecentWindow(s, t)
           IN  /\ OpensAt(s, w[1]) /\ w[1] <= t
               /\ \A u \in (w[1] + 1)..t : ~OpensAt(s, u)
               /\ w[2] <= t
               /\ \A u \in w[1]..(w[2] - 1) : ScheduleOn(s, u)
               /\ w[2] < t => ClosesAt(s, w[2])
  <1>. DEFINE m == Midnight(t)
              a == s.start
              e == s.end
              w == RecentWindow(s, t)
              On(u) == ScheduleOn(s, u)
  <1>1. /\ Day \in Int /\ Day >= 1 /\ m \in Int /\ m <= t /\ t < m + Day
        /\ a \in 0..(Day - 1) /\ e \in 0..(Day - 1) /\ TimeOf(t) = t - m /\ a # e
    BY Days DEF Schedules
  <1>2. \A u \in Int : m - Day <= u /\ u < m + Day =>
          (On(u) <=> LET k == IF u < m THEN m - Day ELSE m
                     IN  IF a <= e THEN k + a <= u /\ u < k + e ELSE k + a <= u \/ u < k + e)
    BY TwoDays
  <1>3. w = IF a < e
            THEN IF TimeOf(t) < a THEN <<m - Day + a, m - Day + e>>
                 ELSE IF TimeOf(t) < e THEN <<m + a, t>>
                 ELSE <<m + a, m + e>>
            ELSE IF TimeOf(t) >= a THEN <<m + a, t>>
                 ELSE IF TimeOf(t) < e THEN <<m - Day + a, t>>
                 ELSE <<m - Day + a, m + e>>
    BY <1>1 DEF RecentWindow
  <1>. DEFINE f == w[1]
              l == w[2]
  <1>4. /\ f = IF t - m < a THEN m - Day + a ELSE m + a
        /\ l = IF a < e
               THEN IF t - m < a THEN m - Day + e ELSE IF t - m < e THEN t ELSE m + e
               ELSE IF t - m < a /\ ~(t - m < e) THEN m + e ELSE t
    <2>. HIDE DEF m, a, e, w
    <2>1. CASE a < e
      BY <1>1, <1>3, <2>1
    <2>2. CASE ~(a < e)
      BY <1>1, <1>3, <2>2
    <2>. QED
      BY <2>1, <2>2
  <1>. HIDE DEF m, a, e, w, On, f, l
  <1>5. f \in Int /\ l \in Int /\ f <= t /\ l <= t /\ m - Day + a <= f
    BY <1>1, <1>4
  <1>6. On(f) /\ ~On(f - 1)
    <2>1. On(f)
      BY <1>1, <1>2, <1>4, <1>5
    <2>2. CASE f = m
      <3>1. m - 1 \in Int /\ m - Day <= m - 1 /\ m - 1 < m /\ a = 0 /\ a < e
        BY <1>1, <1>4, <2>2
      <3>2. ~On(m - 1)
        BY <1>1, <1>2, <3>1
      <3>. QED
        BY <2>1, <2>2, <3>2
    <2>3. CASE f # m
      <3>1. f - 1 \in Int /\ m - Day <= f - 1 /\ f - 1 < m + Day
        BY <1>1, <1>4, <2>3
      <3>2. ~On(f - 1)
        <4>1. CASE a < e
          BY <1>1, <1>2, <1>4, <2>3, <3>1, <4>1
        <4>2. CASE e < a
          BY <1>1, <1>2, <1>4, <2>3, <3>1, <4>2
        <4>. QED
          BY <1>1, <4>1, <4>2
      <3>. QED
        BY <2>1, <3>2
    <2>. QED
      BY <2>2, <2>3
  <1>7. ASSUME NEW u \in (f + 1)..t
        PROVE  ~(On(u) /\ ~On(u - 1))
    <2>1. /\ u \in Int /\ m - Day <= u /\ u < m + Day
          /\ u - 1 \in Int /\ m - Day <= u - 1 /\ u - 1 < m + Day
          /\ f < u /\ u <= t
      BY <1>1, <1>5
    <2>2. CASE a < e
      BY <1>1, <1>2, <1>4, <2>1, <2>2
    <2>3. CASE e < a
      BY <1>1, <1>2, <1>4, <2>1, <2>3
    <2>. QED
      BY <1>1, <2>2, <2>3
  <1>8. ASSUME NEW u \in f..(l - 1)
        PROVE  On(u)
    <2>1. u \in Int /\ m - Day <= u /\ u < m + Day /\ f <= u /\ u < l
      BY <1>1, <1>5
    <2>2. CASE a < e
      BY <1>1, <1>2, <1>4, <2>1, <2>2
    <2>3. CASE e < a
      BY <1>1, <1>2, <1>4, <2>1, <2>3
    <2>. QED
      BY <1>1, <2>2, <2>3
  <1>9. ASSUME l < t
        PROVE  ~On(l) /\ On(l - 1)
    <2>1. /\ l \in Int /\ m - Day <= l /\ l < m + Day
          /\ l = m => a > e
      BY <1>1, <1>4, <1>9
    <2>2. ~On(l)
      BY <1>1, <1>2, <1>4, <1>9, <2>1
    <2>3. l - 1 \in Int /\ m - Day <= l - 1 /\ l - 1 < m + Day
      <3>1. CASE a < e
        BY <1>1, <1>4, <1>9, <3>1
      <3>2. CASE e < a
        BY <1>1, <1>4, <1>9, <3>2
      <3>. QED
        BY <1>1, <3>1, <3>2
    <2>4. On(l - 1)
      <3>1. CASE a < e
        BY <1>1, <1>2, <1>4, <1>9, <2>3, <3>1
      <3>2. CASE e < a
        BY <1>1, <1>2, <1>4, <1>9, <2>3, <3>2
      <3>. QED
        BY <1>1, <3>1, <3>2
    <2>. QED
      BY <2>2, <2>4
  <1>. QED
    BY <1>5, <1>6, <1>7, <1>8, <1>9 DEF OpensAt, ClosesAt, f, l, w, On

\* The owner's record is of the night that began last.
LEMMA RecordIs ==
    ASSUME NEW t \in Int
    PROVE  RecordIsLastWindow(t)
  BY RecentIs, NightAssumption DEF RecordIsLastWindow, RecordWindow

-----------------------------------------------------------------------------
(* The inductive invariant.                                                *)

ScheduleMode == IF ScheduleOn(schedule, now) THEN "on" ELSE "off"

\* The types, and what a thread has in hand by the time it writes.
HandsFull ==
    \A t \in Thread :
        /\ at[t] \in {"load", "unload", "set"} => seen[t].command # "none"
        /\ at[t] \in {"unload", "set"} => seen[t].time <= now

\* A row is the last order or no row.
RowsAreOrders ==
    /\ override \in {NoOverride, order.override}
    /\ hold \in {0, order.hold}

\* What has not expired ends with the schedule's next boundary.
EndsAreTimely ==
    /\ now < order.override.until => order.override.until = NextBoundary(schedule, now)
    /\ \A t \in Thread : at[t] = "decide" /\ now < seen[t].override.until =>
          seen[t].override.until = NextBoundary(schedule, now)

\* Nobody is about to take a fresh override away, unless it was given in a race.
OverrideIsSafe ==
    now < order.override.until /\ "override" \notin raced =>
        /\ override = order.override
        /\ \A t \in Thread :
              /\ at[t] \notin {"unmode", "unload"}
              /\ at[t] \in {"decide", "load"} /\ seen[t].override.mode # "none" =>
                    seen[t].override = order.override

\* The same of a fresh hold.
HoldIsSafe ==
    now < order.hold /\ "hold" \notin raced =>
        /\ hold = order.hold
        /\ \A t \in Thread :
              /\ at[t] \notin {"unhold", "retoggle"}
              /\ at[t] \in {"hold", "toggle"} /\ seen[t].hold # 0 => seen[t].hold = order.hold

\* A reader that goes by a hold, or past it, has seen its reason.
HoldSeen(r) ==
    /\ at[r] = "hold" =>
          /\ now < seen[r].hold => "paused" \in witness[r]
          /\ \/ "free" \in witness[r]
             \/ "raced" \in witness[r]
             \/ seen[r].hold # 0 /\ order.hold = seen[r].hold
    /\ at[r] \in {"unhold", "mode", "decide"} => "free" \in witness[r] \/ "raced" \in witness[r]

HoldWitnessed == \A r \in Reader : HoldSeen(r)

\* A reader with an override in hand has seen its reason, or the schedule's.
ModeSeen(r) ==
    at[r] = "decide" =>
        IF now < seen[r].override.until
        THEN seen[r].override.mode \in witness[r]
        ELSE ScheduleMode \in witness[r] \/ "raced" \in witness[r]

ModeWitnessed == \A r \in Reader : ModeSeen(r)

IInv ==
    /\ ModeTypeOK
    /\ HandsFull
    /\ RowsAreOrders
    /\ EndsAreTimely
    /\ OverrideIsSafe
    /\ HoldIsSafe
    /\ HoldWitnessed
    /\ ModeWitnessed
    /\ AnswerWasTrue

-----------------------------------------------------------------------------
(* What each step does to the hands of its thread, and to no other.        *)

Hands == [override : Overrides, hold : Nat, command : {"none", "on", "off"}, time : Nat]
Labels == {"idle", "done", "hold", "unhold", "mode", "unmode", "decide",
           "load", "unload", "set", "toggle", "retoggle", "pause", "resume"}

HandsStay == at' \in [Thread -> Labels] /\ seen' \in [Thread -> Hands]
Others(t) == \A u \in Thread \ {t} : at'[u] = at[u] /\ seen'[u] = seen[u]

LEMMA SeenIs ==
    ASSUME ModeTypeOK, NEW t \in Thread
    PROVE  /\ seen[t].override \in Overrides
           /\ seen[t].override.mode \in {"none", "on", "off"} /\ seen[t].override.until \in Nat
           /\ seen[t].hold \in Nat /\ seen[t].time \in Nat
           /\ seen[t].command \in {"none", "on", "off"}
  <1>1. seen[t] \in Hands
    BY DEF ModeTypeOK, Hands
  <1>2. \A o \in Overrides : o.mode \in {"none", "on", "off"} /\ o.until \in Nat
    BY DEF Overrides, NoOverride
  <1>. QED
    BY <1>1, <1>2 DEF Hands

\* An override without an end is no override.
LEMMA OverrideIs ==
    ASSUME NEW o \in Overrides
    PROVE  /\ o.mode \in {"none", "on", "off"} /\ o.until \in Nat
           /\ o.mode = "none" <=> o = NoOverride
           /\ o.until = 0 <=> o = NoOverride
  BY DEF Overrides, NoOverride

LEMMA AskHoldShape ==
    ASSUME ModeTypeOK, NEW r \in Reader, AskHold(r)
    PROVE  /\ at[r] = "idle" /\ at'[r] = "hold" /\ Others(r)
           /\ seen'[r].hold = hold
           /\ HandsStay
  <1>. DEFINE row == seen[r]
              after == [row EXCEPT !.hold = hold]
  <1>1. row \in Hands
    BY DEF ModeTypeOK, Thread, Hands
  <1>2. after.hold = hold
        /\ after \in Hands
    <2>. HIDE DEF row
    <2>. QED
      BY <1>1 DEF ModeTypeOK, Hands
  <1>3. seen' = [seen EXCEPT ![r] = after] /\ at' = [at EXCEPT ![r] = "hold"] /\ at[r] = "idle"
    BY DEF AskHold, Goto
  <1>. HIDE DEF after, row
  <1>. QED
    BY <1>2, <1>3 DEF ModeTypeOK, Thread, Others, HandsStay, Hands, Labels

LEMMA AskModeShape ==
    ASSUME ModeTypeOK, NEW r \in Reader, AskMode(r)
    PROVE  /\ at[r] = "mode" /\ at'[r] = "decide" /\ Others(r)
           /\ seen'[r].override = override
           /\ HandsStay
  <1>. DEFINE row == seen[r]
              after == [row EXCEPT !.override = override]
  <1>1. row \in Hands
    BY DEF ModeTypeOK, Thread, Hands
  <1>2. after.override = override
        /\ after \in Hands
    <2>. HIDE DEF row
    <2>. QED
      BY <1>1 DEF ModeTypeOK, Hands
  <1>3. seen' = [seen EXCEPT ![r] = after] /\ at' = [at EXCEPT ![r] = "decide"] /\ at[r] = "mode"
    BY DEF AskMode, Goto
  <1>. HIDE DEF after, row
  <1>. QED
    BY <1>2, <1>3 DEF ModeTypeOK, Thread, Others, HandsStay, Hands, Labels

LEMMA LoadShape ==
    ASSUME ModeTypeOK, NEW w \in Writer, LoadOverride(w)
    PROVE  /\ at[w] = "idle" /\ at'[w] = "load" /\ Others(w)
           /\ seen'[w].override = override /\ seen'[w].command # "none"
           /\ HandsStay
  <1>1. PICK mode \in {"on", "off"} :
            seen' = [seen EXCEPT ![w].override = override, ![w].command = mode]
    BY DEF LoadOverride
  <1>. DEFINE row == seen[w]
              mid == [row EXCEPT !.override = override]
              after == [mid EXCEPT !.command = mode]
  <1>2. row \in Hands
    BY DEF ModeTypeOK, Thread, Hands
  <1>3. mid.override = override
        /\ mid \in Hands
    <2>. HIDE DEF row
    <2>. QED
      BY <1>2 DEF ModeTypeOK, Hands
  <1>4. /\ after.override = override /\ after.command # "none"
        /\ after \in Hands
    <2>. HIDE DEF mid
    <2>. QED
      BY <1>3 DEF Hands
  <1>5. at' = [at EXCEPT ![w] = "load"] /\ at[w] = "idle"
    BY DEF LoadOverride, Goto
  <1>6. seen' = [seen EXCEPT ![w] = after]
    <2>1. seen \in [Thread -> Hands] /\ w \in Thread
      BY DEF ModeTypeOK, Thread, Hands
    <2>2. [seen EXCEPT ![w].override = override, ![w].command = mode]
             = [[seen EXCEPT ![w] = mid] EXCEPT ![w].command = mode]
      OBVIOUS
    <2>3. [seen EXCEPT ![w] = mid][w] = mid
      BY <2>1
    <2>. HIDE DEF mid
    <2>. QED
      BY <1>1, <2>1, <2>2, <2>3
  <1>. HIDE DEF after
  <1>. QED
    BY <1>4, <1>5, <1>6 DEF ModeTypeOK, Thread, Others, HandsStay, Hands, Labels

LEMMA LookShape ==
    ASSUME ModeTypeOK, NEW w \in Writer, LookAtClock(w)
    PROVE  /\ at[w] = "load" /\ Others(w)
           /\ at'[w] = IF Expired(seen[w].override, now) THEN "unload" ELSE "set"
           /\ seen'[w].time = now /\ seen'[w].command = seen[w].command
           /\ HandsStay
  <1>. DEFINE row == seen[w]
              after == [row EXCEPT !.time = now]
              label == IF Expired(seen[w].override, now) THEN "unload" ELSE "set"
  <1>1. row \in Hands
    BY DEF ModeTypeOK, Thread, Hands
  <1>2. after.time = now /\ after.command = row.command
        /\ after \in Hands
    <2>. HIDE DEF row
    <2>. QED
      BY <1>1 DEF ModeTypeOK, Hands
  <1>3. seen' = [seen EXCEPT ![w] = after] /\ at' = [at EXCEPT ![w] = label] /\ at[w] = "load"
    BY DEF LookAtClock, Goto
  <1>4. row = seen[w]
    OBVIOUS
  <1>. HIDE DEF after, row
  <1>. QED
    BY <1>2, <1>3, <1>4 DEF ModeTypeOK, Thread, Others, HandsStay, Hands, Labels

LEMMA ToggleShape ==
    ASSUME ModeTypeOK, NEW w \in Writer, AskToggle(w)
    PROVE  /\ at[w] = "idle" /\ at'[w] = "toggle" /\ Others(w)
           /\ seen'[w].hold = hold
           /\ HandsStay
  <1>. DEFINE row == seen[w]
              after == [row EXCEPT !.hold = hold]
  <1>1. row \in Hands
    BY DEF ModeTypeOK, Thread, Hands
  <1>2. after.hold = hold
        /\ after \in Hands
    <2>. HIDE DEF row
    <2>. QED
      BY <1>1 DEF ModeTypeOK, Hands
  <1>3. seen' = [seen EXCEPT ![w] = after] /\ at' = [at EXCEPT ![w] = "toggle"] /\ at[w] = "idle"
    BY DEF AskToggle, Goto
  <1>. HIDE DEF after, row
  <1>. QED
    BY <1>2, <1>3 DEF ModeTypeOK, Thread, Others, HandsStay, Hands, Labels

\* A step that only goes on, and a step that is done.
LEMMA GotoShape ==
    ASSUME ModeTypeOK, NEW t \in Thread, NEW label \in Labels, Goto(t, label), seen' = seen
    PROVE  at'[t] = label /\ seen'[t] = seen[t] /\ Others(t) /\ HandsStay
  BY DEF Goto, ModeTypeOK, Others, HandsStay, Hands, Labels

LEMMA DoneShape ==
    ASSUME ModeTypeOK, NEW t \in Thread, Done(t)
    PROVE  at'[t] \in {"idle", "done"} /\ seen'[t] = NothingSeen /\ Others(t) /\ HandsStay
  <1>1. NothingSeen \in Hands
    BY DEF NothingSeen, Hands, Overrides
  <1>. QED
    BY <1>1 DEF Done, Goto, ModeTypeOK, Others, HandsStay, Hands, Labels

-----------------------------------------------------------------------------
(* The types and the rows.                                                 *)

\* What a reader's witness gains in a step.
LEMMA WitnessShape ==
    ASSUME Observe, NEW r \in Reader
    PROVE  /\ at[r] = "idle" /\ at'[r] = "hold" => witness'[r] = Orders
           /\ at[r] \in {"hold", "unhold", "mode", "decide"} => witness'[r] = witness[r] \cup Orders'
  BY DEF Observe

\* The variables a step writes stay in their types, apart from the witness.
TypesButWitness ==
    /\ schedule \in Schedules
    /\ now \in Nat
    /\ override \in Overrides
    /\ hold \in Nat
    /\ at \in [Thread -> Labels]
    /\ seen \in [Thread -> Hands]
    /\ answer \in [Reader -> {"none", "on", "off", "paused"}]
    /\ order \in [override : Overrides, hold : Nat]
    /\ raced \subseteq {"override", "hold"}

\* What the orders say.
OrdersSay ==
    /\ Orders \subseteq {"on", "off", "free", "paused", "raced"}
    /\ ~(now < order.hold) => "free" \in Orders
    /\ now < order.hold => "paused" \in Orders
    /\ raced # {} => "raced" \in Orders
    /\ now < order.override.until => order.override.mode \in Orders
    /\ ~(now < order.override.until) => ScheduleMode \in Orders

LEMMA OrdersAre == TypesButWitness => OrdersSay
  <1>. SUFFICES ASSUME TypesButWitness
                PROVE  OrdersSay
    OBVIOUS
  <1>1. order.override \in Overrides /\ now \in Nat
    BY DEF TypesButWitness
  <1>. DEFINE o == order.override
  <1>2. now \in Nat /\ o.mode \in {"none", "on", "off"} /\ (o.until # 0 => o.mode # "none") /\ o.until \in Nat
    BY <1>1, OverrideIs DEF NoOverride
  <1>. HIDE DEF o
  <1>3. EffectiveMode(o, now) = IF now < o.until THEN o.mode ELSE ScheduleMode
    BY <1>2 DEF EffectiveMode, ScheduleMode
  <1>4. now < o.until => o.mode # "none"
    BY <1>2
  <1>5. EffectiveMode(o, now) \in {"on", "off"}
    BY <1>2, <1>3, <1>4 DEF ScheduleMode
  <1>. QED
    BY <1>3, <1>5 DEF Orders, OrdersSay, o

LEMMA ObserveTypes ==
    ASSUME ModeTypeOK, OrdersSay, OrdersSay', Observe
    PROVE  witness' \in [Reader -> SUBSET {"on", "off", "free", "paused", "raced"}]
  <1>. SUFFICES ASSUME NEW r \in Reader
                PROVE  (CASE at[r] = "idle" /\ at'[r] = "hold" -> Orders
                          [] at[r] \in {"hold", "unhold", "mode", "decide"} -> witness[r] \cup Orders'
                          [] OTHER -> {}) \subseteq {"on", "off", "free", "paused", "raced"}
    BY DEF Observe
  <1>1. witness[r] \subseteq {"on", "off", "free", "paused", "raced"}
    BY DEF ModeTypeOK
  <1>2. Orders \subseteq {"on", "off", "free", "paused", "raced"}
        /\ Orders' \subseteq {"on", "off", "free", "paused", "raced"}
    BY DEF OrdersSay
  <1>. QED
    BY <1>1, <1>2

LEMMA NothingIs == NoOverride \in Overrides /\ NothingSeen \in Hands
                   /\ NoAnswer \in [Reader -> {"none", "on", "off", "paused"}]
  BY DEF NothingSeen, Hands, Overrides, NoAnswer

\* The end of an override, or of a hold, is a time to come.
LEMMA EndsAhead ==
    ASSUME NEW s \in Schedules, NEW t \in Nat
    PROVE  NextBoundary(s, t) \in Nat \ {0} /\ NextWindowEnd(s, t) \in Nat \ {0}
           /\ NextBoundary(s, t) > t /\ NextWindowEnd(s, t) > t
  BY NextBoundaryIs, NextWindowEndIs

LEMMA ModeIs ==
    ASSUME ModeTypeOK, NEW o \in Overrides
    PROVE  /\ EffectiveMode(o, now) \in {"on", "off"}
           /\ EffectiveMode(o, now) = (IF now < o.until THEN o.mode ELSE ScheduleMode)
           /\ (Expired(o, now) <=> o.mode # "none" /\ ~(now < o.until))
  <1>1. o.mode \in {"none", "on", "off"} /\ o.until \in Nat /\ now \in Nat
        /\ (o.mode = "none" <=> o.until = 0)
    BY OverrideIs DEF ModeTypeOK
  <1>2. now < o.until => o.mode # "none"
    BY <1>1
  <1>. QED
    BY <1>1, <1>2 DEF EffectiveMode, ScheduleMode, Expired

LEMMA AnswerTypes ==
    ASSUME ModeTypeOK, NEW r \in Reader, Answer(r)
    PROVE  answer' \in [Reader -> {"none", "on", "off", "paused"}]
  <1>1. CASE AnswerPaused(r)
    BY <1>1, NothingIs DEF AnswerPaused
  <1>2. CASE DecideMode(r)
    <2>1. EffectiveMode(seen[r].override, now) \in {"on", "off"}
      BY SeenIs, ModeIs DEF Thread
    <2>. QED
      BY <1>2, <2>1, NothingIs DEF DecideMode
  <1>. QED
    BY <1>1, <1>2 DEF Answer

LEMMA AnswerShape ==
    ASSUME ModeTypeOK, NEW r \in Reader, Answer(r)
    PROVE  /\ at[r] \in {"hold", "decide"} /\ Others(r) /\ HandsStay
           /\ \/ at'[r] \in {"idle", "done"} /\ seen'[r] = NothingSeen
              \/ /\ at[r] = "decide" /\ at'[r] = "unmode"
                 /\ seen'[r] = seen[r] /\ Expired(seen[r].override, now)
           /\ at[r] = "hold" => now < seen[r].hold /\ answer' = [NoAnswer EXCEPT ![r] = "paused"]
           /\ at[r] = "decide" =>
                 answer' = [NoAnswer EXCEPT ![r] = EffectiveMode(seen[r].override, now)]
           /\ UNCHANGED <<schedule, now, override, hold, order, raced>>
  <1>. USE DEF rows, ghosts
  <1>1. CASE AnswerPaused(r)
    BY <1>1, DoneShape DEF AnswerPaused, Thread
  <1>2. CASE DecideMode(r)
    <2>1. at[r] = "decide"
      BY <1>2 DEF DecideMode
    <2>2. CASE Expired(seen[r].override, now)
      <3>1. Goto(r, "unmode") /\ seen' = seen
        BY <1>2, <2>2 DEF DecideMode
      <3>2. at'[r] = "unmode" /\ seen'[r] = seen[r] /\ Others(r) /\ HandsStay
        BY <3>1, GotoShape DEF Thread, Labels
      <3>. QED
        BY <1>2, <2>1, <2>2, <3>2 DEF DecideMode
    <2>3. CASE ~Expired(seen[r].override, now)
      <3>1. Done(r)
        BY <1>2, <2>3 DEF DecideMode
      <3>2. at'[r] \in {"idle", "done"} /\ seen'[r] = NothingSeen /\ Others(r) /\ HandsStay
        BY <3>1, DoneShape DEF Thread
      <3>. QED
        BY <1>2, <2>1, <3>2 DEF DecideMode
    <2>. QED
      BY <2>2, <2>3
  <1>. QED
    BY <1>1, <1>2 DEF Answer

\* The rest of the steps, in the same form.
LEMMA HoldIsOverShape ==
    ASSUME ModeTypeOK, NEW r \in Reader, HoldIsOver(r)
    PROVE  /\ at[r] = "hold" /\ ~(now < seen[r].hold) /\ Others(r) /\ HandsStay
           /\ seen'[r] = seen[r]
           /\ at'[r] = IF seen[r].hold = 0 THEN "mode" ELSE "unhold"
           /\ UNCHANGED <<schedule, now, override, hold, order, raced>>
  <1>. DEFINE label == IF seen[r].hold = 0 THEN "mode" ELSE "unhold"
  <1>1. Goto(r, label) /\ seen' = seen /\ label \in Labels
    BY DEF HoldIsOver, Labels
  <1>2. at'[r] = label /\ seen'[r] = seen[r] /\ Others(r) /\ HandsStay
    <2>. HIDE DEF label
    <2>. QED
      BY <1>1, GotoShape DEF Thread
  <1>3. seen[r].hold \in Nat /\ now \in Nat
    BY SeenIs DEF Thread, ModeTypeOK
  <1>. QED
    BY <1>2, <1>3 DEF HoldIsOver, rows, ghosts

LEMMA ClearHoldShape ==
    ASSUME ModeTypeOK, NEW r \in Reader, ClearHold(r)
    PROVE  /\ at[r] = "unhold" /\ at'[r] = "mode" /\ seen'[r] = seen[r] /\ Others(r) /\ HandsStay
           /\ hold' = 0
           /\ UNCHANGED <<schedule, now, override, order, raced>>
  BY GotoShape DEF ClearHold, ghosts, Thread, Labels

LEMMA ClearOverrideShape ==
    ASSUME ModeTypeOK, NEW r \in Reader, ClearOverride(r)
    PROVE  /\ at[r] = "unmode" /\ at'[r] \in {"idle", "done"} /\ seen'[r] = NothingSeen
           /\ Others(r) /\ HandsStay
           /\ override' = NoOverride
           /\ UNCHANGED <<schedule, now, hold, order, raced>>
  BY DoneShape DEF ClearOverride, ghosts, Thread

LEMMA CleanUpShape ==
    ASSUME ModeTypeOK, NEW w \in Writer, CleanUpFirst(w)
    PROVE  /\ at[w] = "unload" /\ at'[w] = "set" /\ seen'[w] = seen[w] /\ Others(w) /\ HandsStay
           /\ override' = NoOverride
           /\ UNCHANGED <<schedule, now, hold, order, raced>>
  BY GotoShape DEF CleanUpFirst, ghosts, Thread, Labels

LEMMA SetShape ==
    ASSUME ModeTypeOK, NEW w \in Writer, SetOverride(w)
    PROVE  /\ at[w] = "set" /\ at'[w] \in {"idle", "done"} /\ seen'[w] = NothingSeen
           /\ Others(w) /\ HandsStay
           /\ override' = [mode |-> seen[w].command, until |-> NextBoundary(schedule, seen[w].time)]
           /\ order' = [override |-> override', hold |-> order.hold]
           /\ raced' = IF LateClearsOverride(w) THEN raced \cup {"override"}
                       ELSE raced \ {"override"}
           /\ UNCHANGED <<schedule, now, hold>>
  <1>1. order' = [order EXCEPT !.override = override']
    BY DEF SetOverride
  <1>2. order' = [override |-> override', hold |-> order.hold]
    BY <1>1 DEF ModeTypeOK
  <1>. QED
    BY <1>2, DoneShape DEF SetOverride, Thread

LEMMA DecideToggleShape ==
    ASSUME ModeTypeOK, NEW w \in Writer, DecideToggle(w)
    PROVE  /\ at[w] = "toggle" /\ seen'[w] = seen[w] /\ Others(w) /\ HandsStay
           /\ at'[w] \in {"resume", "pause", "retoggle"}
           /\ at'[w] = "retoggle" => seen[w].hold # 0 /\ ~(now < seen[w].hold)
           /\ UNCHANGED <<schedule, now, override, hold, order, raced>>
  <1>. DEFINE label == IF now < seen[w].hold THEN "resume"
                       ELSE IF seen[w].hold = 0 THEN "pause" ELSE "retoggle"
  <1>1. /\ Goto(w, label) /\ seen' = seen
        /\ label \in {"resume", "pause", "retoggle"}
        /\ label = "retoggle" => seen[w].hold # 0 /\ ~(now < seen[w].hold)
    BY DEF DecideToggle
  <1>. HIDE DEF label
  <1>2. label \in Labels
    BY <1>1 DEF Labels
  <1>3. at'[w] = label /\ seen'[w] = seen[w] /\ Others(w) /\ HandsStay
    BY <1>1, <1>2, GotoShape DEF Thread
  <1>. QED
    BY <1>1, <1>3 DEF DecideToggle, rows, ghosts

LEMMA ClearOldShape ==
    ASSUME ModeTypeOK, NEW w \in Writer, ClearOldHold(w)
    PROVE  /\ at[w] = "retoggle" /\ at'[w] = "pause" /\ seen'[w] = seen[w]
           /\ Others(w) /\ HandsStay
           /\ hold' = 0
           /\ UNCHANGED <<schedule, now, override, order, raced>>
  BY GotoShape DEF ClearOldHold, ghosts, Thread, Labels

LEMMA ResumeShape ==
    ASSUME ModeTypeOK, NEW w \in Writer, Resume(w)
    PROVE  /\ at[w] = "resume" /\ at'[w] \in {"idle", "done"} /\ seen'[w] = NothingSeen
           /\ Others(w) /\ HandsStay
           /\ hold' = 0
           /\ order' = [override |-> order.override, hold |-> 0]
           /\ raced' = raced \ {"hold"}
           /\ UNCHANGED <<schedule, now, override>>
  <1>1. order' = [override |-> order.override, hold |-> 0]
    BY DEF Resume, ModeTypeOK
  <1>. QED
    BY <1>1, DoneShape DEF Resume, Thread

LEMMA PauseShape ==
    ASSUME ModeTypeOK, NEW w \in Writer, Pause(w)
    PROVE  /\ at[w] = "pause" /\ at'[w] \in {"idle", "done"} /\ seen'[w] = NothingSeen
           /\ Others(w) /\ HandsStay
           /\ hold' = NextWindowEnd(schedule, now)
           /\ order' = [override |-> order.override, hold |-> hold']
           /\ raced' = IF LateClearsHold(w) THEN raced \cup {"hold"} ELSE raced \ {"hold"}
           /\ UNCHANGED <<schedule, now, override>>
  <1>1. order' = [order EXCEPT !.hold = hold']
    BY DEF Pause
  <1>2. order' = [override |-> order.override, hold |-> hold']
    BY <1>1 DEF ModeTypeOK
  <1>. QED
    BY <1>2, DoneShape DEF Pause, Thread

\* The reads leave the rows and the orders as they are.
LEMMA ReadsAreQuiet ==
    ASSUME NEW t, AskHold(t) \/ AskMode(t) \/ LoadOverride(t) \/ LookAtClock(t) \/ AskToggle(t)
    PROVE  UNCHANGED <<schedule, now, override, hold, order, raced>>
  BY DEF AskHold, AskMode, LoadOverride, LookAtClock, AskToggle, rows, ghosts

\* The clock's step.
LEMMA TickShape ==
    ASSUME ModeTypeOK, Tick
    PROVE  /\ now' = now + 1 /\ HandsStay
           /\ UNCHANGED <<schedule, override, hold, at, seen, order, raced>>
  BY DEF Tick, rows, ghosts, ModeTypeOK, HandsStay, Hands, Labels

\* One step of one thread, or of the clock.
LEMMA Steps ==
    ASSUME Next
    PROVE  /\ Observe
           /\ \/ \E r \in Reader : Answer(r)
              \/ /\ answer' = NoAnswer
                 /\ \/ \E r \in Reader : \/ AskHold(r) \/ HoldIsOver(r) \/ ClearHold(r)
                                         \/ AskMode(r) \/ ClearOverride(r)
                    \/ \E w \in Writer : \/ LoadOverride(w) \/ LookAtClock(w) \/ CleanUpFirst(w)
                                         \/ SetOverride(w) \/ AskToggle(w) \/ DecideToggle(w)
                                         \/ ClearOldHold(w) \/ Resume(w) \/ Pause(w)
                    \/ Tick
  BY DEF Next, Read, Write

-----------------------------------------------------------------------------
(* Every step keeps the invariant.                                         *)

\* The rows, the orders and the hands stay what they are.
LEMMA TypesStep ==
    ASSUME ModeTypeOK, HandsFull, Next
    PROVE  TypesButWitness'
  <1>. USE DEF TypesButWitness
  <1>1. NoOverride \in Overrides /\ answer' \in [Reader -> {"none", "on", "off", "paused"}]
    BY Steps, AnswerTypes, NothingIs
  <1>2. /\ schedule \in Schedules /\ now \in Nat /\ override \in Overrides /\ hold \in Nat
        /\ order \in [override : Overrides, hold : Nat] /\ raced \subseteq {"override", "hold"}
    BY DEF ModeTypeOK
  <1>3. order.override \in Overrides /\ order.hold \in Nat
    BY <1>2
  <1>4. ASSUME HandsStay, UNCHANGED <<schedule, now, override, hold, order, raced>>
        PROVE  TypesButWitness'
    BY <1>1, <1>2, <1>4 DEF HandsStay
  <1>Answer. ASSUME NEW r \in Reader, Answer(r)
         PROVE  TypesButWitness'
    BY <1>Answer, <1>1, <1>2, AnswerShape DEF HandsStay
  <1>AskHold. ASSUME NEW r \in Reader, AskHold(r)
         PROVE  TypesButWitness'
    BY <1>AskHold, <1>4, AskHoldShape, ReadsAreQuiet
  <1>HoldIsOver. ASSUME NEW r \in Reader, HoldIsOver(r)
         PROVE  TypesButWitness'
    BY <1>HoldIsOver, <1>4, HoldIsOverShape
  <1>ClearHold. ASSUME NEW r \in Reader, ClearHold(r)
         PROVE  TypesButWitness'
    <2>1. /\ HandsStay /\ schedule' \in Schedules /\ now' \in Nat
          /\ override' \in Overrides /\ hold' \in Nat
      BY <1>ClearHold, <1>1, <1>2, ClearHoldShape
    <2>2. order' \in [override : Overrides, hold : Nat]
      BY <1>ClearHold, <1>2, <1>3, <2>1, ClearHoldShape
    <2>3. raced' \subseteq {"override", "hold"}
      BY <1>ClearHold, <1>2, ClearHoldShape
    <2>. QED
      BY <1>1, <2>1, <2>2, <2>3 DEF HandsStay
  <1>AskMode. ASSUME NEW r \in Reader, AskMode(r)
         PROVE  TypesButWitness'
    BY <1>AskMode, <1>4, AskModeShape, ReadsAreQuiet
  <1>ClearOverride. ASSUME NEW r \in Reader, ClearOverride(r)
         PROVE  TypesButWitness'
    BY <1>ClearOverride, <1>1, <1>2, ClearOverrideShape DEF HandsStay
  <1>LoadOverride. ASSUME NEW w \in Writer, LoadOverride(w)
         PROVE  TypesButWitness'
    BY <1>LoadOverride, <1>4, LoadShape, ReadsAreQuiet
  <1>LookAtClock. ASSUME NEW w \in Writer, LookAtClock(w)
         PROVE  TypesButWitness'
    BY <1>LookAtClock, <1>4, LookShape, ReadsAreQuiet
  <1>CleanUpFirst. ASSUME NEW w \in Writer, CleanUpFirst(w)
         PROVE  TypesButWitness'
    BY <1>CleanUpFirst, <1>1, <1>2, CleanUpShape DEF HandsStay
  <1>SetOverride. ASSUME NEW w \in Writer, SetOverride(w)
         PROVE  TypesButWitness'
    <2>. DEFINE o == [mode |-> seen[w].command, until |-> NextBoundary(schedule, seen[w].time)]
    <2>1. at[w] = "set" /\ w \in Thread
      BY <1>SetOverride, SetShape DEF Thread
    <2>2. seen[w].command \in {"on", "off"} /\ seen[w].time \in Nat
      BY <2>1, SeenIs DEF HandsFull
    <2>3. NextBoundary(schedule, seen[w].time) \in Nat \ {0}
      BY <1>2, <2>2, EndsAhead
    <2>4. o \in Overrides
      BY <2>2, <2>3 DEF Overrides
    <2>5. override' = o
      BY <1>SetOverride, SetShape
    <2>. HIDE DEF o
    <2>6. order' \in [override : Overrides, hold : Nat]
      BY <1>SetOverride, <1>2, <2>4, <2>5, SetShape
    <2>7. raced' \subseteq {"override", "hold"}
      BY <1>SetOverride, <1>2, SetShape
    <2>. QED
      BY <1>SetOverride, <1>1, <1>2, <2>4, <2>5, <2>6, <2>7, SetShape DEF HandsStay
  <1>AskToggle. ASSUME NEW w \in Writer, AskToggle(w)
         PROVE  TypesButWitness'
    BY <1>AskToggle, <1>4, ToggleShape, ReadsAreQuiet
  <1>DecideToggle. ASSUME NEW w \in Writer, DecideToggle(w)
         PROVE  TypesButWitness'
    BY <1>DecideToggle, <1>4, DecideToggleShape
  <1>ClearOldHold. ASSUME NEW w \in Writer, ClearOldHold(w)
         PROVE  TypesButWitness'
    <2>1. /\ HandsStay /\ schedule' \in Schedules /\ now' \in Nat
          /\ override' \in Overrides /\ hold' \in Nat
      BY <1>ClearOldHold, <1>1, <1>2, ClearOldShape
    <2>2. order' \in [override : Overrides, hold : Nat]
      BY <1>ClearOldHold, <1>2, <1>3, <2>1, ClearOldShape
    <2>3. raced' \subseteq {"override", "hold"}
      BY <1>ClearOldHold, <1>2, ClearOldShape
    <2>. QED
      BY <1>1, <2>1, <2>2, <2>3 DEF HandsStay
  <1>Resume. ASSUME NEW w \in Writer, Resume(w)
         PROVE  TypesButWitness'
    <2>1. /\ HandsStay /\ schedule' \in Schedules /\ now' \in Nat
          /\ override' \in Overrides /\ hold' \in Nat
      BY <1>Resume, <1>1, <1>2, ResumeShape
    <2>2. order' \in [override : Overrides, hold : Nat]
      BY <1>Resume, <1>2, <1>3, <2>1, ResumeShape
    <2>3. raced' \subseteq {"override", "hold"}
      BY <1>Resume, <1>2, ResumeShape
    <2>. QED
      BY <1>1, <2>1, <2>2, <2>3 DEF HandsStay
  <1>Pause. ASSUME NEW w \in Writer, Pause(w)
         PROVE  TypesButWitness'
    <2>1. /\ HandsStay /\ schedule' \in Schedules /\ now' \in Nat
          /\ override' \in Overrides /\ hold' \in Nat
      BY <1>Pause, <1>1, <1>2, PauseShape, EndsAhead
    <2>2. order' \in [override : Overrides, hold : Nat]
      BY <1>Pause, <1>2, <1>3, <2>1, PauseShape
    <2>3. raced' \subseteq {"override", "hold"}
      BY <1>Pause, <1>2, PauseShape
    <2>. QED
      BY <1>1, <2>1, <2>2, <2>3 DEF HandsStay
  <1>Tick. CASE Tick
    <2>1. /\ HandsStay /\ schedule' \in Schedules /\ now' \in Nat
          /\ override' \in Overrides /\ hold' \in Nat
      BY <1>Tick, <1>1, <1>2, TickShape
    <2>2. order' \in [override : Overrides, hold : Nat]
      BY <1>Tick, <1>2, <1>3, <2>1, TickShape
    <2>3. raced' \subseteq {"override", "hold"}
      BY <1>Tick, <1>2, TickShape
    <2>. QED
      BY <1>1, <2>1, <2>2, <2>3 DEF HandsStay
  <1>. QED
    BY Steps, <1>Answer, <1>AskHold, <1>HoldIsOver, <1>ClearHold, <1>AskMode,
       <1>ClearOverride, <1>LoadOverride, <1>LookAtClock, <1>CleanUpFirst,
       <1>SetOverride, <1>AskToggle, <1>DecideToggle, <1>ClearOldHold, <1>Resume,
       <1>Pause, <1>Tick

\* A thread that writes has its command, and its time is past.
LEMMA HandsStep ==
    ASSUME ModeTypeOK, HandsFull, Next
    PROVE  HandsFull'
  <1>1. now \in Nat /\ \A t \in Thread : seen[t].time \in Nat
    BY SeenIs DEF ModeTypeOK
  <1>Answer. ASSUME NEW r \in Reader, Answer(r)
         PROVE  HandsFull'
    BY <1>Answer, <1>1, AnswerShape DEF HandsFull, Others, Thread
  <1>AskHold. ASSUME NEW r \in Reader, AskHold(r)
         PROVE  HandsFull'
    BY <1>AskHold, <1>1, AskHoldShape, ReadsAreQuiet DEF HandsFull, Others, Thread
  <1>HoldIsOver. ASSUME NEW r \in Reader, HoldIsOver(r)
         PROVE  HandsFull'
    BY <1>HoldIsOver, <1>1, HoldIsOverShape DEF HandsFull, Others, Thread
  <1>ClearHold. ASSUME NEW r \in Reader, ClearHold(r)
         PROVE  HandsFull'
    BY <1>ClearHold, <1>1, ClearHoldShape DEF HandsFull, Others, Thread
  <1>AskMode. ASSUME NEW r \in Reader, AskMode(r)
         PROVE  HandsFull'
    BY <1>AskMode, <1>1, AskModeShape, ReadsAreQuiet DEF HandsFull, Others, Thread
  <1>ClearOverride. ASSUME NEW r \in Reader, ClearOverride(r)
         PROVE  HandsFull'
    BY <1>ClearOverride, <1>1, ClearOverrideShape DEF HandsFull, Others, Thread
  <1>LoadOverride. ASSUME NEW w \in Writer, LoadOverride(w)
         PROVE  HandsFull'
    BY <1>LoadOverride, <1>1, LoadShape, ReadsAreQuiet DEF HandsFull, Others, Thread
  <1>LookAtClock. ASSUME NEW w \in Writer, LookAtClock(w)
         PROVE  HandsFull'
    BY <1>LookAtClock, <1>1, LookShape, ReadsAreQuiet DEF HandsFull, Others, Thread
  <1>CleanUpFirst. ASSUME NEW w \in Writer, CleanUpFirst(w)
         PROVE  HandsFull'
    BY <1>CleanUpFirst, <1>1, CleanUpShape DEF HandsFull, Others, Thread
  <1>SetOverride. ASSUME NEW w \in Writer, SetOverride(w)
         PROVE  HandsFull'
    BY <1>SetOverride, <1>1, SetShape DEF HandsFull, Others, Thread
  <1>AskToggle. ASSUME NEW w \in Writer, AskToggle(w)
         PROVE  HandsFull'
    BY <1>AskToggle, <1>1, ToggleShape, ReadsAreQuiet DEF HandsFull, Others, Thread
  <1>DecideToggle. ASSUME NEW w \in Writer, DecideToggle(w)
         PROVE  HandsFull'
    BY <1>DecideToggle, <1>1, DecideToggleShape DEF HandsFull, Others, Thread
  <1>ClearOldHold. ASSUME NEW w \in Writer, ClearOldHold(w)
         PROVE  HandsFull'
    BY <1>ClearOldHold, <1>1, ClearOldShape DEF HandsFull, Others, Thread
  <1>Resume. ASSUME NEW w \in Writer, Resume(w)
         PROVE  HandsFull'
    BY <1>Resume, <1>1, ResumeShape DEF HandsFull, Others, Thread
  <1>Pause. ASSUME NEW w \in Writer, Pause(w)
         PROVE  HandsFull'
    BY <1>Pause, <1>1, PauseShape DEF HandsFull, Others, Thread
  <1>Tick. CASE Tick
    BY <1>Tick, <1>1, TickShape DEF HandsFull, Others, Thread
  <1>. QED
    BY Steps, <1>Answer, <1>AskHold, <1>HoldIsOver, <1>ClearHold, <1>AskMode,
       <1>ClearOverride, <1>LoadOverride, <1>LookAtClock, <1>CleanUpFirst,
       <1>SetOverride, <1>AskToggle, <1>DecideToggle, <1>ClearOldHold, <1>Resume,
       <1>Pause, <1>Tick

\* A row is the last order or nothing.
LEMMA RowsStep ==
    ASSUME ModeTypeOK, RowsAreOrders, Next
    PROVE  RowsAreOrders'
  <1>Answer. ASSUME NEW r \in Reader, Answer(r)
         PROVE  RowsAreOrders'
    BY <1>Answer, AnswerShape DEF RowsAreOrders
  <1>AskHold. ASSUME NEW r \in Reader, AskHold(r)
         PROVE  RowsAreOrders'
    BY <1>AskHold, AskHoldShape, ReadsAreQuiet DEF RowsAreOrders
  <1>HoldIsOver. ASSUME NEW r \in Reader, HoldIsOver(r)
         PROVE  RowsAreOrders'
    BY <1>HoldIsOver, HoldIsOverShape DEF RowsAreOrders
  <1>ClearHold. ASSUME NEW r \in Reader, ClearHold(r)
         PROVE  RowsAreOrders'
    BY <1>ClearHold, ClearHoldShape DEF RowsAreOrders
  <1>AskMode. ASSUME NEW r \in Reader, AskMode(r)
         PROVE  RowsAreOrders'
    BY <1>AskMode, AskModeShape, ReadsAreQuiet DEF RowsAreOrders
  <1>ClearOverride. ASSUME NEW r \in Reader, ClearOverride(r)
         PROVE  RowsAreOrders'
    BY <1>ClearOverride, ClearOverrideShape DEF RowsAreOrders
  <1>LoadOverride. ASSUME NEW w \in Writer, LoadOverride(w)
         PROVE  RowsAreOrders'
    BY <1>LoadOverride, LoadShape, ReadsAreQuiet DEF RowsAreOrders
  <1>LookAtClock. ASSUME NEW w \in Writer, LookAtClock(w)
         PROVE  RowsAreOrders'
    BY <1>LookAtClock, LookShape, ReadsAreQuiet DEF RowsAreOrders
  <1>CleanUpFirst. ASSUME NEW w \in Writer, CleanUpFirst(w)
         PROVE  RowsAreOrders'
    BY <1>CleanUpFirst, CleanUpShape DEF RowsAreOrders
  <1>SetOverride. ASSUME NEW w \in Writer, SetOverride(w)
         PROVE  RowsAreOrders'
    BY <1>SetOverride, SetShape DEF RowsAreOrders
  <1>AskToggle. ASSUME NEW w \in Writer, AskToggle(w)
         PROVE  RowsAreOrders'
    BY <1>AskToggle, ToggleShape, ReadsAreQuiet DEF RowsAreOrders
  <1>DecideToggle. ASSUME NEW w \in Writer, DecideToggle(w)
         PROVE  RowsAreOrders'
    BY <1>DecideToggle, DecideToggleShape DEF RowsAreOrders
  <1>ClearOldHold. ASSUME NEW w \in Writer, ClearOldHold(w)
         PROVE  RowsAreOrders'
    BY <1>ClearOldHold, ClearOldShape DEF RowsAreOrders
  <1>Resume. ASSUME NEW w \in Writer, Resume(w)
         PROVE  RowsAreOrders'
    BY <1>Resume, ResumeShape DEF RowsAreOrders
  <1>Pause. ASSUME NEW w \in Writer, Pause(w)
         PROVE  RowsAreOrders'
    BY <1>Pause, PauseShape DEF RowsAreOrders
  <1>Tick. CASE Tick
    BY <1>Tick, TickShape DEF RowsAreOrders
  <1>. QED
    BY Steps, <1>Answer, <1>AskHold, <1>HoldIsOver, <1>ClearHold, <1>AskMode,
       <1>ClearOverride, <1>LoadOverride, <1>LookAtClock, <1>CleanUpFirst,
       <1>SetOverride, <1>AskToggle, <1>DecideToggle, <1>ClearOldHold, <1>Resume,
       <1>Pause, <1>Tick

\* No end outlives the schedule's.
LEMMA EndsStep ==
    ASSUME ModeTypeOK, HandsFull, RowsAreOrders, EndsAreTimely, Next
    PROVE  EndsAreTimely'
  <1>1. /\ schedule \in Schedules /\ now \in Nat
        /\ order.override.until \in Nat /\ NoOverride.until = 0
        /\ \A t \in Thread : seen[t].override.until \in Nat /\ seen[t].time \in Nat
    <2>1. order.override \in Overrides
      BY DEF ModeTypeOK
    <2>. QED
      BY <2>1, SeenIs, OverrideIs DEF ModeTypeOK, NoOverride
  <1>2. \A t \in Nat : t <= now /\ now < NextBoundary(schedule, t) =>
            NextBoundary(schedule, now) = NextBoundary(schedule, t)
    BY <1>1, BoundaryStays
  <1>3. now + 1 < NextBoundary(schedule, now) =>
            NextBoundary(schedule, now + 1) = NextBoundary(schedule, now)
    BY <1>1, BoundaryStays
  <1>Answer. ASSUME NEW r \in Reader, Answer(r)
         PROVE  EndsAreTimely'
    BY <1>Answer, <1>1, AnswerShape DEF EndsAreTimely, Others, Thread
  <1>AskHold. ASSUME NEW r \in Reader, AskHold(r)
         PROVE  EndsAreTimely'
    BY <1>AskHold, <1>1, AskHoldShape, ReadsAreQuiet DEF EndsAreTimely, Others, Thread
  <1>HoldIsOver. ASSUME NEW r \in Reader, HoldIsOver(r)
         PROVE  EndsAreTimely'
    BY <1>HoldIsOver, <1>1, HoldIsOverShape DEF EndsAreTimely, Others, Thread
  <1>ClearHold. ASSUME NEW r \in Reader, ClearHold(r)
         PROVE  EndsAreTimely'
    BY <1>ClearHold, <1>1, ClearHoldShape DEF EndsAreTimely, Others, Thread
  <1>AskMode. ASSUME NEW r \in Reader, AskMode(r)
         PROVE  EndsAreTimely'
    BY <1>AskMode, <1>1, AskModeShape, ReadsAreQuiet DEF EndsAreTimely, RowsAreOrders, Others, Thread
  <1>ClearOverride. ASSUME NEW r \in Reader, ClearOverride(r)
         PROVE  EndsAreTimely'
    BY <1>ClearOverride, <1>1, ClearOverrideShape DEF EndsAreTimely, Others, Thread
  <1>LoadOverride. ASSUME NEW w \in Writer, LoadOverride(w)
         PROVE  EndsAreTimely'
    BY <1>LoadOverride, <1>1, LoadShape, ReadsAreQuiet DEF EndsAreTimely, Others, Thread
  <1>LookAtClock. ASSUME NEW w \in Writer, LookAtClock(w)
         PROVE  EndsAreTimely'
    BY <1>LookAtClock, <1>1, LookShape, ReadsAreQuiet DEF EndsAreTimely, Others, Thread
  <1>CleanUpFirst. ASSUME NEW w \in Writer, CleanUpFirst(w)
         PROVE  EndsAreTimely'
    BY <1>CleanUpFirst, <1>1, CleanUpShape DEF EndsAreTimely, Others, Thread
  <1>SetOverride. ASSUME NEW w \in Writer, SetOverride(w)
         PROVE  EndsAreTimely'
    <2>1. at[w] = "set" /\ w \in Thread
      BY <1>SetOverride, SetShape DEF Thread
    <2>2. seen[w].time \in Nat /\ seen[w].time <= now
      BY <1>1, <2>1 DEF HandsFull
    <2>. DEFINE b == NextBoundary(schedule, seen[w].time)
    <2>3. now < b => NextBoundary(schedule, now) = b
      BY <1>2, <2>2
    <2>4. order'.override.until = b /\ schedule' = schedule /\ now' = now
      BY <1>SetOverride, SetShape
    <2>. HIDE DEF b
    <2>5. now' < order'.override.until => order'.override.until = NextBoundary(schedule', now')
      BY <2>3, <2>4
    <2>6. ASSUME NEW t \in Thread, at'[t] = "decide", now' < seen'[t].override.until
          PROVE  seen'[t].override.until = NextBoundary(schedule', now')
      BY <1>SetOverride, <2>4, <2>6, SetShape DEF EndsAreTimely, Others, Thread
    <2>. QED
      BY <2>5, <2>6 DEF EndsAreTimely
  <1>AskToggle. ASSUME NEW w \in Writer, AskToggle(w)
         PROVE  EndsAreTimely'
    BY <1>AskToggle, <1>1, ToggleShape, ReadsAreQuiet DEF EndsAreTimely, Others, Thread
  <1>DecideToggle. ASSUME NEW w \in Writer, DecideToggle(w)
         PROVE  EndsAreTimely'
    BY <1>DecideToggle, <1>1, DecideToggleShape DEF EndsAreTimely, Others, Thread
  <1>ClearOldHold. ASSUME NEW w \in Writer, ClearOldHold(w)
         PROVE  EndsAreTimely'
    BY <1>ClearOldHold, <1>1, ClearOldShape DEF EndsAreTimely, Others, Thread
  <1>Resume. ASSUME NEW w \in Writer, Resume(w)
         PROVE  EndsAreTimely'
    BY <1>Resume, <1>1, ResumeShape DEF EndsAreTimely, Others, Thread
  <1>Pause. ASSUME NEW w \in Writer, Pause(w)
         PROVE  EndsAreTimely'
    BY <1>Pause, <1>1, PauseShape DEF EndsAreTimely, Others, Thread
  <1>Tick. CASE Tick
    <2>1. now' = now + 1 /\ UNCHANGED <<schedule, order, at, seen>>
      BY <1>Tick, TickShape
    <2>2. \A u \in Nat : now' < u /\ u = NextBoundary(schedule, now) => u = NextBoundary(schedule, now')
      BY <1>3, <2>1
    <2>3. \A u \in Nat : now' < u => now < u
      BY <1>1, <2>1
    <2>. QED
      BY <1>1, <2>1, <2>2, <2>3 DEF EndsAreTimely
  <1>. QED
    BY Steps, <1>Answer, <1>AskHold, <1>HoldIsOver, <1>ClearHold, <1>AskMode,
       <1>ClearOverride, <1>LoadOverride, <1>LookAtClock, <1>CleanUpFirst,
       <1>SetOverride, <1>AskToggle, <1>DecideToggle, <1>ClearOldHold, <1>Resume,
       <1>Pause, <1>Tick

\* Nobody gets to take a fresh override away.
LEMMA OverrideStep ==
    ASSUME ModeTypeOK, RowsAreOrders, OverrideIsSafe, Next
    PROVE  OverrideIsSafe'
  <1>1. /\ now \in Nat /\ order.override.until \in Nat
        /\ \A t \in Thread : seen[t].override.until \in Nat
    <2>1. order.override \in Overrides
      BY DEF ModeTypeOK
    <2>. QED
      BY <2>1, SeenIs, OverrideIs DEF ModeTypeOK
  <1>2. \A t \in Thread : Expired(seen[t].override, now) <=>
            seen[t].override.mode # "none" /\ ~(now < seen[t].override.until)
    BY SeenIs, ModeIs
  <1>Answer. ASSUME NEW r \in Reader, Answer(r)
         PROVE  OverrideIsSafe'
    <2>. SUFFICES ASSUME now < order.override.until, "override" \notin raced
                  PROVE  /\ override = order.override
                         /\ \A t \in Thread :
                               /\ at'[t] \notin {"unmode", "unload"}
                               /\ at'[t] \in {"decide", "load"} /\ seen'[t].override.mode # "none" =>
                                     seen'[t].override = order.override
      <3>1. UNCHANGED <<schedule, now, override, hold, order, raced>>
        BY <1>Answer, AnswerShape
      <3>. QED
        BY <3>1 DEF OverrideIsSafe
    <2>1. r \in Thread /\ Others(r) /\ at'[r] \in {"idle", "done", "unmode"}
      BY <1>Answer, AnswerShape DEF Thread
    <2>2. at'[r] # "unmode"
      <3>1. ASSUME at'[r] = "unmode"
            PROVE  at[r] = "decide" /\ seen[r].override.mode # "none" /\ ~(now < seen[r].override.until)
        BY <1>Answer, <1>2, <2>1, <3>1, AnswerShape DEF Thread
      <3>. QED
        BY <1>1, <2>1, <3>1 DEF OverrideIsSafe
    <2>. QED
      BY <2>1, <2>2 DEF OverrideIsSafe, Others
  <1>AskHold. ASSUME NEW r \in Reader, AskHold(r)
         PROVE  OverrideIsSafe'
    BY <1>AskHold, <1>1, <1>2, AskHoldShape, ReadsAreQuiet DEF OverrideIsSafe, Others, Thread
  <1>HoldIsOver. ASSUME NEW r \in Reader, HoldIsOver(r)
         PROVE  OverrideIsSafe'
    BY <1>HoldIsOver, <1>1, <1>2, HoldIsOverShape DEF OverrideIsSafe, Others, Thread
  <1>ClearHold. ASSUME NEW r \in Reader, ClearHold(r)
         PROVE  OverrideIsSafe'
    BY <1>ClearHold, <1>1, <1>2, ClearHoldShape DEF OverrideIsSafe, Others, Thread
  <1>AskMode. ASSUME NEW r \in Reader, AskMode(r)
         PROVE  OverrideIsSafe'
    BY <1>AskMode, <1>1, <1>2, AskModeShape, ReadsAreQuiet DEF OverrideIsSafe, Others, Thread
  <1>ClearOverride. ASSUME NEW r \in Reader, ClearOverride(r)
         PROVE  OverrideIsSafe'
    BY <1>ClearOverride, <1>1, <1>2, ClearOverrideShape DEF OverrideIsSafe, Others, Thread
  <1>LoadOverride. ASSUME NEW w \in Writer, LoadOverride(w)
         PROVE  OverrideIsSafe'
    BY <1>LoadOverride, <1>1, <1>2, LoadShape, ReadsAreQuiet DEF OverrideIsSafe, Others, Thread
  <1>LookAtClock. ASSUME NEW w \in Writer, LookAtClock(w)
         PROVE  OverrideIsSafe'
    BY <1>LookAtClock, <1>1, <1>2, LookShape, ReadsAreQuiet DEF OverrideIsSafe, Others, Thread
  <1>CleanUpFirst. ASSUME NEW w \in Writer, CleanUpFirst(w)
         PROVE  OverrideIsSafe'
    BY <1>CleanUpFirst, <1>1, <1>2, CleanUpShape DEF OverrideIsSafe, Others, Thread
  <1>SetOverride. ASSUME NEW w \in Writer, SetOverride(w)
         PROVE  OverrideIsSafe'
    <2>. SUFFICES ASSUME "override" \notin raced'
                  PROVE  /\ override' = order'.override
                         /\ \A t \in Thread :
                               /\ at'[t] \notin {"unmode", "unload"}
                               /\ at'[t] \in {"decide", "load"} /\ seen'[t].override.mode # "none" =>
                                     seen'[t].override = order'.override
      BY DEF OverrideIsSafe
    <2>1. override' = order'.override /\ at'[w] \in {"idle", "done"} /\ Others(w)
      BY <1>SetOverride, SetShape
    <2>2. ~LateClearsOverride(w)
      BY <1>SetOverride, SetShape
    <2>. QED
      BY <2>1, <2>2 DEF LateClearsOverride, Others
  <1>AskToggle. ASSUME NEW w \in Writer, AskToggle(w)
         PROVE  OverrideIsSafe'
    BY <1>AskToggle, <1>1, <1>2, ToggleShape, ReadsAreQuiet DEF OverrideIsSafe, Others, Thread
  <1>DecideToggle. ASSUME NEW w \in Writer, DecideToggle(w)
         PROVE  OverrideIsSafe'
    BY <1>DecideToggle, <1>1, <1>2, DecideToggleShape DEF OverrideIsSafe, Others, Thread
  <1>ClearOldHold. ASSUME NEW w \in Writer, ClearOldHold(w)
         PROVE  OverrideIsSafe'
    BY <1>ClearOldHold, <1>1, <1>2, ClearOldShape DEF OverrideIsSafe, Others, Thread
  <1>Resume. ASSUME NEW w \in Writer, Resume(w)
         PROVE  OverrideIsSafe'
    BY <1>Resume, <1>1, <1>2, ResumeShape DEF OverrideIsSafe, Others, Thread
  <1>Pause. ASSUME NEW w \in Writer, Pause(w)
         PROVE  OverrideIsSafe'
    BY <1>Pause, <1>1, <1>2, PauseShape DEF OverrideIsSafe, Others, Thread
  <1>Tick. CASE Tick
    <2>1. now' = now + 1 /\ UNCHANGED <<order, override, at, seen, raced>>
      BY <1>Tick, TickShape
    <2>2. now' < order'.override.until => now < order.override.until
      BY <1>1, <2>1
    <2>. QED
      BY <2>1, <2>2 DEF OverrideIsSafe
  <1>. QED
    BY Steps, <1>Answer, <1>AskHold, <1>HoldIsOver, <1>ClearHold, <1>AskMode,
       <1>ClearOverride, <1>LoadOverride, <1>LookAtClock, <1>CleanUpFirst,
       <1>SetOverride, <1>AskToggle, <1>DecideToggle, <1>ClearOldHold, <1>Resume,
       <1>Pause, <1>Tick

\* Nobody gets to take a fresh hold away.
LEMMA HoldStep ==
    ASSUME ModeTypeOK, RowsAreOrders, HoldIsSafe, Next
    PROVE  HoldIsSafe'
  <1>1. /\ now \in Nat /\ order.hold \in Nat
        /\ \A t \in Thread : seen[t].hold \in Nat
    BY SeenIs DEF ModeTypeOK
  <1>Answer. ASSUME NEW r \in Reader, Answer(r)
         PROVE  HoldIsSafe'
    BY <1>Answer, <1>1, AnswerShape DEF HoldIsSafe, Others, Thread
  <1>AskHold. ASSUME NEW r \in Reader, AskHold(r)
         PROVE  HoldIsSafe'
    BY <1>AskHold, <1>1, AskHoldShape, ReadsAreQuiet DEF HoldIsSafe, Others, Thread
  <1>HoldIsOver. ASSUME NEW r \in Reader, HoldIsOver(r)
         PROVE  HoldIsSafe'
    BY <1>HoldIsOver, <1>1, HoldIsOverShape DEF HoldIsSafe, Others, Thread
  <1>ClearHold. ASSUME NEW r \in Reader, ClearHold(r)
         PROVE  HoldIsSafe'
    BY <1>ClearHold, <1>1, ClearHoldShape DEF HoldIsSafe, Others, Thread
  <1>AskMode. ASSUME NEW r \in Reader, AskMode(r)
         PROVE  HoldIsSafe'
    BY <1>AskMode, <1>1, AskModeShape, ReadsAreQuiet DEF HoldIsSafe, Others, Thread
  <1>ClearOverride. ASSUME NEW r \in Reader, ClearOverride(r)
         PROVE  HoldIsSafe'
    BY <1>ClearOverride, <1>1, ClearOverrideShape DEF HoldIsSafe, Others, Thread
  <1>LoadOverride. ASSUME NEW w \in Writer, LoadOverride(w)
         PROVE  HoldIsSafe'
    BY <1>LoadOverride, <1>1, LoadShape, ReadsAreQuiet DEF HoldIsSafe, Others, Thread
  <1>LookAtClock. ASSUME NEW w \in Writer, LookAtClock(w)
         PROVE  HoldIsSafe'
    BY <1>LookAtClock, <1>1, LookShape, ReadsAreQuiet DEF HoldIsSafe, Others, Thread
  <1>CleanUpFirst. ASSUME NEW w \in Writer, CleanUpFirst(w)
         PROVE  HoldIsSafe'
    BY <1>CleanUpFirst, <1>1, CleanUpShape DEF HoldIsSafe, Others, Thread
  <1>SetOverride. ASSUME NEW w \in Writer, SetOverride(w)
         PROVE  HoldIsSafe'
    BY <1>SetOverride, <1>1, SetShape DEF HoldIsSafe, Others, Thread
  <1>AskToggle. ASSUME NEW w \in Writer, AskToggle(w)
         PROVE  HoldIsSafe'
    BY <1>AskToggle, <1>1, ToggleShape, ReadsAreQuiet DEF HoldIsSafe, Others, Thread
  <1>DecideToggle. ASSUME NEW w \in Writer, DecideToggle(w)
         PROVE  HoldIsSafe'
    BY <1>DecideToggle, <1>1, DecideToggleShape DEF HoldIsSafe, Others, Thread
  <1>ClearOldHold. ASSUME NEW w \in Writer, ClearOldHold(w)
         PROVE  HoldIsSafe'
    BY <1>ClearOldHold, <1>1, ClearOldShape DEF HoldIsSafe, Others, Thread
  <1>Resume. ASSUME NEW w \in Writer, Resume(w)
         PROVE  HoldIsSafe'
    BY <1>Resume, <1>1, ResumeShape DEF HoldIsSafe, Others, Thread
  <1>Pause. ASSUME NEW w \in Writer, Pause(w)
         PROVE  HoldIsSafe'
    <2>. SUFFICES ASSUME "hold" \notin raced'
                  PROVE  /\ hold' = order'.hold
                         /\ \A t \in Thread :
                               /\ at'[t] \notin {"unhold", "retoggle"}
                               /\ at'[t] \in {"hold", "toggle"} /\ seen'[t].hold # 0 =>
                                     seen'[t].hold = order'.hold
      BY DEF HoldIsSafe
    <2>1. hold' = order'.hold /\ at'[w] \in {"idle", "done"} /\ Others(w)
      BY <1>Pause, PauseShape
    <2>2. ~LateClearsHold(w)
      BY <1>Pause, PauseShape
    <2>. QED
      BY <2>1, <2>2 DEF LateClearsHold, Others
  <1>Tick. CASE Tick
    <2>1. now' = now + 1 /\ UNCHANGED <<order, hold, at, seen, raced>>
      BY <1>Tick, TickShape
    <2>2. now' < order'.hold => now < order.hold
      BY <1>1, <2>1
    <2>. QED
      BY <2>1, <2>2 DEF HoldIsSafe
  <1>. QED
    BY Steps, <1>Answer, <1>AskHold, <1>HoldIsOver, <1>ClearHold, <1>AskMode,
       <1>ClearOverride, <1>LoadOverride, <1>LookAtClock, <1>CleanUpFirst,
       <1>SetOverride, <1>AskToggle, <1>DecideToggle, <1>ClearOldHold, <1>Resume,
       <1>Pause, <1>Tick

\* A reader that goes by a hold, or past it, keeps its reason.
LEMMA HoldWitnessStep ==
    ASSUME ModeTypeOK, OrdersSay, OrdersSay', RowsAreOrders, HoldIsSafe, HoldWitnessed,
           Next
    PROVE  HoldWitnessed'
  <1>1. /\ now \in Nat /\ order.hold \in Nat /\ order.override.until \in Nat
        /\ \A x \in Reader : seen[x].hold \in Nat /\ seen[x].override.until \in Nat
    <2>1. order.override \in Overrides
      BY DEF ModeTypeOK
    <2>. QED
      BY <2>1, SeenIs, OverrideIs DEF ModeTypeOK, Thread
  <1>2. \A x \in Reader :
           /\ at[x] = "idle" /\ at'[x] = "hold" => witness'[x] = Orders
           /\ at[x] \in {"hold", "unhold", "mode", "decide"} => witness'[x] = witness[x] \cup Orders'
    BY Steps, WitnessShape
  <1>3. ASSUME NEW x \in Reader, at'[x] = at[x], seen'[x] = seen[x], now' \in Nat, now' >= now,
               at[x] = "hold" /\ seen[x].hold # 0 =>
                  order'.hold = order.hold \/ ~(now' < order'.hold) \/ raced' # {}
        PROVE  HoldSeen(x)'
    <2>1. now' < seen[x].hold => now < seen[x].hold
      BY <1>1, <1>3
    <2>2. ~(now' < order'.hold) => "free" \in Orders'
      BY DEF OrdersSay
    <2>3. raced' # {} => "raced" \in Orders'
      BY DEF OrdersSay
    <2>4. HoldSeen(x)
      BY DEF HoldWitnessed
    <2>. QED
      BY <1>2, <1>3, <2>1, <2>2, <2>3, <2>4 DEF HoldSeen
  <1>Answer. ASSUME NEW r \in Reader, Answer(r)
         PROVE  HoldWitnessed'
    <2>1. Others(r) /\ UNCHANGED <<now, order>> /\ r \in Thread
      BY <1>Answer, AnswerShape DEF Thread
    <2>2. ASSUME NEW x \in Reader \ {r}
          PROVE  HoldSeen(x)'
      BY <1>1, <1>3, <2>1 DEF Others, Thread
    <2>3. ASSUME r \in Reader
          PROVE  HoldSeen(r)'
      BY <1>Answer, AnswerShape DEF HoldSeen
    <2>. QED
      BY <2>2, <2>3 DEF HoldWitnessed
  <1>AskHold. ASSUME NEW r \in Reader, AskHold(r)
         PROVE  HoldWitnessed'
    <2>1. Others(r) /\ UNCHANGED <<now, order>> /\ r \in Thread
      BY <1>AskHold, AskHoldShape, ReadsAreQuiet DEF Thread
    <2>2. ASSUME NEW x \in Reader \ {r}
          PROVE  HoldSeen(x)'
      BY <1>1, <1>3, <2>1 DEF Others, Thread
    <2>3. ASSUME r \in Reader
          PROVE  HoldSeen(r)'
      <3>1. /\ at'[r] = "hold" /\ seen'[r].hold = hold /\ witness'[r] = Orders
            /\ UNCHANGED <<now, hold, order>>
        BY <1>AskHold, <1>2, AskHoldShape, ReadsAreQuiet
      <3>2. now < hold => hold = order.hold
        BY <1>1 DEF RowsAreOrders, ModeTypeOK
      <3>3. now < hold => "paused" \in Orders
        BY <3>2 DEF OrdersSay
      <3>4. hold = 0 => "free" \in Orders \/ "raced" \in Orders
        <4>1. hold = 0 /\ now < order.hold => raced # {}
          BY <1>1 DEF HoldIsSafe
        <4>. QED
          BY <4>1 DEF OrdersSay
      <3>5. hold # 0 => order.hold = hold
        BY DEF RowsAreOrders
      <3>. QED
        BY <3>1, <3>3, <3>4, <3>5 DEF HoldSeen
    <2>. QED
      BY <2>2, <2>3 DEF HoldWitnessed
  <1>HoldIsOver. ASSUME NEW r \in Reader, HoldIsOver(r)
         PROVE  HoldWitnessed'
    <2>1. Others(r) /\ UNCHANGED <<now, order>> /\ r \in Thread
      BY <1>HoldIsOver, HoldIsOverShape DEF Thread
    <2>2. ASSUME NEW x \in Reader \ {r}
          PROVE  HoldSeen(x)'
      BY <1>1, <1>3, <2>1 DEF Others, Thread
    <2>3. ASSUME r \in Reader
          PROVE  HoldSeen(r)'
      <3>1. /\ at[r] = "hold" /\ at'[r] \in {"mode", "unhold"} /\ ~(now < seen[r].hold)
            /\ witness'[r] = witness[r] \cup Orders' /\ UNCHANGED <<now, order>>
        BY <1>HoldIsOver, <1>2, HoldIsOverShape
      <3>2. order.hold = seen[r].hold => "free" \in Orders'
        BY <3>1 DEF OrdersSay
      <3>3. HoldSeen(r)
        BY DEF HoldWitnessed
      <3>. QED
        BY <3>1, <3>2, <3>3 DEF HoldSeen
    <2>. QED
      BY <2>2, <2>3 DEF HoldWitnessed
  <1>ClearHold. ASSUME NEW r \in Reader, ClearHold(r)
         PROVE  HoldWitnessed'
    <2>1. Others(r) /\ UNCHANGED <<now, order>> /\ r \in Thread
      BY <1>ClearHold, ClearHoldShape DEF Thread
    <2>2. ASSUME NEW x \in Reader \ {r}
          PROVE  HoldSeen(x)'
      BY <1>1, <1>3, <2>1 DEF Others, Thread
    <2>3. ASSUME r \in Reader
          PROVE  HoldSeen(r)'
      BY <1>ClearHold, <1>2, ClearHoldShape DEF HoldSeen, HoldWitnessed
    <2>. QED
      BY <2>2, <2>3 DEF HoldWitnessed
  <1>AskMode. ASSUME NEW r \in Reader, AskMode(r)
         PROVE  HoldWitnessed'
    <2>1. Others(r) /\ UNCHANGED <<now, order>> /\ r \in Thread
      BY <1>AskMode, AskModeShape, ReadsAreQuiet DEF Thread
    <2>2. ASSUME NEW x \in Reader \ {r}
          PROVE  HoldSeen(x)'
      BY <1>1, <1>3, <2>1 DEF Others, Thread
    <2>3. ASSUME r \in Reader
          PROVE  HoldSeen(r)'
      BY <1>AskMode, <1>2, AskModeShape, ReadsAreQuiet DEF HoldSeen, HoldWitnessed
    <2>. QED
      BY <2>2, <2>3 DEF HoldWitnessed
  <1>ClearOverride. ASSUME NEW r \in Reader, ClearOverride(r)
         PROVE  HoldWitnessed'
    <2>1. Others(r) /\ UNCHANGED <<now, order>> /\ r \in Thread
      BY <1>ClearOverride, ClearOverrideShape DEF Thread
    <2>2. ASSUME NEW x \in Reader \ {r}
          PROVE  HoldSeen(x)'
      BY <1>1, <1>3, <2>1 DEF Others, Thread
    <2>3. ASSUME r \in Reader
          PROVE  HoldSeen(r)'
      BY <1>ClearOverride, ClearOverrideShape DEF HoldSeen
    <2>. QED
      BY <2>2, <2>3 DEF HoldWitnessed
  <1>LoadOverride. ASSUME NEW w \in Writer, LoadOverride(w)
         PROVE  HoldWitnessed'
    <2>1. Others(w) /\ UNCHANGED <<now, order>> /\ w \in Thread
      BY <1>LoadOverride, LoadShape, ReadsAreQuiet DEF Thread
    <2>2. ASSUME NEW x \in Reader \ {w}
          PROVE  HoldSeen(x)'
      BY <1>1, <1>3, <2>1 DEF Others, Thread
    <2>3. ASSUME w \in Reader
          PROVE  HoldSeen(w)'
      BY <1>LoadOverride, LoadShape, ReadsAreQuiet DEF HoldSeen
    <2>. QED
      BY <2>2, <2>3 DEF HoldWitnessed
  <1>LookAtClock. ASSUME NEW w \in Writer, LookAtClock(w)
         PROVE  HoldWitnessed'
    <2>1. Others(w) /\ UNCHANGED <<now, order>> /\ w \in Thread
      BY <1>LookAtClock, LookShape, ReadsAreQuiet DEF Thread
    <2>2. ASSUME NEW x \in Reader \ {w}
          PROVE  HoldSeen(x)'
      BY <1>1, <1>3, <2>1 DEF Others, Thread
    <2>3. ASSUME w \in Reader
          PROVE  HoldSeen(w)'
      BY <1>LookAtClock, LookShape, ReadsAreQuiet DEF HoldSeen
    <2>. QED
      BY <2>2, <2>3 DEF HoldWitnessed
  <1>CleanUpFirst. ASSUME NEW w \in Writer, CleanUpFirst(w)
         PROVE  HoldWitnessed'
    <2>1. Others(w) /\ UNCHANGED <<now, order>> /\ w \in Thread
      BY <1>CleanUpFirst, CleanUpShape DEF Thread
    <2>2. ASSUME NEW x \in Reader \ {w}
          PROVE  HoldSeen(x)'
      BY <1>1, <1>3, <2>1 DEF Others, Thread
    <2>3. ASSUME w \in Reader
          PROVE  HoldSeen(w)'
      BY <1>CleanUpFirst, CleanUpShape DEF HoldSeen
    <2>. QED
      BY <2>2, <2>3 DEF HoldWitnessed
  <1>SetOverride. ASSUME NEW w \in Writer, SetOverride(w)
         PROVE  HoldWitnessed'
    <2>1. /\ Others(w) /\ UNCHANGED now /\ w \in Thread
          /\ order'.hold = order.hold \/ order'.hold = 0
      BY <1>SetOverride, SetShape DEF Thread
    <2>2. ASSUME NEW x \in Reader \ {w}
          PROVE  HoldSeen(x)'
      <3>1. order'.hold = order.hold \/ ~(now' < order'.hold)
        BY <1>1, <2>1
      <3>. QED
        BY <1>1, <1>3, <2>1, <3>1 DEF Others, Thread
    <2>3. ASSUME w \in Reader
          PROVE  HoldSeen(w)'
      BY <1>SetOverride, SetShape DEF HoldSeen
    <2>. QED
      BY <2>2, <2>3 DEF HoldWitnessed
  <1>AskToggle. ASSUME NEW w \in Writer, AskToggle(w)
         PROVE  HoldWitnessed'
    <2>1. Others(w) /\ UNCHANGED <<now, order>> /\ w \in Thread
      BY <1>AskToggle, ToggleShape, ReadsAreQuiet DEF Thread
    <2>2. ASSUME NEW x \in Reader \ {w}
          PROVE  HoldSeen(x)'
      BY <1>1, <1>3, <2>1 DEF Others, Thread
    <2>3. ASSUME w \in Reader
          PROVE  HoldSeen(w)'
      BY <1>AskToggle, ToggleShape, ReadsAreQuiet DEF HoldSeen
    <2>. QED
      BY <2>2, <2>3 DEF HoldWitnessed
  <1>DecideToggle. ASSUME NEW w \in Writer, DecideToggle(w)
         PROVE  HoldWitnessed'
    <2>1. Others(w) /\ UNCHANGED <<now, order>> /\ w \in Thread
      BY <1>DecideToggle, DecideToggleShape DEF Thread
    <2>2. ASSUME NEW x \in Reader \ {w}
          PROVE  HoldSeen(x)'
      BY <1>1, <1>3, <2>1 DEF Others, Thread
    <2>3. ASSUME w \in Reader
          PROVE  HoldSeen(w)'
      BY <1>DecideToggle, DecideToggleShape DEF HoldSeen
    <2>. QED
      BY <2>2, <2>3 DEF HoldWitnessed
  <1>ClearOldHold. ASSUME NEW w \in Writer, ClearOldHold(w)
         PROVE  HoldWitnessed'
    <2>1. Others(w) /\ UNCHANGED <<now, order>> /\ w \in Thread
      BY <1>ClearOldHold, ClearOldShape DEF Thread
    <2>2. ASSUME NEW x \in Reader \ {w}
          PROVE  HoldSeen(x)'
      BY <1>1, <1>3, <2>1 DEF Others, Thread
    <2>3. ASSUME w \in Reader
          PROVE  HoldSeen(w)'
      BY <1>ClearOldHold, ClearOldShape DEF HoldSeen
    <2>. QED
      BY <2>2, <2>3 DEF HoldWitnessed
  <1>Resume. ASSUME NEW w \in Writer, Resume(w)
         PROVE  HoldWitnessed'
    <2>1. /\ Others(w) /\ UNCHANGED now /\ w \in Thread
          /\ order'.hold = order.hold \/ order'.hold = 0
      BY <1>Resume, ResumeShape DEF Thread
    <2>2. ASSUME NEW x \in Reader \ {w}
          PROVE  HoldSeen(x)'
      <3>1. order'.hold = order.hold \/ ~(now' < order'.hold)
        BY <1>1, <2>1
      <3>. QED
        BY <1>1, <1>3, <2>1, <3>1 DEF Others, Thread
    <2>3. ASSUME w \in Reader
          PROVE  HoldSeen(w)'
      BY <1>Resume, ResumeShape DEF HoldSeen
    <2>. QED
      BY <2>2, <2>3 DEF HoldWitnessed
  <1>Pause. ASSUME NEW w \in Writer, Pause(w)
         PROVE  HoldWitnessed'
    <2>1. Others(w) /\ UNCHANGED now /\ w \in Thread
      BY <1>Pause, PauseShape DEF Thread
    <2>2. ASSUME NEW x \in Reader \ {w}
          PROVE  HoldSeen(x)'
      <3>1. ASSUME at[x] = "hold", seen[x].hold # 0
            PROVE  raced' # {}
        <4>1. LateClearsHold(w)
          BY <3>1 DEF LateClearsHold, Thread
        <4>2. raced' = raced \cup {"hold"}
          BY <1>Pause, <4>1, PauseShape
        <4>. QED
          BY <4>2
      <3>. QED
        BY <1>1, <1>3, <2>1, <3>1 DEF Others, Thread
    <2>3. ASSUME w \in Reader
          PROVE  HoldSeen(w)'
      BY <1>Pause, PauseShape DEF HoldSeen
    <2>. QED
      BY <2>2, <2>3 DEF HoldWitnessed
  <1>Tick. CASE Tick
    <2>1. now' = now + 1 /\ UNCHANGED <<order, at, seen>>
      BY <1>Tick, TickShape
    <2>2. now' \in Nat /\ now' >= now
      BY <1>1, <2>1
    <2>. QED
      BY <1>3, <2>1, <2>2 DEF HoldWitnessed
  <1>. QED
    BY Steps, <1>Answer, <1>AskHold, <1>HoldIsOver, <1>ClearHold, <1>AskMode,
       <1>ClearOverride, <1>LoadOverride, <1>LookAtClock, <1>CleanUpFirst,
       <1>SetOverride, <1>AskToggle, <1>DecideToggle, <1>ClearOldHold, <1>Resume,
       <1>Pause, <1>Tick

\* A reader with an override in hand keeps its reason.
LEMMA ModeWitnessStep ==
    ASSUME ModeTypeOK, OrdersSay, OrdersSay', RowsAreOrders, EndsAreTimely, OverrideIsSafe,
           ModeWitnessed, Next
    PROVE  ModeWitnessed'
  <1>1. /\ now \in Nat /\ order.hold \in Nat /\ order.override.until \in Nat
        /\ \A x \in Reader : seen[x].hold \in Nat /\ seen[x].override.until \in Nat
    <2>1. order.override \in Overrides
      BY DEF ModeTypeOK
    <2>. QED
      BY <2>1, SeenIs, OverrideIs DEF ModeTypeOK, Thread
  <1>2. \A x \in Reader :
           /\ at[x] = "idle" /\ at'[x] = "hold" => witness'[x] = Orders
           /\ at[x] \in {"hold", "unhold", "mode", "decide"} => witness'[x] = witness[x] \cup Orders'
    BY Steps, WitnessShape
  <1>3. ASSUME NEW x \in Reader, at'[x] = at[x], seen'[x] = seen[x], now' = now, schedule' = schedule
        PROVE  ModeSeen(x)'
    <2>1. ScheduleMode' = ScheduleMode
      BY <1>3 DEF ScheduleMode
    <2>2. ModeSeen(x)
      BY DEF ModeWitnessed
    <2>. QED
      BY <1>2, <1>3, <2>1, <2>2 DEF ModeSeen
  <1>Answer. ASSUME NEW r \in Reader, Answer(r)
         PROVE  ModeWitnessed'
    <2>1. Others(r) /\ UNCHANGED <<schedule, now>> /\ r \in Thread
      BY <1>Answer, AnswerShape DEF Thread
    <2>2. ASSUME NEW x \in Reader \ {r}
          PROVE  ModeSeen(x)'
      BY <1>3, <2>1 DEF Others, Thread
    <2>3. ASSUME r \in Reader
          PROVE  ModeSeen(r)'
      BY <1>Answer, AnswerShape DEF ModeSeen
    <2>. QED
      BY <2>2, <2>3 DEF ModeWitnessed
  <1>AskHold. ASSUME NEW r \in Reader, AskHold(r)
         PROVE  ModeWitnessed'
    <2>1. Others(r) /\ UNCHANGED <<schedule, now>> /\ r \in Thread
      BY <1>AskHold, AskHoldShape, ReadsAreQuiet DEF Thread
    <2>2. ASSUME NEW x \in Reader \ {r}
          PROVE  ModeSeen(x)'
      BY <1>3, <2>1 DEF Others, Thread
    <2>3. ASSUME r \in Reader
          PROVE  ModeSeen(r)'
      BY <1>AskHold, AskHoldShape, ReadsAreQuiet DEF ModeSeen
    <2>. QED
      BY <2>2, <2>3 DEF ModeWitnessed
  <1>HoldIsOver. ASSUME NEW r \in Reader, HoldIsOver(r)
         PROVE  ModeWitnessed'
    <2>1. Others(r) /\ UNCHANGED <<schedule, now>> /\ r \in Thread
      BY <1>HoldIsOver, HoldIsOverShape DEF Thread
    <2>2. ASSUME NEW x \in Reader \ {r}
          PROVE  ModeSeen(x)'
      BY <1>3, <2>1 DEF Others, Thread
    <2>3. ASSUME r \in Reader
          PROVE  ModeSeen(r)'
      BY <1>HoldIsOver, HoldIsOverShape DEF ModeSeen
    <2>. QED
      BY <2>2, <2>3 DEF ModeWitnessed
  <1>ClearHold. ASSUME NEW r \in Reader, ClearHold(r)
         PROVE  ModeWitnessed'
    <2>1. Others(r) /\ UNCHANGED <<schedule, now>> /\ r \in Thread
      BY <1>ClearHold, ClearHoldShape DEF Thread
    <2>2. ASSUME NEW x \in Reader \ {r}
          PROVE  ModeSeen(x)'
      BY <1>3, <2>1 DEF Others, Thread
    <2>3. ASSUME r \in Reader
          PROVE  ModeSeen(r)'
      BY <1>ClearHold, ClearHoldShape DEF ModeSeen
    <2>. QED
      BY <2>2, <2>3 DEF ModeWitnessed
  <1>AskMode. ASSUME NEW r \in Reader, AskMode(r)
         PROVE  ModeWitnessed'
    <2>1. Others(r) /\ UNCHANGED <<schedule, now>> /\ r \in Thread
      BY <1>AskMode, AskModeShape, ReadsAreQuiet DEF Thread
    <2>2. ASSUME NEW x \in Reader \ {r}
          PROVE  ModeSeen(x)'
      BY <1>3, <2>1 DEF Others, Thread
    <2>3. ASSUME r \in Reader
          PROVE  ModeSeen(r)'
      <3>1. /\ at'[r] = "decide" /\ seen'[r].override = override
            /\ witness'[r] = witness[r] \cup Orders'
            /\ UNCHANGED <<schedule, now, override, order, raced>>
        BY <1>AskMode, <1>2, AskModeShape, ReadsAreQuiet
      <3>2. ScheduleMode' = ScheduleMode
        BY <3>1 DEF ScheduleMode
      <3>3. CASE now < override.until
        <4>1. override = order.override
          BY <1>1, <3>3 DEF RowsAreOrders, NoOverride
        <4>2. override.mode \in Orders'
          BY <3>1, <3>3, <4>1 DEF OrdersSay
        <4>. QED
          BY <3>1, <3>3, <4>2 DEF ModeSeen
      <3>4. CASE ~(now < override.until)
        <4>1. override # order.override /\ now < order.override.until => raced # {}
          BY DEF OverrideIsSafe
        <4>2. ScheduleMode \in Orders' \/ "raced" \in Orders'
          BY <3>1, <3>2, <3>4, <4>1 DEF OrdersSay
        <4>. QED
          BY <3>1, <3>2, <3>4, <4>2 DEF ModeSeen
      <3>. QED
        BY <3>3, <3>4
    <2>. QED
      BY <2>2, <2>3 DEF ModeWitnessed
  <1>ClearOverride. ASSUME NEW r \in Reader, ClearOverride(r)
         PROVE  ModeWitnessed'
    <2>1. Others(r) /\ UNCHANGED <<schedule, now>> /\ r \in Thread
      BY <1>ClearOverride, ClearOverrideShape DEF Thread
    <2>2. ASSUME NEW x \in Reader \ {r}
          PROVE  ModeSeen(x)'
      BY <1>3, <2>1 DEF Others, Thread
    <2>3. ASSUME r \in Reader
          PROVE  ModeSeen(r)'
      BY <1>ClearOverride, ClearOverrideShape DEF ModeSeen
    <2>. QED
      BY <2>2, <2>3 DEF ModeWitnessed
  <1>LoadOverride. ASSUME NEW w \in Writer, LoadOverride(w)
         PROVE  ModeWitnessed'
    <2>1. Others(w) /\ UNCHANGED <<schedule, now>> /\ w \in Thread
      BY <1>LoadOverride, LoadShape, ReadsAreQuiet DEF Thread
    <2>2. ASSUME NEW x \in Reader \ {w}
          PROVE  ModeSeen(x)'
      BY <1>3, <2>1 DEF Others, Thread
    <2>3. ASSUME w \in Reader
          PROVE  ModeSeen(w)'
      BY <1>LoadOverride, LoadShape, ReadsAreQuiet DEF ModeSeen
    <2>. QED
      BY <2>2, <2>3 DEF ModeWitnessed
  <1>LookAtClock. ASSUME NEW w \in Writer, LookAtClock(w)
         PROVE  ModeWitnessed'
    <2>1. Others(w) /\ UNCHANGED <<schedule, now>> /\ w \in Thread
      BY <1>LookAtClock, LookShape, ReadsAreQuiet DEF Thread
    <2>2. ASSUME NEW x \in Reader \ {w}
          PROVE  ModeSeen(x)'
      BY <1>3, <2>1 DEF Others, Thread
    <2>3. ASSUME w \in Reader
          PROVE  ModeSeen(w)'
      BY <1>LookAtClock, LookShape, ReadsAreQuiet DEF ModeSeen
    <2>. QED
      BY <2>2, <2>3 DEF ModeWitnessed
  <1>CleanUpFirst. ASSUME NEW w \in Writer, CleanUpFirst(w)
         PROVE  ModeWitnessed'
    <2>1. Others(w) /\ UNCHANGED <<schedule, now>> /\ w \in Thread
      BY <1>CleanUpFirst, CleanUpShape DEF Thread
    <2>2. ASSUME NEW x \in Reader \ {w}
          PROVE  ModeSeen(x)'
      BY <1>3, <2>1 DEF Others, Thread
    <2>3. ASSUME w \in Reader
          PROVE  ModeSeen(w)'
      BY <1>CleanUpFirst, CleanUpShape DEF ModeSeen
    <2>. QED
      BY <2>2, <2>3 DEF ModeWitnessed
  <1>SetOverride. ASSUME NEW w \in Writer, SetOverride(w)
         PROVE  ModeWitnessed'
    <2>1. Others(w) /\ UNCHANGED <<schedule, now>> /\ w \in Thread
      BY <1>SetOverride, SetShape DEF Thread
    <2>2. ASSUME NEW x \in Reader \ {w}
          PROVE  ModeSeen(x)'
      BY <1>3, <2>1 DEF Others, Thread
    <2>3. ASSUME w \in Reader
          PROVE  ModeSeen(w)'
      BY <1>SetOverride, SetShape DEF ModeSeen
    <2>. QED
      BY <2>2, <2>3 DEF ModeWitnessed
  <1>AskToggle. ASSUME NEW w \in Writer, AskToggle(w)
         PROVE  ModeWitnessed'
    <2>1. Others(w) /\ UNCHANGED <<schedule, now>> /\ w \in Thread
      BY <1>AskToggle, ToggleShape, ReadsAreQuiet DEF Thread
    <2>2. ASSUME NEW x \in Reader \ {w}
          PROVE  ModeSeen(x)'
      BY <1>3, <2>1 DEF Others, Thread
    <2>3. ASSUME w \in Reader
          PROVE  ModeSeen(w)'
      BY <1>AskToggle, ToggleShape, ReadsAreQuiet DEF ModeSeen
    <2>. QED
      BY <2>2, <2>3 DEF ModeWitnessed
  <1>DecideToggle. ASSUME NEW w \in Writer, DecideToggle(w)
         PROVE  ModeWitnessed'
    <2>1. Others(w) /\ UNCHANGED <<schedule, now>> /\ w \in Thread
      BY <1>DecideToggle, DecideToggleShape DEF Thread
    <2>2. ASSUME NEW x \in Reader \ {w}
          PROVE  ModeSeen(x)'
      BY <1>3, <2>1 DEF Others, Thread
    <2>3. ASSUME w \in Reader
          PROVE  ModeSeen(w)'
      BY <1>DecideToggle, DecideToggleShape DEF ModeSeen
    <2>. QED
      BY <2>2, <2>3 DEF ModeWitnessed
  <1>ClearOldHold. ASSUME NEW w \in Writer, ClearOldHold(w)
         PROVE  ModeWitnessed'
    <2>1. Others(w) /\ UNCHANGED <<schedule, now>> /\ w \in Thread
      BY <1>ClearOldHold, ClearOldShape DEF Thread
    <2>2. ASSUME NEW x \in Reader \ {w}
          PROVE  ModeSeen(x)'
      BY <1>3, <2>1 DEF Others, Thread
    <2>3. ASSUME w \in Reader
          PROVE  ModeSeen(w)'
      BY <1>ClearOldHold, ClearOldShape DEF ModeSeen
    <2>. QED
      BY <2>2, <2>3 DEF ModeWitnessed
  <1>Resume. ASSUME NEW w \in Writer, Resume(w)
         PROVE  ModeWitnessed'
    <2>1. Others(w) /\ UNCHANGED <<schedule, now>> /\ w \in Thread
      BY <1>Resume, ResumeShape DEF Thread
    <2>2. ASSUME NEW x \in Reader \ {w}
          PROVE  ModeSeen(x)'
      BY <1>3, <2>1 DEF Others, Thread
    <2>3. ASSUME w \in Reader
          PROVE  ModeSeen(w)'
      BY <1>Resume, ResumeShape DEF ModeSeen
    <2>. QED
      BY <2>2, <2>3 DEF ModeWitnessed
  <1>Pause. ASSUME NEW w \in Writer, Pause(w)
         PROVE  ModeWitnessed'
    <2>1. Others(w) /\ UNCHANGED <<schedule, now>> /\ w \in Thread
      BY <1>Pause, PauseShape DEF Thread
    <2>2. ASSUME NEW x \in Reader \ {w}
          PROVE  ModeSeen(x)'
      BY <1>3, <2>1 DEF Others, Thread
    <2>3. ASSUME w \in Reader
          PROVE  ModeSeen(w)'
      BY <1>Pause, PauseShape DEF ModeSeen
    <2>. QED
      BY <2>2, <2>3 DEF ModeWitnessed
  <1>Tick. CASE Tick
    <2>. DEFINE b == NextBoundary(schedule, now)
    <2>1. now' = now + 1 /\ UNCHANGED <<schedule, order, at, seen>>
      BY <1>Tick, TickShape
    <2>2. b \in Int /\ b > now /\ schedule \in Schedules
      BY <1>1, NextBoundaryIs DEF ModeTypeOK
    <2>3. /\ now < order.override.until => order.override.until = b
          /\ \A t \in Reader : at[t] = "decide" /\ now < seen[t].override.until =>
                seen[t].override.until = b
      BY DEF EndsAreTimely, Thread
    <2>4. CASE b = now'
      <3>1. ~(now' < order'.override.until)
        BY <1>1, <2>1, <2>2, <2>3, <2>4
      <3>2. ScheduleMode' \in Orders'
        BY <3>1 DEF OrdersSay
      <3>3. ASSUME NEW x \in Reader
            PROVE  ModeSeen(x)'
        <4>1. at[x] = "decide" => ~(now' < seen[x].override.until)
          BY <1>1, <2>1, <2>2, <2>3, <2>4
        <4>. QED
          BY <1>2, <2>1, <3>2, <4>1 DEF ModeSeen
      <3>. QED
        BY <3>3 DEF ModeWitnessed
    <2>5. CASE b # now'
      <3>1. b > now'
        BY <1>1, <2>1, <2>2, <2>5
      <3>2. ScheduleOn(schedule, now') <=> ScheduleOn(schedule, now)
        <4>1. CASE schedule.start # schedule.end
          <5>1. \A u \in (now + 1)..(b - 1) : ScheduleOn(schedule, u) = ScheduleOn(schedule, now)
            BY <1>1, <2>2, <4>1, BoundaryFlips DEF BoundaryIsNextFlip
          <5>2. now' \in (now + 1)..(b - 1)
            BY <1>1, <2>1, <2>2, <3>1
          <5>. QED
            BY <5>1, <5>2
        <4>2. CASE schedule.start = schedule.end
          <5>1. \A u \in Int : ~ScheduleOn(schedule, u)
            <6>1. \A u \in Int : TimeOf(u) \in Int
              BY DayAssumption DEF TimeOf
            <6>2. schedule.start \in Int
              BY <2>2 DEF Schedules
            <6>. QED
              BY <4>2, <6>1, <6>2 DEF ScheduleOn
          <5>. QED
            BY <1>1, <2>1, <5>1
        <4>. QED
          BY <4>1, <4>2
      <3>3. ScheduleMode' = ScheduleMode
        BY <2>1, <3>2 DEF ScheduleMode
      <3>4. ASSUME NEW x \in Reader
            PROVE  ModeSeen(x)'
        <4>1. at[x] = "decide" => (now' < seen[x].override.until <=> now < seen[x].override.until)
          BY <1>1, <2>1, <2>3, <3>1
        <4>2. ModeSeen(x)
          BY DEF ModeWitnessed
        <4>. QED
          BY <1>2, <2>1, <3>3, <4>1, <4>2 DEF ModeSeen
      <3>. QED
        BY <3>4 DEF ModeWitnessed
    <2>. QED
      BY <2>4, <2>5
  <1>. QED
    BY Steps, <1>Answer, <1>AskHold, <1>HoldIsOver, <1>ClearHold, <1>AskMode,
       <1>ClearOverride, <1>LoadOverride, <1>LookAtClock, <1>CleanUpFirst,
       <1>SetOverride, <1>AskToggle, <1>DecideToggle, <1>ClearOldHold, <1>Resume,
       <1>Pause, <1>Tick

\* An answer has its reasons.
LEMMA AnswerStep ==
    ASSUME ModeTypeOK, HoldWitnessed, ModeWitnessed, Next
    PROVE  AnswerWasTrue'
  <1>1. \A x \in Reader :
           at[x] \in {"hold", "unhold", "mode", "decide"} => witness'[x] = witness[x] \cup Orders'
    BY Steps, WitnessShape
  <1>2. ASSUME NEW r \in Reader, Answer(r)
        PROVE  AnswerWasTrue'
    <2>1. at[r] \in {"hold", "decide"} /\ witness[r] \subseteq witness'[r]
      BY <1>1, <1>2, AnswerShape
    <2>2. HoldSeen(r) /\ ModeSeen(r)
      BY DEF HoldWitnessed, ModeWitnessed
    <2>3. ASSUME NEW x \in Reader, x # r
          PROVE  answer'[x] = "none"
      BY <1>2, <2>1, <2>3, AnswerShape DEF NoAnswer
    <2>4. CASE at[r] = "hold"
      <3>1. answer'[r] = "paused" /\ now < seen[r].hold
        BY <1>2, <2>4, AnswerShape DEF NoAnswer
      <3>2. "paused" \in witness'[r]
        BY <2>1, <2>2, <2>4, <3>1 DEF HoldSeen
      <3>. QED
        BY <2>3, <3>1, <3>2 DEF AnswerWasTrue
    <2>5. CASE at[r] = "decide"
      <3>1. answer'[r] = EffectiveMode(seen[r].override, now)
        BY <1>2, <2>5, AnswerShape DEF NoAnswer
      <3>2. /\ answer'[r] \in {"on", "off"}
            /\ answer'[r] = (IF now < seen[r].override.until THEN seen[r].override.mode
                             ELSE ScheduleMode)
        BY <3>1, SeenIs, ModeIs DEF Thread
      <3>3. "raced" \notin witness'[r] => {answer'[r], "free"} \subseteq witness'[r]
        BY <2>1, <2>2, <2>5, <3>2 DEF HoldSeen, ModeSeen
      <3>. QED
        BY <2>3, <3>2, <3>3 DEF AnswerWasTrue
    <2>. QED
      BY <2>1, <2>4, <2>5
  <1>3. ASSUME answer' = NoAnswer
        PROVE  AnswerWasTrue'
    BY <1>3 DEF AnswerWasTrue, NoAnswer
  <1>. QED
    BY Steps, <1>2, <1>3

-----------------------------------------------------------------------------
(* What is so of every run.                                                *)

LEMMA InitIInv == Init => IInv
  <1>. SUFFICES ASSUME Init
                PROVE  IInv
    OBVIOUS
  <1>. USE DEF Init
  <1>1. Day \in Nat /\ NothingSeen \in Hands /\ NoOverride \in Overrides
        /\ NoAnswer \in [Reader -> {"none", "on", "off", "paused"}]
    BY DayAssumption, NothingIs
  <1>2. order = [override |-> NoOverride, hold |-> 0] /\ order.override.until = 0 /\ order.hold = 0
    BY DEF NoOverride
  <1>3. ModeTypeOK
    BY <1>1, <1>2 DEF ModeTypeOK, Hands
  <1>4. \A t \in Thread : at[t] = "idle"
    OBVIOUS
  <1>5. \A r \in Reader : at[r] = "idle" /\ answer[r] = "none"
    BY DEF Thread, NoAnswer
  <1>6. ~(now < 0)
    BY <1>1
  <1>. QED
    BY <1>2, <1>3, <1>4, <1>5, <1>6 DEF IInv, HandsFull, RowsAreOrders, EndsAreTimely, OverrideIsSafe,
       HoldIsSafe, HoldWitnessed, HoldSeen, ModeWitnessed, ModeSeen, AnswerWasTrue

LEMMA NextTypes == IInv /\ [Next]_vars => ModeTypeOK'
  <1>. SUFFICES ASSUME IInv, [Next]_vars
                PROVE  ModeTypeOK'
    OBVIOUS
  <1>1. CASE UNCHANGED vars
    BY <1>1 DEF IInv, ModeTypeOK, vars
  <1>2. CASE Next
    <2>1. TypesButWitness'
      BY <1>2, TypesStep DEF IInv
    <2>2. TypesButWitness
      BY DEF IInv, ModeTypeOK, TypesButWitness, Labels, Hands
    <2>3. OrdersSay
      BY <2>2, OrdersAre
    <2>4. OrdersSay'
      BY <2>1, OrdersAre, PTL
    <2>5. witness' \in [Reader -> SUBSET {"on", "off", "free", "paused", "raced"}]
      BY <1>2, <2>3, <2>4, Steps, ObserveTypes DEF IInv
    <2>. QED
      BY <2>1, <2>5 DEF ModeTypeOK, TypesButWitness, Labels, Hands
  <1>. QED
    BY <1>1, <1>2

LEMMA NextIInv == IInv /\ [Next]_vars => IInv'
  <1>. SUFFICES ASSUME IInv, [Next]_vars
                PROVE  IInv'
    OBVIOUS
  <1>1. CASE UNCHANGED vars
    BY <1>1, NextTypes DEF IInv, vars, HandsFull, RowsAreOrders, EndsAreTimely, OverrideIsSafe,
       HoldIsSafe, HoldWitnessed, HoldSeen, ModeWitnessed, ModeSeen, ScheduleMode, AnswerWasTrue
  <1>2. CASE Next
    <2>1. ModeTypeOK'
      BY NextTypes
    <2>2. TypesButWitness /\ (ModeTypeOK' => TypesButWitness')
      BY DEF IInv, ModeTypeOK, TypesButWitness, Labels, Hands
    <2>3. OrdersSay
      BY <2>2, OrdersAre
    <2>4. OrdersSay'
      BY <2>1, <2>2, OrdersAre, PTL
    <2>5. HandsFull'
      BY <1>2, HandsStep DEF IInv
    <2>6. RowsAreOrders'
      BY <1>2, RowsStep DEF IInv
    <2>7. EndsAreTimely'
      BY <1>2, EndsStep DEF IInv
    <2>8. OverrideIsSafe' /\ HoldIsSafe'
      BY <1>2, OverrideStep, HoldStep DEF IInv
    <2>9. HoldWitnessed'
      BY <1>2, <2>3, <2>4, HoldWitnessStep DEF IInv
    <2>10. ModeWitnessed'
      BY <1>2, <2>3, <2>4, ModeWitnessStep DEF IInv
    <2>11. AnswerWasTrue'
      BY <1>2, AnswerStep DEF IInv
    <2>. QED
      BY <2>1, <2>5, <2>6, <2>7, <2>8, <2>9, <2>10, <2>11 DEF IInv
  <1>. QED
    BY <1>1, <1>2

\* The inductive invariant holds of every reachable state of the mode and the
\* hold, for any threads and a day of any number of ticks.
THEOREM ModeInvariance == Spec => []IInv
  BY InitIInv, NextIInv, PTL DEF Spec

\* The variables stay in their types: the override that is stored is none or a
\* mode with an end, and every thread is at a known place of the code.
THEOREM ModeTypesHold == Spec => []ModeTypeOK
  <1>1. IInv => ModeTypeOK
    BY DEF IInv
  <1>. QED
    BY ModeInvariance, <1>1, PTL

\* compute_next_schedule_boundary, compute_next_active_window_end and
\* _digest_window_start_date do what they are for at every time of every day,
\* however fine the day is cut and whatever the schedule, one that wraps past
\* midnight or is empty included; and so does _owner_record_window_utc for the
\* night its constants give, whatever the schedule says.
THEOREM ScheduleIsRight == Spec => []ScheduleAgrees
  <1>1. IInv => ScheduleAgrees
    <2>. SUFFICES ASSUME IInv
                  PROVE  ScheduleAgrees
      OBVIOUS
    <2>1. schedule \in Schedules /\ now \in Int
      BY DEF IInv, ModeTypeOK
    <2>. QED
      BY <2>1, BoundaryFlips, HoldCovers, DigestIs, RecordIs DEF ScheduleAgrees
  <1>. QED
    BY ModeInvariance, <1>1, PTL

\* An override or a hold that an owner set stands until its time is up or the
\* next command, unless a thread had the expired row in hand when it was given
\* (turn_on and turn_off, the toggle, and the cleanups of is_system_active and
\* is_paused, in every order).
THEOREM CommandsStand == Spec => []CommandStandsUnlessRaced
  <1>1. IInv => CommandStandsUnlessRaced
    BY DEF IInv, OverrideIsSafe, HoldIsSafe, CommandStandsUnlessRaced
  <1>. QED
    BY ModeInvariance, <1>1, PTL

\* What _system_state answers was so at some time while it read, by the orders
\* of the owners and the schedule, although it reads the hold and the mode in
\* transactions of their own and looks at the clock after each.
THEOREM AnswersWereTrue == Spec => []AnswerWasTrue
  <1>1. IInv => AnswerWasTrue
    BY DEF IInv
  <1>. QED
    BY ModeInvariance, <1>1, PTL
=============================================================================
