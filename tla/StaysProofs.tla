---------------------------- MODULE StaysProofs ----------------------------
(***************************************************************************)
(* What a reading of dates promises, for years and stays of any length,    *)
(* any messages and any days: a stay without a year is the next plausible  *)
(* one, a range keeps its two days, and what a row puts together out of    *)
(* several messages lies ahead.                                            *)
(***************************************************************************)
EXTENDS Stays, FiniteSetTheorems, WellFoundedInduction, TLAPS

-----------------------------------------------------------------------------
(* Days and years.                                                         *)

LEMMA DivIs ==
    ASSUME NEW x \in Int, NEW n \in Nat \ {0}
    PROVE  /\ x \div n \in Int /\ x % n \in 0..(n - 1)
           /\ x = n * (x \div n) + (x % n)
  OBVIOUS

LEMMA TimesIs ==
    ASSUME NEW n \in Nat \ {0}, NEW k \in Int
    PROVE  /\ k * n \in Int /\ n * k = k * n
           /\ 0 * n = 0 /\ 1 * n = n /\ (-1) * n = -n /\ 2 * n = n + n
           /\ k >= 1 => k * n >= n
           /\ k >= 2 => k * n >= n + n
           /\ k >= 0 => k * n >= 0
           /\ k <= -1 => k * n <= -n
  OBVIOUS

LEMMA TimesAdds ==
    ASSUME NEW n \in Nat \ {0}, NEW a \in Int, NEW b \in Int
    PROVE  a * n - b * n = (a - b) * n /\ a * n + b * n = (a + b) * n
  OBVIOUS

\* A date has one year and one day in it.
LEMMA DateIs ==
    ASSUME NEW x \in Int
    PROVE  /\ YearOf(x) \in Int /\ DayOf(x) \in 1..YearLength
           /\ DateOf(YearOf(x), DayOf(x)) = x
  <1>1. YearLength \in Nat \ {0}
    BY StaysAssumption
  <1>. DEFINE q == (x - 1) \div YearLength
              r == (x - 1) % YearLength
  <1>2. q \in Int /\ r \in 0..(YearLength - 1) /\ x - 1 = YearLength * q + r
    BY <1>1, DivIs
  <1>3. YearOf(x) = q /\ DayOf(x) = 1 + r
    BY DEF YearOf, DayOf
  <1>. HIDE DEF q, r
  <1>4. YearLength * q = q * YearLength /\ q * YearLength \in Int
    BY <1>1, <1>2, TimesIs
  <1>. QED
    BY <1>1, <1>2, <1>3, <1>4 DEF DateOf

LEMMA DatesAre ==
    ASSUME NEW y \in Int, NEW d \in 1..YearLength
    PROVE  DateOf(y, d) \in Int /\ YearOf(DateOf(y, d)) = y /\ DayOf(DateOf(y, d)) = d
  <1>1. YearLength \in Nat \ {0}
    BY StaysAssumption
  <1>. DEFINE x == DateOf(y, d)
              z == YearOf(x)
              e == DayOf(x)
  <1>2. x \in Int /\ x = y * YearLength + d /\ y * YearLength \in Int
    BY <1>1, TimesIs DEF DateOf
  <1>3. z \in Int /\ e \in 1..YearLength /\ DateOf(z, e) = x
    BY <1>2, DateIs
  <1>4. x = z * YearLength + e /\ z * YearLength \in Int
    BY <1>1, <1>3, TimesIs DEF DateOf
  <1>. HIDE DEF x, z, e
  <1>5. (y - z) * YearLength = e - d /\ y - z \in Int
    BY <1>1, <1>2, <1>3, <1>4, TimesAdds
  <1>6. y - z = 0
    <2>1. ~(y - z >= 1) /\ ~(y - z <= -1)
      BY <1>1, <1>3, <1>5, TimesIs
    <2>. QED
      BY <1>5, <2>1
  <1>7. y = z
    BY <1>3, <1>6
  <1>. QED
    BY <1>2, <1>3, <1>4, <1>7 DEF x, z, e

LEMMA ShiftedDate ==
    ASSUME NEW x \in Int, NEW k \in Int
    PROVE  /\ x + k * YearLength \in Int
           /\ YearOf(x + k * YearLength) = YearOf(x) + k
           /\ DayOf(x + k * YearLength) = DayOf(x)
           /\ x + k * YearLength = DateOf(YearOf(x) + k, DayOf(x))
  <1>1. YearLength \in Nat \ {0}
    BY StaysAssumption
  <1>. DEFINE y == YearOf(x)
              d == DayOf(x)
  <1>2. y \in Int /\ d \in 1..YearLength /\ DateOf(y, d) = x
    BY DateIs
  <1>. HIDE DEF y, d
  <1>3. /\ y * YearLength \in Int /\ k * YearLength \in Int
        /\ (y + k) * YearLength = y * YearLength + k * YearLength
        /\ y + k \in Int
    BY <1>1, <1>2, TimesIs, TimesAdds
  <1>4. x + k * YearLength = DateOf(y + k, d)
    BY <1>1, <1>2, <1>3 DEF DateOf
  <1>. QED
    BY <1>2, <1>3, <1>4, DatesAre DEF y, d

\* What lies a year on, or in an earlier year.
LEMMA YearsApart ==
    ASSUME NEW x \in Int, NEW z \in Int
    PROVE  /\ YearOf(x) > YearOf(z) => x > z
           /\ YearOf(x) >= YearOf(z) => x + YearLength > z
           /\ YearOf(x) >= 1 <=> x > YearLength
  <1>1. YearLength \in Nat \ {0}
    BY StaysAssumption
  <1>. DEFINE y == YearOf(x)
              d == DayOf(x)
              v == YearOf(z)
              e == DayOf(z)
  <1>2. /\ y \in Int /\ d \in 1..YearLength /\ x = y * YearLength + d
        /\ v \in Int /\ e \in 1..YearLength /\ z = v * YearLength + e
    BY DateIs DEF DateOf
  <1>. HIDE DEF y, d, v, e
  <1>3. /\ y * YearLength \in Int /\ v * YearLength \in Int
        /\ y * YearLength - v * YearLength = (y - v) * YearLength /\ y - v \in Int
    BY <1>1, <1>2, TimesIs, TimesAdds
  <1>4. /\ y - v >= 1 => (y - v) * YearLength >= YearLength
        /\ y - v >= 0 => (y - v) * YearLength >= 0
        /\ y >= 1 => y * YearLength >= YearLength
        /\ y <= -1 => y * YearLength <= -YearLength
        /\ y = 0 => y * YearLength = 0
    BY <1>1, <1>2, <1>3, TimesIs
  <1>5. y > v => x > z
    BY <1>1, <1>2, <1>3, <1>4
  <1>6. y >= v => x + YearLength > z
    BY <1>1, <1>2, <1>3, <1>4
  <1>7. y >= 1 <=> x > YearLength
    <2>1. y >= 1 => x > YearLength
      BY <1>1, <1>2, <1>3, <1>4
    <2>2. ~(y >= 1) => ~(x > YearLength)
      BY <1>1, <1>2, <1>3, <1>4
    <2>. QED
      BY <2>1, <2>2
  <1>. QED
    BY <1>5, <1>6, <1>7 DEF y, v

LEMMA BuildIs ==
    ASSUME NEW y \in Int, NEW d \in 1..YearLength, NEW notBefore \in Int
    PROVE  /\ Build(y, d, notBefore) \in Int
           /\ DayOf(Build(y, d, notBefore)) = d
           /\ YearOf(Build(y, d, notBefore)) \in {y, y + 1}
           /\ y >= YearOf(notBefore) => Build(y, d, notBefore) >= notBefore
           /\ y = YearOf(notBefore) => Build(y, d, notBefore) < notBefore + YearLength
  <1>1. YearLength \in Nat \ {0} /\ YearOf(notBefore) \in Int
    BY StaysAssumption, DateIs
  <1>. DEFINE a == DateOf(y, d)
              b == DateOf(y + 1, d)
  <1>2. /\ a \in Int /\ YearOf(a) = y /\ DayOf(a) = d
        /\ b \in Int /\ YearOf(b) = y + 1 /\ DayOf(b) = d
    BY DatesAre
  <1>3. b = a + YearLength
    BY <1>1, TimesAdds, TimesIs DEF DateOf
  <1>4. Build(y, d, notBefore) = IF a >= notBefore THEN a ELSE b
    BY DEF Build
  <1>. HIDE DEF a, b
  <1>5. y >= YearOf(notBefore) => b > notBefore
    BY <1>1, <1>2, YearsApart
  <1>6. y = YearOf(notBefore) => a < notBefore + YearLength
    BY <1>2, YearsApart
  <1>. QED
    BY <1>1, <1>2, <1>3, <1>4, <1>5, <1>6

-----------------------------------------------------------------------------
(* Least and greatest numbers, and induction for a set of them.            *)

LEMMA LeastNat ==
    ASSUME NEW S \in SUBSET Nat, S # {}
    PROVE  Min(S) \in S /\ \A n \in S : Min(S) <= n
  <1>1. PICK m \in S : \A n \in S : <<n, m>> \notin OpToRel(<, Nat)
    BY WFMin, NatLessThanWellFounded, Zenon
  <1>2. \A n \in S : n \in Nat /\ m \in Nat
    OBVIOUS
  <1>3. \A n \in S : ~(n < m)
    BY <1>1, <1>2, Zenon DEF OpToRel
  <1>4. \A n \in S : m <= n
    BY <1>2, <1>3
  <1>. QED
    BY <1>4 DEF Min

\* Of the numbers up to a bound, by their distance from it.
LEMMA GreatestUpTo ==
    ASSUME NEW m \in Nat, NEW S \in SUBSET (1..m), S # {}
    PROVE  Max(S) \in S
  <1>. DEFINE C == {c \in Nat : \E n \in S : c = m - n}
  <1>1. C \in SUBSET Nat /\ C # {}
    <2>1. PICK n \in S : TRUE
      OBVIOUS
    <2>2. n \in 1..m /\ m - n \in Nat
      OBVIOUS
    <2>. QED
      BY <2>2
  <1>2. PICK c \in C : \A d \in C : c <= d
    <2>. HIDE DEF C
    <2>. QED
      BY <1>1, LeastNat
  <1>3. PICK n \in S : c = m - n
    OBVIOUS
  <1>4. ASSUME NEW k \in S
        PROVE  k <= n
    <2>1. k \in 1..m /\ n \in 1..m /\ m - k \in C
      OBVIOUS
    <2>. QED
      BY <1>2, <1>3, <2>1
  <1>5. \E x \in S : \A y \in S : y <= x
    BY <1>4
  <1>6. \E x \in S : \A y \in S : x >= y
    <2>1. \A x, y \in S : y <= x <=> x >= y
      OBVIOUS
    <2>. QED
      BY <1>5, <2>1
  <1>. QED
    BY <1>6 DEF Max

LEMMA NatInduct ==
    ASSUME NEW N \in SUBSET Nat, 0 \in N, \A n \in N : n + 1 \in N
    PROVE  \A n \in Nat : n \in N
  <1>. SUFFICES ASSUME Nat \ N # {}
                PROVE  FALSE
    OBVIOUS
  <1>. DEFINE m == Min(Nat \ N)
  <1>1. m \in Nat \ N /\ \A n \in Nat \ N : m <= n
    BY LeastNat
  <1>. HIDE DEF m
  <1>2. m # 0 /\ m - 1 \in Nat
    BY <1>1
  <1>3. m - 1 \in N
    BY <1>1, <1>2
  <1>4. (m - 1) + 1 \in N
    BY <1>3
  <1>. QED
    BY <1>1, <1>4

-----------------------------------------------------------------------------
(* The dates of a message.                                                 *)

LEMMA MentionsAre ==
    ASSUME NEW text \in Text \cup Follow
    PROVE  /\ Len(text.dates) \in Nat /\ DOMAIN text.dates = 1..Len(text.dates)
           /\ \A i \in DOMAIN text.dates :
                 /\ text.dates[i].day \in 1..YearLength /\ text.dates[i].word \in Words
                 /\ text.dates[i].label \in {"none", "in", "out"}
                 /\ text.dates[i].short => i - 1 \in DOMAIN text.dates
  <1>1. \A m \in Mention : /\ m.day \in 1..YearLength /\ m.word \in Words
                           /\ m.label \in {"none", "in", "out"}
    BY DEF Mention
  <1>2. text.dates \in Seq(Mention)
    BY StaysAssumption
  <1>3. \A i \in DOMAIN text.dates : text.dates[i].short => i > 1
    BY StaysAssumption
  <1>4. /\ Len(text.dates) \in Nat /\ DOMAIN text.dates = 1..Len(text.dates)
        /\ \A i \in DOMAIN text.dates : text.dates[i] \in Mention
    BY <1>2
  <1>5. \A i \in DOMAIN text.dates : text.dates[i].short => i - 1 \in DOMAIN text.dates
    BY <1>3, <1>4
  <1>. QED
    BY <1>1, <1>4, <1>5

\* A message on a day, and each date of it with its year.
DatesOf(text, day) == [i \in DOMAIN text.dates |-> Dated(text.dates, i, day)]

LEMMA DatedIs ==
    ASSUME NEW text \in Text \cup Follow, NEW day \in Today, NEW i \in DOMAIN text.dates
    PROVE  /\ DatesOf(text, day)[i] \in Int
           /\ DatesOf(text, day)[i] > YearLength
           /\ DayOf(DatesOf(text, day)[i]) = text.dates[i].day
           /\ WordsBefore(text.dates, i) = {} =>
                 /\ DatesOf(text, day)[i] >= day
                 /\ ~text.dates[i].short => DatesOf(text, day)[i] < day + YearLength
  <1>. DEFINE dates == text.dates
              words == WordsBefore(dates, i)
              notBefore == IF words = {} THEN day ELSE NoDate
              year == YearOf(day) + IF words = {} THEN 0 ELSE Offset[dates[Max(words)].word]
              x == Dated(dates, i, day)
  <1>1. day \in Nat /\ day > YearLength /\ YearOf(day) \in Int /\ YearOf(day) >= 1
    <2>1. day \in Nat /\ day > YearLength
      BY StaysAssumption
    <2>2. day \in Int
      BY <2>1
    <2>. QED
      BY <2>1, <2>2, DateIs, YearsApart
  <1>2. /\ notBefore \in Int /\ year \in Int /\ year >= YearOf(day)
        /\ words = {} => year = YearOf(day) /\ notBefore = day
    <2>1. CASE words = {}
      BY <1>1, <2>1
    <2>2. CASE words # {}
      <3>1. i \in Nat /\ words \in SUBSET (1..i) /\ 1..i \in SUBSET DOMAIN dates
        BY MentionsAre DEF WordsBefore
      <3>2. Max(words) \in DOMAIN dates /\ dates[Max(words)].word # "none"
        <4>1. Max(words) \in words
          <5>. HIDE DEF words
          <5>. QED
            BY <2>2, <3>1, GreatestUpTo
        <4>. QED
          BY <3>1, <4>1 DEF WordsBefore
      <3>3. dates[Max(words)].word \in {"this", "next", "after"}
        BY <3>2, MentionsAre DEF Words
      <3>4. Offset[dates[Max(words)].word] \in Nat
        BY <3>3 DEF Offset
      <3>. HIDE DEF words
      <3>. QED
        BY <1>1, <2>2, <3>4 DEF NoDate
    <2>. QED
      BY <2>1, <2>2
  <1>3. x = IF dates[i].short
            THEN Build(YearOf(Build(year, dates[i - 1].day, notBefore)), dates[i].day, notBefore)
            ELSE Build(year, dates[i].day, notBefore)
    BY DEF Dated
  <1>4. DatesOf(text, day)[i] = x
    BY DEF DatesOf
  <1>. HIDE DEF words, notBefore, year, x
  <1>5. dates[i].day \in 1..YearLength /\ (dates[i].short => dates[i - 1].day \in 1..YearLength)
    BY MentionsAre
  <1>. HIDE DEF dates
  <1>6. PICK y \in Int : /\ x = Build(y, dates[i].day, notBefore) /\ y >= year
                         /\ ~dates[i].short => y = year
    <2>1. CASE dates[i].short
      <3>. DEFINE z == YearOf(Build(year, dates[i - 1].day, notBefore))
      <3>1. z \in {year, year + 1}
        BY <1>2, <1>5, <2>1, BuildIs
      <3>2. x = Build(z, dates[i].day, notBefore)
        BY <1>3, <2>1
      <3>. HIDE DEF z
      <3>3. z \in Int /\ z >= year
        BY <1>2, <3>1
      <3>. QED
        BY <2>1, <3>2, <3>3
    <2>2. CASE ~dates[i].short
      BY <1>2, <1>3, <2>2
    <2>. QED
      BY <2>1, <2>2
  <1>7. /\ x \in Int /\ DayOf(x) = dates[i].day /\ YearOf(x) \in {y, y + 1}
        /\ y >= YearOf(notBefore) => x >= notBefore
        /\ y = YearOf(notBefore) => x < notBefore + YearLength
    BY <1>2, <1>5, <1>6, BuildIs
  <1>8. YearOf(x) >= 1
    BY <1>1, <1>2, <1>6, <1>7
  <1>9. x > YearLength
    BY <1>7, <1>8, <1>1, YearsApart
  <1>10. ASSUME words = {}
         PROVE  x >= day /\ (~dates[i].short => x < day + YearLength)
    BY <1>2, <1>6, <1>7, <1>10
  <1>. QED
    BY <1>4, <1>7, <1>9, <1>10 DEF words, dates

-----------------------------------------------------------------------------
(* The roles of the dates.                                                 *)

\* A reading so far: each end a date of the message, or none.
RoleSet(dates, date) == {NoDate} \cup {date[i] : i \in DOMAIN dates}
Reads(dates, date, r) ==
    /\ r = [in |-> r.in, out |-> r.out, loose |-> r.loose]
    /\ r.in \in RoleSet(dates, date)
    /\ r.out \in RoleSet(dates, date)
    /\ r.loose \in SUBSET DOMAIN dates

LEMMA ByLabelReads ==
    ASSUME NEW dates \in Seq(Mention), NEW date
    PROVE  Reads(dates, date, ByLabel(dates, date))
  <1>1. DOMAIN dates \in SUBSET Nat
    OBVIOUS
  <1>2. ASSUME NEW label
        PROVE  Labelled(dates, date, label) \in RoleSet(dates, date)
    <2>. DEFINE places == {i \in DOMAIN dates : dates[i].label = label}
    <2>1. CASE places = {}
      BY <2>1 DEF Labelled, RoleSet
    <2>2. CASE places # {}
      <3>1. Min(places) \in places
        BY <1>1, <2>2, LeastNat
      <3>2. Labelled(dates, date, label) = date[Min(places)]
        BY <2>2 DEF Labelled
      <3>. HIDE DEF places
      <3>3. Min(places) \in DOMAIN dates
        BY <3>1 DEF places
      <3>. QED
        BY <3>2, <3>3 DEF RoleSet
    <2>. QED
      BY <2>1, <2>2
  <1>. QED
    BY <1>2 DEF ByLabel, Reads

LEMMA RepairPairReads ==
    ASSUME NEW dates \in Seq(Mention), NEW date, NEW r, Reads(dates, date, r),
           NEW i \in 1..(Len(dates) - 1)
    PROVE  Reads(dates, date, RepairPair(dates, date, r, i))
  <1>. DEFINE s == RepairPair(dates, date, r, i)
  <1>1. i \in DOMAIN dates /\ i + 1 \in DOMAIN dates
    OBVIOUS
  <1>2. date[i] \in RoleSet(dates, date) /\ date[i + 1] \in RoleSet(dates, date)
    BY <1>1 DEF RoleSet
  <1>0. r = [in |-> r.in, out |-> r.out, loose |-> r.loose]
    BY DEF Reads
  <1>3. \/ s = [r EXCEPT !.out = date[i + 1], !.loose = @ \ {i + 1}]
        \/ s = [r EXCEPT !.in = date[i], !.loose = @ \ {i}]
        \/ s = [in |-> date[i], out |-> date[i + 1], loose |-> r.loose \ {i}]
        \/ s = r
    BY DEF RepairPair
  <1>. HIDE DEF s
  <1>4. \/ s = [in |-> r.in, out |-> date[i + 1], loose |-> r.loose \ {i + 1}]
        \/ s = [in |-> date[i], out |-> r.out, loose |-> r.loose \ {i}]
        \/ s = [in |-> date[i], out |-> date[i + 1], loose |-> r.loose \ {i}]
        \/ s = r
    BY <1>0, <1>3
  <1>5. Reads(dates, date, s)
    BY <1>2, <1>4 DEF Reads
  <1>. QED
    BY <1>5 DEF s

\* The equation of the function within Repaired.
RepairStep(dates, date, g, n) ==
    IF n = 0 THEN ByLabel(dates, date)
    ELSE IF n < Len(dates) /\ dates[n].link THEN RepairPair(dates, date, g[n - 1], n)
    ELSE g[n - 1]

IsRepair(dates, date, m, g) == g = [n \in 0..m |-> RepairStep(dates, date, g, n)]
TheRepair(dates, date, m) == CHOOSE g : IsRepair(dates, date, m, g)

\* There is a function with this equation.
LEMMA RepairExists ==
    ASSUME NEW dates, NEW date, NEW m \in Nat
    PROVE  \E g : IsRepair(dates, date, m, g)
  <1>. DEFINE N == {n \in Nat : \E g : IsRepair(dates, date, n, g)}
  <1>1. 0 \in N
    <2>. DEFINE g == [n \in 0..0 |-> ByLabel(dates, date)]
    <2>1. g = [n \in 0..0 |-> RepairStep(dates, date, g, n)]
      BY DEF RepairStep
    <2>2. IsRepair(dates, date, 0, g)
      BY <2>1 DEF IsRepair
    <2>. QED
      BY <2>2
  <1>2. ASSUME NEW k \in N
        PROVE  k + 1 \in N
    <2>1. PICK g : IsRepair(dates, date, k, g)
      OBVIOUS
    <2>. DEFINE h == [n \in 0..(k + 1) |-> RepairStep(dates, date, g, n)]
    <2>2. ASSUME NEW n \in 0..(k + 1)
          PROVE  RepairStep(dates, date, g, n) = RepairStep(dates, date, h, n)
      <3>1. CASE n = 0
        BY <3>1 DEF RepairStep
      <3>2. CASE n # 0
        <4>1. n - 1 \in 0..k /\ n - 1 \in 0..(k + 1)
          BY <3>2
        <4>2. g[n - 1] = h[n - 1]
          BY <2>1, <4>1 DEF IsRepair
        <4>. HIDE DEF h
        <4>. QED
          BY <3>2, <4>2 DEF RepairStep
      <3>. QED
        BY <3>1, <3>2
    <2>3. h = [n \in 0..(k + 1) |-> RepairStep(dates, date, h, n)]
      BY <2>2
    <2>. HIDE DEF h
    <2>4. IsRepair(dates, date, k + 1, h)
      BY <2>3 DEF IsRepair
    <2>. QED
      BY <2>4
  <1>3. \A n \in Nat : n \in N
    <2>1. N \in SUBSET Nat
      OBVIOUS
    <2>. HIDE DEF N
    <2>. QED
      BY <1>1, <1>2, <2>1, NatInduct
  <1>. QED
    BY <1>3

LEMMA RepairedIs ==
    ASSUME NEW dates \in Seq(Mention), NEW date
    PROVE  \E g : IsRepair(dates, date, Len(dates), g) /\ Repaired(dates, date) = g[Len(dates)]
  <1>1. IsRepair(dates, date, Len(dates), TheRepair(dates, date, Len(dates)))
    BY RepairExists DEF TheRepair
  <1>2. Repaired(dates, date) = TheRepair(dates, date, Len(dates))[Len(dates)]
    BY DEF Repaired, TheRepair, IsRepair, RepairStep
  <1>. QED
    BY <1>1, <1>2

LEMMA RepairedReads ==
    ASSUME NEW dates \in Seq(Mention), NEW date
    PROVE  Reads(dates, date, Repaired(dates, date))
  <1>. DEFINE m == Len(dates)
  <1>0. m \in Nat
    OBVIOUS
  <1>1. PICK g : IsRepair(dates, date, m, g) /\ Repaired(dates, date) = g[m]
    BY RepairedIs
  <1>2. \A n \in 0..m : g[n] = RepairStep(dates, date, g, n)
    BY <1>1 DEF IsRepair
  <1>. DEFINE N == {n \in Nat : n <= m => Reads(dates, date, g[n])}
  <1>3. 0 \in N
    <2>1. g[0] = ByLabel(dates, date)
      BY <1>0, <1>2 DEF RepairStep
    <2>. QED
      BY <2>1, ByLabelReads
  <1>4. ASSUME NEW n \in N
        PROVE  n + 1 \in N
    <2>1. SUFFICES ASSUME n + 1 <= m
                   PROVE  Reads(dates, date, g[n + 1])
      OBVIOUS
    <2>2. n \in Nat /\ n + 1 \in 0..m /\ n + 1 # 0 /\ (n + 1) - 1 = n /\ Reads(dates, date, g[n])
      BY <2>1, <1>0
    <2>. HIDE DEF N
    <2>3. \/ g[n + 1] = g[n]
          \/ n + 1 < m /\ g[n + 1] = RepairPair(dates, date, g[n], n + 1)
      BY <1>2, <2>2 DEF RepairStep
    <2>4. n + 1 < m => n + 1 \in 1..(Len(dates) - 1)
      BY <1>0, <2>2
    <2>. QED
      BY <2>2, <2>3, <2>4, RepairPairReads
  <1>5. m \in N
    <2>1. N \in SUBSET Nat
      OBVIOUS
    <2>. HIDE DEF N, m
    <2>. QED
      BY <1>0, <1>3, <1>4, <2>1, NatInduct
  <1>. QED
    BY <1>1, <1>5

LEMMA RolesAre ==
    ASSUME NEW dates \in Seq(Mention), NEW date
    PROVE  /\ Roles(dates, date) = [in |-> Roles(dates, date).in, out |-> Roles(dates, date).out]
           /\ Roles(dates, date).in \in RoleSet(dates, date)
           /\ Roles(dates, date).out \in RoleSet(dates, date)
  <1>. DEFINE r == Repaired(dates, date)
              x == Roles(dates, date)
  <1>1. Reads(dates, date, r)
    BY RepairedReads
  <1>2. \/ /\ Cardinality(r.loose) = 2
           /\ x = [in |-> date[Min(r.loose)], out |-> date[Max(r.loose)]]
        \/ Len(dates) = 1 /\ x = [in |-> date[1], out |-> NoDate]
        \/ x = [in |-> r.in, out |-> r.out]
    BY DEF Roles
  <1>. HIDE DEF x, r
  <1>3. CASE Cardinality(r.loose) = 2 /\ x = [in |-> date[Min(r.loose)], out |-> date[Max(r.loose)]]
    <2>1. r.loose \in SUBSET (1..Len(dates)) /\ Len(dates) \in Nat /\ DOMAIN dates = 1..Len(dates)
      BY <1>1 DEF Reads
    <2>. DEFINE L == r.loose
    <2>2. L # {}
      <3>1. Cardinality({}) = 0
        BY FS_EmptySet
      <3>2. Cardinality(L) = 2
        BY <1>3
      <3>. HIDE DEF L
      <3>. QED
        BY <3>1, <3>2
    <2>3. Min(L) \in L /\ Max(L) \in L
      <3>1. L \in SUBSET (1..Len(dates)) /\ L \in SUBSET Nat
        BY <2>1
      <3>. HIDE DEF L
      <3>2. Min(L) \in L
        BY <2>2, <3>1, LeastNat
      <3>3. Max(L) \in L
        BY <2>1, <2>2, <3>1, GreatestUpTo
      <3>. QED
        BY <3>2, <3>3
    <2>4. Min(r.loose) \in DOMAIN dates /\ Max(r.loose) \in DOMAIN dates
      BY <2>1, <2>3
    <2>. QED
      BY <1>3, <2>4 DEF RoleSet, x
  <1>4. CASE Len(dates) = 1 /\ x = [in |-> date[1], out |-> NoDate]
    <2>1. 1 \in DOMAIN dates
      BY <1>4
    <2>. QED
      BY <1>4, <2>1 DEF RoleSet, x
  <1>5. CASE x = [in |-> r.in, out |-> r.out]
    BY <1>1, <1>5 DEF Reads, x
  <1>. QED
    BY <1>2, <1>3, <1>4, <1>5

LEMMA TwoAre == Cardinality({1, 2}) = 2
  <1>. DEFINE a == 1
              b == 2
  <1>1. a \in Int /\ b \in Int /\ ~(a > b) /\ b - a + 1 = 2
    OBVIOUS
  <1>2. a..b = {1, 2}
    OBVIOUS
  <1>. HIDE DEF a, b
  <1>3. Cardinality(a..b) = IF a > b THEN 0 ELSE b - a + 1
    BY <1>1, FS_Interval
  <1>. QED
    BY <1>1, <1>2, <1>3

\* A range of two dates.
LEMMA RolesOfRange ==
    ASSUME NEW dates \in Seq(Mention), NEW date, Len(dates) = 2, dates[1].link,
           date[1] # NoDate, date[2] # NoDate, dates[1].label # "out",
           dates[1].label = "in" => dates[2].label # "in"
    PROVE  Roles(dates, date) = [in |-> date[1], out |-> date[2]]
  <1>. DEFINE l == ByLabel(dates, date)
              a == dates[1].label
              b == dates[2].label
  <1>0. DOMAIN dates = {1, 2}
    <2>1. DOMAIN dates = 1..2
      OBVIOUS
    <2>. QED
      BY <2>1
  <1>1. a \in {"none", "in"} /\ b \in {"none", "in", "out"}
    <2>1. \A m \in Mention : m.label \in {"none", "in", "out"}
      BY DEF Mention
    <2>2. \A i \in DOMAIN dates : dates[i] \in Mention
      OBVIOUS
    <2>3. dates[1] \in Mention /\ dates[2] \in Mention
      BY <1>0, <2>2
    <2>. QED
      BY <2>1, <2>3
  <1>2. Repaired(dates, date) = RepairPair(dates, date, l, 1)
    <2>1. PICK g : IsRepair(dates, date, 2, g) /\ Repaired(dates, date) = g[2]
      BY RepairedIs
    <2>2. g[2] = RepairStep(dates, date, g, 2) /\ g[1] = RepairStep(dates, date, g, 1)
          /\ g[0] = RepairStep(dates, date, g, 0)
      BY <2>1 DEF IsRepair
    <2>3. g[0] = l
      BY <2>2 DEF RepairStep
    <2>4. g[1] = RepairPair(dates, date, l, 1)
      BY <2>2, <2>3 DEF RepairStep
    <2>5. g[2] = g[1]
      BY <2>2 DEF RepairStep
    <2>. QED
      BY <2>1, <2>4, <2>5
  <1>3. ASSUME NEW label
        PROVE  /\ a # label /\ b # label => Labelled(dates, date, label) = NoDate
               /\ a = label => Labelled(dates, date, label) = date[1]
               /\ a # label /\ b = label => Labelled(dates, date, label) = date[2]
    <2>. DEFINE places == {i \in DOMAIN dates : dates[i].label = label}
    <2>1. places \in SUBSET {1, 2} /\ (1 \in places <=> a = label) /\ (2 \in places <=> b = label)
      BY <1>0
    <2>2. Labelled(dates, date, label) = IF places = {} THEN NoDate ELSE date[Min(places)]
      BY DEF Labelled
    <2>. HIDE DEF places
    <2>3. ASSUME places # {}
          PROVE  Min(places) \in places /\ \A n \in places : Min(places) <= n
      <3>1. places \in SUBSET Nat
        BY <2>1
      <3>. QED
        BY <2>3, <3>1, LeastNat
    <2>4. CASE places = {}
      BY <2>1, <2>2, <2>4
    <2>5. CASE 1 \in places
      <3>0. Min(places) \in {1, 2} /\ Min(places) <= 1
        BY <2>1, <2>3, <2>5
      <3>1. Min(places) = 1
        BY <3>0
      <3>. QED
        BY <2>1, <2>2, <2>5, <3>1
    <2>6. CASE places # {} /\ 1 \notin places
      <3>1. Min(places) = 2
        BY <2>1, <2>3, <2>6
      <3>. QED
        BY <2>1, <2>2, <2>6, <3>1
    <2>. QED
      BY <2>4, <2>5, <2>6
  <1>4. l.in = Labelled(dates, date, "in") /\ l.out = Labelled(dates, date, "out")
    BY DEF ByLabel
  <1>5. l = [in |-> l.in, out |-> l.out, loose |-> l.loose]
    BY DEF ByLabel
  <1>6. l.loose = {i \in DOMAIN dates : dates[i].label = "none"}
    BY DEF ByLabel
  <1>. DEFINE r == RepairPair(dates, date, l, 1)
  <1>. HIDE DEF l
  <1>7. CASE a = "none" /\ b = "none"
    <2>1. l.in = NoDate /\ l.out = NoDate
      BY <1>3, <1>4, <1>7
    <2>2. r = l
      BY <1>7 DEF RepairPair
    <2>3. l.loose = {1, 2} /\ Cardinality({1, 2}) = 2
      <3>1. l.loose = {1, 2}
        BY <1>0, <1>6, <1>7
      <3>2. Cardinality({1, 2}) = 2
        BY TwoAre
      <3>. QED
        BY <3>1, <3>2
    <2>4. Min({1, 2}) = 1 /\ Max({1, 2}) = 2
      <3>1. Min({1, 2}) \in {1, 2} /\ \A n \in {1, 2} : Min({1, 2}) <= n
        BY LeastNat
      <3>2. Max({1, 2}) \in {1, 2} /\ \A n \in {1, 2} : Max({1, 2}) >= n
        <4>1. \E x \in {1, 2} : \A n \in {1, 2} : x >= n
          OBVIOUS
        <4>. QED
          BY <4>1 DEF Max
      <3>. QED
        BY <3>1, <3>2
    <2>5. Repaired(dates, date) = l
      BY <1>2, <2>2
    <2>6. /\ Repaired(dates, date).in = NoDate /\ Repaired(dates, date).out = NoDate
          /\ Repaired(dates, date).loose = {1, 2}
      BY <2>1, <2>3, <2>5
    <2>. QED
      BY <2>3, <2>4, <2>6 DEF Roles
  <1>8. CASE ~(a = "none" /\ b = "none")
    <2>1. r.in = date[1] /\ r.out = date[2]
      <3>1. CASE a = "in" /\ b = "none"
        <4>1. l.in = date[1] /\ l.out = NoDate
          BY <1>3, <1>4, <3>1
        <4>2. r = [l EXCEPT !.out = date[2], !.loose = @ \ {2}]
          BY <3>1, <4>1 DEF RepairPair
        <4>. QED
          BY <1>5, <4>1, <4>2
      <3>2. CASE a = "in" /\ b = "out"
        <4>1. l.in = date[1] /\ l.out = date[2]
          BY <1>3, <1>4, <3>2
        <4>2. r = l
          BY <3>2 DEF RepairPair
        <4>. QED
          BY <4>1, <4>2
      <3>3. CASE a = "none" /\ b = "out"
        <4>1. l.in = NoDate /\ l.out = date[2]
          BY <1>3, <1>4, <3>3
        <4>2. r = [l EXCEPT !.in = date[1], !.loose = @ \ {1}]
          BY <3>3, <4>1 DEF RepairPair
        <4>. QED
          BY <1>5, <4>1, <4>2
      <3>4. CASE a = "none" /\ b = "in"
        <4>1. l.in = date[2] /\ l.out = NoDate
          BY <1>3, <1>4, <3>4
        <4>2. r = [in |-> date[1], out |-> date[2], loose |-> l.loose \ {1}]
          BY <3>4, <4>1 DEF RepairPair
        <4>. QED
          BY <4>2
      <3>. QED
        BY <1>1, <1>8, <3>1, <3>2, <3>3, <3>4
    <2>. HIDE DEF r
    <2>. QED
      BY <1>2, <2>1 DEF Roles, r
  <1>. QED
    BY <1>7, <1>8

-----------------------------------------------------------------------------
(* The years of the two ends.                                              *)

\* Two ends that are there.
BothEnds(stay) ==
    /\ stay = [in |-> stay.in, out |-> stay.out]
    /\ stay.in \in Int /\ stay.in > YearLength
    /\ stay.out \in Int /\ stay.out > YearLength

Back(stay) == Shifted(stay, -1, 0)
Shifts(stay) ==
    {stay, Back(stay), Shifted(stay, 0, 1), Shifted(stay, 0, -1), Shifted(stay, 1, 0)}
Collapsed(stay) == Shifted(stay, 0, YearOf(stay.in) - YearOf(stay.out))

\* What the order of the shifts comes to.
LEMMA ReconcileIs ==
    ASSUME NEW stay, BothEnds(stay), NEW notBefore \in Int
    PROVE  /\ \/ Reconcile(stay, notBefore) = Collapsed(stay)
              \/ /\ Reconcile(stay, notBefore) \in Shifts(stay)
                 /\ Plausible(Reconcile(stay, notBefore), notBefore)
           /\ notBefore # NoDate /\ (\/ Plausible(stay, notBefore)
                                    \/ Plausible(Back(stay), notBefore)) =>
                 /\ Reconcile(stay, notBefore) \in {stay, Back(stay)}
                 /\ Plausible(Reconcile(stay, notBefore), notBefore)
  <1>. DEFINE x == Reconcile(stay, notBefore)
              back == Back(stay)
              moved == Shifts(stay)
              C == Candidates(stay, notBefore)
              G == Good(stay, notBefore)
  <1>0. NoDate \notin {stay.in, stay.out}
    <2>1. YearLength \in Nat
      BY StaysAssumption
    <2>. QED
      BY <2>1 DEF BothEnds, NoDate
  <1>1. x = IF G # {} THEN C[Min(G)] ELSE Collapsed(stay)
    BY <1>0 DEF Reconcile, Collapsed
  <1>2. /\ DOMAIN C \in SUBSET Nat /\ C[1] = stay /\ 1 \in DOMAIN C
        /\ \A i \in DOMAIN C : C[i] \in moved
        /\ notBefore # NoDate => 2 \in DOMAIN C /\ C[2] = back
    <2>0. moved = {stay, back, Shifted(stay, 0, 1), Shifted(stay, 0, -1), Shifted(stay, 1, 0)}
      BY DEF Shifts
    <2>1. CASE notBefore = NoDate
      <3>1. C = <<stay, Shifted(stay, 0, 1)>>
        BY <2>1 DEF Candidates
      <3>. HIDE DEF C, moved
      <3>. QED
        BY <2>0, <2>1, <3>1
    <2>2. CASE notBefore # NoDate
      <3>1. C = <<stay, back, Shifted(stay, 0, 1), Shifted(stay, 0, -1), Shifted(stay, 1, 0)>>
        BY <2>2 DEF Candidates, Back
      <3>. HIDE DEF C, back, moved
      <3>2. DOMAIN C = 1..5
        BY <3>1
      <3>3. /\ C[1] = stay /\ C[2] = back /\ C[3] = Shifted(stay, 0, 1)
            /\ C[4] = Shifted(stay, 0, -1) /\ C[5] = Shifted(stay, 1, 0)
        BY <3>1
      <3>4. \A i \in 1..5 : i = 1 \/ i = 2 \/ i = 3 \/ i = 4 \/ i = 5
        OBVIOUS
      <3>. QED
        BY <2>0, <3>2, <3>3, <3>4
    <2>. QED
      BY <2>1, <2>2
  <1>3. G = {i \in DOMAIN C : Plausible(C[i], notBefore)}
    BY DEF Good
  <1>. HIDE DEF x, moved, back, C, G
  <1>4. CASE G = {}
    <2>1. x = Collapsed(stay)
      BY <1>1, <1>4
    <2>2. ~Plausible(stay, notBefore) /\ (notBefore # NoDate => ~Plausible(back, notBefore))
      BY <1>2, <1>3, <1>4
    <2>. QED
      BY <2>1, <2>2 DEF x, back, moved
  <1>5. CASE G # {}
    <2>. DEFINE k == Min(G)
    <2>1. k \in G /\ \A i \in G : k <= i
      <3>1. G \in SUBSET Nat
        BY <1>2, <1>3
      <3>. QED
        BY <1>5, <3>1, LeastNat
    <2>2. x = C[k]
      BY <1>1, <1>5
    <2>. HIDE DEF k
    <2>3. k \in DOMAIN C /\ k \in Nat /\ Plausible(x, notBefore) /\ x \in moved
      BY <1>2, <1>3, <2>1, <2>2
    <2>4. CASE 1 \in G \/ (notBefore # NoDate /\ 2 \in G)
      <3>1. k <= 1 \/ (notBefore # NoDate /\ k <= 2)
        BY <2>1, <2>4
      <3>2. k # 0
        <4>1. 0 \notin DOMAIN C
          BY DEF C, Candidates
        <4>. QED
          BY <2>3, <4>1
      <3>3. k = 1 \/ (notBefore # NoDate /\ k = 2)
        BY <2>3, <3>1, <3>2
      <3>4. x = stay \/ (notBefore # NoDate /\ x = back)
        BY <1>2, <2>2, <3>3
      <3>. QED
        BY <2>3, <3>4 DEF x, back, moved
    <2>5. CASE ~(1 \in G \/ (notBefore # NoDate /\ 2 \in G))
      <3>1. ~Plausible(stay, notBefore) /\ (notBefore # NoDate => ~Plausible(back, notBefore))
        BY <1>2, <1>3, <2>5
      <3>. QED
        BY <2>3, <3>1 DEF x, back, moved
    <2>. QED
      BY <2>4, <2>5
  <1>. QED
    BY <1>4, <1>5

\* A shift moves the ends by years and keeps their days.
LEMMA ShiftedIs ==
    ASSUME NEW stay, BothEnds(stay), NEW a \in {-1, 0, 1}, NEW b \in Int
    PROVE  /\ Shifted(stay, a, b) = [in |-> stay.in + a * YearLength, out |-> stay.out + b * YearLength]
           /\ Shifted(stay, a, b).in \in Int /\ Shifted(stay, a, b).out \in Int
           /\ Shifted(stay, a, b).in > 0
           /\ DayOf(Shifted(stay, a, b).in) = DayOf(stay.in)
           /\ DayOf(Shifted(stay, a, b).out) = DayOf(stay.out)
           /\ b \in {-1, 0, 1} => Shifted(stay, a, b).out > 0
  <1>. DEFINE x == Shifted(stay, a, b)
  <1>1. x = [in |-> stay.in + a * YearLength, out |-> stay.out + b * YearLength]
    BY DEF Shifted
  <1>2. a \in Int /\ YearLength \in Nat \ {0}
    BY StaysAssumption
  <1>3. /\ stay.in \in Int /\ stay.in > YearLength
        /\ stay.out \in Int /\ stay.out > YearLength
    BY DEF BothEnds
  <1>4. /\ a * YearLength \in {-YearLength, 0, YearLength}
        /\ b \in {-1, 0, 1} => b * YearLength \in {-YearLength, 0, YearLength}
    BY <1>2, TimesIs
  <1>5. /\ x.in = stay.in + a * YearLength /\ x.out = stay.out + b * YearLength
        /\ x.in \in Int /\ x.out \in Int
        /\ DayOf(x.in) = DayOf(stay.in) /\ DayOf(x.out) = DayOf(stay.out)
    <2>1. x.in = stay.in + a * YearLength /\ x.out = stay.out + b * YearLength
      <3>. HIDE DEF x
      <3>. QED
        BY <1>1
    <2>2. /\ stay.in + a * YearLength \in Int
          /\ DayOf(stay.in + a * YearLength) = DayOf(stay.in)
      BY <1>2, <1>3, ShiftedDate
    <2>3. /\ stay.out + b * YearLength \in Int
          /\ DayOf(stay.out + b * YearLength) = DayOf(stay.out)
      BY <1>3, ShiftedDate
    <2>. HIDE DEF x
    <2>. QED
      BY <2>1, <2>2, <2>3
  <1>. HIDE DEF x
  <1>6. x.in > 0
    BY <1>2, <1>3, <1>4, <1>5
  <1>7. b \in {-1, 0, 1} => x.out > 0
    BY <1>2, <1>3, <1>4, <1>5
  <1>. QED
    BY <1>1, <1>5, <1>6, <1>7 DEF x

LEMMA BothEndsShift ==
    ASSUME NEW stay, BothEnds(stay)
    PROVE  /\ stay = Shifted(stay, 0, 0) /\ Back(stay) = Shifted(stay, -1, 0)
           /\ \A x \in Shifts(stay) : \E a, b \in {-1, 0, 1} : x = Shifted(stay, a, b)
  <1>1. 0 * YearLength = 0
    BY StaysAssumption, TimesIs
  <1>2. stay = Shifted(stay, 0, 0)
    BY <1>1 DEF Shifted, BothEnds
  <1>3. Back(stay) = Shifted(stay, -1, 0)
    BY DEF Back
  <1>4. ASSUME NEW x \in Shifts(stay)
        PROVE  \E a, b \in {-1, 0, 1} : x = Shifted(stay, a, b)
    <2>1. \/ x = stay \/ x = Shifted(stay, -1, 0) \/ x = Shifted(stay, 0, 1)
          \/ x = Shifted(stay, 0, -1) \/ x = Shifted(stay, 1, 0)
      BY DEF Shifts, Back
    <2>. QED
      BY <1>2, <2>1
  <1>. QED
    BY <1>2, <1>3, <1>4

\* Both ends in the year of the arrival.
LEMMA CollapsedIs ==
    ASSUME NEW stay, BothEnds(stay)
    PROVE  /\ Collapsed(stay).in = stay.in
           /\ Collapsed(stay).out \in Int /\ Collapsed(stay).out > 0
           /\ DayOf(Collapsed(stay).out) = DayOf(stay.out)
           /\ YearOf(Collapsed(stay).out) = YearOf(stay.in)
           /\ Collapsed(stay) = [in |-> Collapsed(stay).in, out |-> Collapsed(stay).out]
  <1>. DEFINE k == YearOf(stay.in) - YearOf(stay.out)
              z == stay.out + k * YearLength
  <1>1. /\ stay.in \in Int /\ stay.in > YearLength
        /\ stay.out \in Int /\ stay.out > YearLength /\ YearLength \in Nat \ {0}
    BY StaysAssumption DEF BothEnds
  <1>2. YearOf(stay.in) \in Int /\ YearOf(stay.out) \in Int /\ YearOf(stay.in) >= 1
    BY <1>1, DateIs, YearsApart
  <1>3. k \in Int
    BY <1>2
  <1>4. z \in Int /\ YearOf(z) = YearOf(stay.out) + k /\ DayOf(z) = DayOf(stay.out)
    BY <1>1, <1>3, ShiftedDate
  <1>5. YearOf(z) = YearOf(stay.in)
    BY <1>2, <1>4
  <1>6. Collapsed(stay) = [in |-> stay.in + 0 * YearLength, out |-> z]
    BY DEF Collapsed, Shifted
  <1>7. 0 * YearLength = 0
    BY <1>1, TimesIs
  <1>. HIDE DEF z
  <1>8. z > YearLength
    BY <1>1, <1>2, <1>4, <1>5, YearsApart
  <1>. QED
    BY <1>1, <1>4, <1>5, <1>6, <1>7, <1>8

\* Reconciling keeps the ends, and the day of each.
LEMMA ReconcileKeepsDays ==
    ASSUME NEW stay, BothEnds(stay), NEW notBefore \in Int,
           NEW x, x = Reconcile(stay, notBefore)
    PROVE  /\ x = [in |-> x.in, out |-> x.out]
           /\ x.in \in Int /\ x.out \in Int /\ x.in > 0 /\ x.out > 0
           /\ DayOf(x.in) = DayOf(stay.in) /\ DayOf(x.out) = DayOf(stay.out)
  <1>1. CASE x = Collapsed(stay)
    BY <1>1, CollapsedIs, StaysAssumption DEF BothEnds
  <1>2. CASE x \in Shifts(stay)
    <2>1. PICK a \in {-1, 0, 1}, b \in {-1, 0, 1} : x = Shifted(stay, a, b)
      BY <1>2, BothEndsShift
    <2>2. b \in Int
      OBVIOUS
    <2>. QED
      BY <2>1, <2>2, ShiftedIs
  <1>. QED
    BY <1>1, <1>2, ReconcileIs

-----------------------------------------------------------------------------
(* The reading of a message.                                               *)

RolesOf(text, day) == Roles(text.dates, DatesOf(text, day))

\* An end of a reading is a date of the message, or none.
LEMMA RolesOfIs ==
    ASSUME NEW text \in Text \cup Follow, NEW day \in Today,
           NEW x, x = RolesOf(text, day)
    PROVE  /\ x = [in |-> x.in, out |-> x.out]
           /\ \A d \in {x.in, x.out} :
                 d = NoDate \/ \E i \in DOMAIN text.dates : d = DatesOf(text, day)[i]
           /\ NoDate \notin {x.in, x.out} => BothEnds(x)
  <1>1. text.dates \in Seq(Mention)
    BY StaysAssumption
  <1>2. /\ x = [in |-> x.in, out |-> x.out]
        /\ x.in \in RoleSet(text.dates, DatesOf(text, day))
        /\ x.out \in RoleSet(text.dates, DatesOf(text, day))
    BY <1>1, RolesAre DEF RolesOf
  <1>3. \A d \in {x.in, x.out} :
            d = NoDate \/ \E i \in DOMAIN text.dates : d = DatesOf(text, day)[i]
    BY <1>2 DEF RoleSet
  <1>4. ASSUME NoDate \notin {x.in, x.out}
        PROVE  BothEnds(x)
    <2>1. \A d \in {x.in, x.out} : d \in Int /\ d > YearLength
      BY <1>3, <1>4, DatedIs
    <2>. QED
      BY <1>2, <2>1 DEF BothEnds
  <1>. QED
    BY <1>2, <1>3, <1>4

\* Without a word for a year no date has passed, and one that is not a bare
\* second day is less than a year away.
LEMMA UnnamedDates ==
    ASSUME NEW text \in Text \cup Follow, NEW day \in Today, ~NamesAYear(text)
    PROVE  \A i \in DOMAIN text.dates :
               /\ DatesOf(text, day)[i] \in Int /\ DatesOf(text, day)[i] >= day
               /\ ~text.dates[i].short => DatesOf(text, day)[i] < day + YearLength
  <1>1. WordsBefore(text.dates, Len(text.dates)) = {}
    BY DEF NamesAYear
  <1>2. \A i \in DOMAIN text.dates : WordsBefore(text.dates, i) = {}
    <2>1. ASSUME NEW i \in DOMAIN text.dates, NEW j \in WordsBefore(text.dates, i)
          PROVE  FALSE
      <3>1. i \in 1..Len(text.dates) /\ Len(text.dates) \in Nat
        BY MentionsAre
      <3>2. j \in 1..i /\ text.dates[j].word # "none"
        BY <2>1 DEF WordsBefore
      <3>3. j \in 1..Len(text.dates)
        BY <3>1, <3>2
      <3>. QED
        BY <1>1, <3>2, <3>3 DEF WordsBefore
    <2>. QED
      BY <2>1
  <1>. QED
    BY <1>2, DatedIs

LEMMA ReadingOf ==
    ASSUME NEW text, NEW day
    PROVE  /\ NamesAYear(text) => Reading(text, day) = Reconcile(RolesOf(text, day), NoDate)
           /\ ~NamesAYear(text) => Reading(text, day) = Reconcile(RolesOf(text, day), day)
           /\ NoDate \in {RolesOf(text, day).in, RolesOf(text, day).out} =>
                 Reading(text, day) = RolesOf(text, day)
  BY DEF Reading, RolesOf, DatesOf, Reconcile

LEMMA RangeReading ==
    ASSUME NEW text \in Text \cup Follow, NEW day \in Today,
           Len(text.dates) = 2, text.dates[1].link, text.dates[1].label # "out",
           text.dates[1].label = "in" => text.dates[2].label # "in",
           NEW y, y = Reading(text, day)
    PROVE  /\ NoDate \notin {y.in, y.out}
           /\ DayOf(y.in) = text.dates[1].day /\ DayOf(y.out) = text.dates[2].day
  <1>. DEFINE x == RolesOf(text, day)
              a == DatesOf(text, day)[1]
              b == DatesOf(text, day)[2]
  <1>1. text.dates \in Seq(Mention) /\ day \in Int /\ YearLength \in Nat
    BY StaysAssumption
  <1>2. 1 \in DOMAIN text.dates /\ 2 \in DOMAIN text.dates
    BY <1>1
  <1>3. /\ a \in Int /\ a > YearLength /\ DayOf(a) = text.dates[1].day
        /\ b \in Int /\ b > YearLength /\ DayOf(b) = text.dates[2].day
    BY <1>2, DatedIs
  <1>4. a # NoDate /\ b # NoDate
    BY <1>1, <1>3 DEF NoDate
  <1>5. x = [in |-> a, out |-> b]
    BY <1>1, <1>4, RolesOfRange DEF RolesOf
  <1>. HIDE DEF x, a, b
  <1>6. BothEnds(x) /\ x.in = a /\ x.out = b
    BY <1>3, <1>5 DEF BothEnds
  <1>7. \E notBefore \in Int : y = Reconcile(x, notBefore)
    BY <1>1, ReadingOf DEF x, NoDate
  <1>8. /\ y.in \in Int /\ y.out \in Int /\ y.in > 0 /\ y.out > 0
        /\ DayOf(y.in) = DayOf(x.in) /\ DayOf(y.out) = DayOf(x.out)
    BY <1>6, <1>7, ReconcileKeepsDays
  <1>. QED
    BY <1>3, <1>6, <1>8 DEF NoDate

-----------------------------------------------------------------------------
(* The next stay.                                                          *)

\* Two ends of which each is the next day of its kind.
Ahead(stay, day) ==
    /\ BothEnds(stay)
    /\ stay.in >= day /\ stay.in < day + YearLength
    /\ stay.out >= day /\ stay.out < day + YearLength

LEMMA YearAhead ==
    ASSUME NEW x \in Int, NEW day \in Int, x >= day, x < day + YearLength
    PROVE  YearOf(x) \in {YearOf(day), YearOf(day) + 1}
  <1>1. YearLength \in Nat \ {0} /\ YearOf(x) \in Int /\ YearOf(day) \in Int
    BY StaysAssumption, DateIs
  <1>2. ~(YearOf(day) > YearOf(x))
    BY YearsApart
  <1>3. ~(YearOf(x) > YearOf(day) + 1)
    <2>. DEFINE z == day + 1 * YearLength
    <2>1. z \in Int /\ YearOf(z) = YearOf(day) + 1 /\ z = day + YearLength
      BY <1>1, ShiftedDate, TimesIs
    <2>. HIDE DEF z
    <2>2. YearOf(x) > YearOf(z) => x > z
      BY <2>1, YearsApart
    <2>. QED
      BY <1>1, <2>1, <2>2
  <1>. QED
    BY <1>1, <1>2, <1>3

\* A placement of the two days differs from the ends by whole years.
LEMMA PlacementIs ==
    ASSUME NEW stay, BothEnds(stay), NEW x, DayOf(x.in) = DayOf(stay.in),
           DayOf(x.out) = DayOf(stay.out), today \in Int, NEW p \in Placements(x)
    PROVE  \E i, j \in Int : /\ p.in = stay.in + i * YearLength
                             /\ p.out = stay.out + j * YearLength
  <1>1. /\ stay.in \in Int /\ stay.out \in Int
        /\ YearOf(stay.in) \in Int /\ YearOf(stay.out) \in Int /\ YearOf(today) \in Int
    BY DateIs DEF BothEnds
  <1>2. PICK y \in (YearOf(today) - 1)..(YearOf(today) + 2), z \in (YearOf(today) - 1)..(YearOf(today) + 2) :
            p = [in |-> DateOf(y, DayOf(x.in)), out |-> DateOf(z, DayOf(x.out))]
    BY DEF Placements
  <1>3. y \in Int /\ z \in Int
    BY <1>1
  <1>4. ASSUME NEW d \in Int, NEW v \in Int, YearOf(d) \in Int
        PROVE  DateOf(v, DayOf(d)) = d + (v - YearOf(d)) * YearLength /\ v - YearOf(d) \in Int
    <2>. DEFINE k == v - YearOf(d)
    <2>1. k \in Int /\ YearOf(d) + k = v
      BY <1>4
    <2>. HIDE DEF k
    <2>2. d + k * YearLength = DateOf(YearOf(d) + k, DayOf(d))
      BY <2>1, ShiftedDate
    <2>. QED
      BY <2>1, <2>2 DEF k
  <1>5. /\ p.in = stay.in + (y - YearOf(stay.in)) * YearLength /\ y - YearOf(stay.in) \in Int
        /\ p.out = stay.out + (z - YearOf(stay.out)) * YearLength /\ z - YearOf(stay.out) \in Int
    BY <1>1, <1>2, <1>3, <1>4
  <1>. QED
    BY <1>5

\* A date among the placements, by its year.
LEMMA IsPlacement ==
    ASSUME NEW x, x = [in |-> x.in, out |-> x.out], x.in \in Int, x.out \in Int, today \in Int,
           YearOf(x.in) \in (YearOf(today) - 1)..(YearOf(today) + 2),
           YearOf(x.out) \in (YearOf(today) - 1)..(YearOf(today) + 2)
    PROVE  x \in Placements(x)
  <1>1. x = [in |-> DateOf(YearOf(x.in), DayOf(x.in)), out |-> DateOf(YearOf(x.out), DayOf(x.out))]
    BY DateIs
  <1>. QED
    BY <1>1 DEF Placements

\* What is plausible has the ends as they are or the arrival a year before, and
\* does not end before them.
LEMMA NothingSooner ==
    ASSUME NEW stay, NEW day \in Int, Ahead(stay, day), NEW i \in Int, NEW j \in Int, NEW p,
           p.in = stay.in + i * YearLength, p.out = stay.out + j * YearLength, Plausible(p, day)
    PROVE  /\ stay.out <= p.out
           /\ Plausible(stay, day) \/ Plausible(Back(stay), day)
  <1>. DEFINE N == YearLength
              k == j - i
  <1>1. N \in Nat \ {0} /\ MaxNights \in Nat /\ MaxNights < N
    BY StaysAssumption
  <1>2. /\ stay.in \in Int /\ stay.in >= day /\ stay.in < day + N
        /\ stay.out \in Int /\ stay.out >= day /\ stay.out < day + N
    BY DEF Ahead, BothEnds
  <1>3. i * N \in Int /\ j * N \in Int /\ j * N - i * N = k * N /\ k \in Int /\ k * N \in Int
    BY <1>1, TimesIs, TimesAdds
  <1>4. p.out - p.in \in 1..MaxNights /\ p.out >= day
    BY DEF Plausible
  <1>5. p.out - p.in = stay.out - stay.in + k * N
    BY <1>2, <1>3
  <1>6. ~(j <= -1)
    <2>1. j <= -1 => j * N <= -N
      BY <1>1, TimesIs
    <2>. QED
      BY <1>1, <1>2, <1>3, <1>4, <2>1
  <1>7. j * N >= 0
    BY <1>1, <1>6, TimesIs
  <1>8. k = 0 \/ k = 1
    <2>1. (k <= -1 => k * N <= -N) /\ (k >= 2 => k * N >= N + N)
      BY <1>1, <1>3, TimesIs
    <2>. HIDE DEF k, N
    <2>2. ~(k <= -1) /\ ~(k >= 2)
      BY <1>1, <1>2, <1>3, <1>4, <1>5, <2>1
    <2>. QED
      BY <1>3, <2>2
  <1>9. CASE k = 0
    <2>1. k * N = 0
      BY <1>1, <1>9, TimesIs
    <2>2. stay.out - stay.in \in 1..MaxNights
      BY <1>2, <1>4, <1>5, <2>1
    <2>. QED
      BY <1>2, <1>3, <1>7, <2>2 DEF Plausible
  <1>10. CASE k = 1
    <2>1. k * N = N /\ (-1) * N = -N /\ 0 * N = 0
      BY <1>1, <1>10, TimesIs
    <2>2. Back(stay).in = stay.in - N /\ Back(stay).out = stay.out
      BY <1>1, <1>2, <2>1 DEF Back, Shifted
    <2>3. stay.out - (stay.in - N) \in 1..MaxNights
      BY <1>1, <1>2, <1>4, <1>5, <2>1
    <2>. QED
      BY <1>2, <1>3, <1>7, <2>2, <2>3 DEF Plausible
  <1>. QED
    BY <1>8, <1>9, <1>10

\* The reading of a message that says both ends and no year.
LEMMA NextReading ==
    ASSUME today \in Today, NEW text \in Text \cup Follow, ~NamesAYear(text),
           \A i \in DOMAIN text.dates : ~text.dates[i].short,
           NEW y, y = Reading(text, today), NoDate \notin {y.in, y.out}
    PROVE  IF {p \in Placements(y) : Plausible(p, today)} = {} THEN YearOf(y.in) = YearOf(y.out)
           ELSE /\ y \in {p \in Placements(y) : Plausible(p, today)}
                /\ \A p \in {p \in Placements(y) : Plausible(p, today)} : y.out <= p.out
  <1>. DEFINE x == RolesOf(text, today)
  <1>1. today \in Int /\ today # NoDate /\ YearLength \in Nat \ {0}
    BY StaysAssumption DEF NoDate
  <1>2. y = Reconcile(x, today) /\ NoDate \notin {x.in, x.out}
    BY ReadingOf
  <1>3. Ahead(x, today)
    <2>1. /\ BothEnds(x)
          /\ \A d \in {x.in, x.out} : \E i \in DOMAIN text.dates : d = DatesOf(text, today)[i]
      BY <1>2, RolesOfIs
    <2>. HIDE DEF x
    <2>2. \A d \in {x.in, x.out} : d >= today /\ d < today + YearLength
      BY <2>1, UnnamedDates
    <2>. QED
      BY <2>1, <2>2 DEF Ahead
  <1>. HIDE DEF x
  <1>4. BothEnds(x) /\ x.in \in Int /\ x.out \in Int
    BY <1>3 DEF Ahead, BothEnds
  <1>5. /\ y = [in |-> y.in, out |-> y.out] /\ y.in \in Int /\ y.out \in Int
        /\ DayOf(y.in) = DayOf(x.in) /\ DayOf(y.out) = DayOf(x.out)
    BY <1>1, <1>2, <1>4, ReconcileKeepsDays
  <1>6. ASSUME NEW p \in Placements(y), Plausible(p, today)
        PROVE  /\ x.out <= p.out
               /\ Plausible(x, today) \/ Plausible(Back(x), today)
    <2>1. PICK i \in Int, j \in Int : /\ p.in = x.in + i * YearLength
                                      /\ p.out = x.out + j * YearLength
      BY <1>1, <1>4, <1>5, PlacementIs
    <2>. QED
      BY <1>1, <1>3, <1>6, <2>1, NothingSooner
  <1>7. CASE Plausible(x, today) \/ Plausible(Back(x), today)
    <2>1. y \in {x, Back(x)} /\ Plausible(y, today)
      BY <1>1, <1>2, <1>4, <1>7, ReconcileIs
    <2>2. /\ YearOf(x.in) \in {YearOf(today), YearOf(today) + 1}
          /\ YearOf(x.out) \in {YearOf(today), YearOf(today) + 1}
          /\ YearOf(today) \in Int
      BY <1>1, <1>3, <1>4, YearAhead, DateIs DEF Ahead
    <2>3. /\ Back(x).out = x.out
          /\ YearOf(Back(x).in) = YearOf(x.in) - 1
      <3>1. Back(x) = [in |-> x.in + (-1) * YearLength, out |-> x.out + 0 * YearLength]
        BY DEF Back, Shifted
      <3>2. 0 * YearLength = 0
        BY <1>1, TimesIs
      <3>3. YearOf(x.in + (-1) * YearLength) = YearOf(x.in) + (-1)
        <4>. DEFINE m == -1
        <4>1. m \in Int
          OBVIOUS
        <4>. HIDE DEF m
        <4>2. YearOf(x.in + m * YearLength) = YearOf(x.in) + m
          BY <1>4, <4>1, ShiftedDate
        <4>. QED
          BY <4>2 DEF m
      <3>4. YearOf(x.in) + (-1) = YearOf(x.in) - 1
        BY <2>2
      <3>. QED
        BY <1>4, <3>1, <3>2, <3>3, <3>4
    <2>4. /\ y.out = x.out
          /\ YearOf(y.in) \in (YearOf(today) - 1)..(YearOf(today) + 2)
          /\ YearOf(y.out) \in (YearOf(today) - 1)..(YearOf(today) + 2)
      BY <2>1, <2>2, <2>3
    <2>5. y \in Placements(y)
      BY <1>1, <1>5, <2>4, IsPlacement
    <2>. QED
      BY <1>6, <2>1, <2>4, <2>5
  <1>8. CASE ~(Plausible(x, today) \/ Plausible(Back(x), today))
    <2>1. {p \in Placements(y) : Plausible(p, today)} = {}
      BY <1>6, <1>8
    <2>2. y = Collapsed(x)
      <3>1. y \in Shifts(x) /\ Plausible(y, today) => FALSE
        <4>1. SUFFICES ASSUME y \in Shifts(x), Plausible(y, today)
                       PROVE  FALSE
          OBVIOUS
        <4>2. PICK a \in {-1, 0, 1}, b \in {-1, 0, 1} : y = Shifted(x, a, b)
          BY <1>4, <4>1, BothEndsShift
        <4>3. a \in Int /\ b \in Int
          OBVIOUS
        <4>4. y.in = x.in + a * YearLength /\ y.out = x.out + b * YearLength
          BY <4>2 DEF Shifted
        <4>. QED
          BY <1>1, <1>3, <1>8, <4>1, <4>3, <4>4, NothingSooner
      <3>. QED
        BY <1>1, <1>2, <1>4, <3>1, ReconcileIs
    <2>3. YearOf(y.in) = YearOf(y.out)
      BY <1>4, <2>2, CollapsedIs
    <2>. QED
      BY <2>1, <2>3
  <1>. QED
    BY <1>7, <1>8

\* What a reading without a year says of the days to come.
LEMMA ReadingAhead ==
    ASSUME NEW text \in Text \cup Follow, NEW day \in Today, ~NamesAYear(text),
           NEW y, y = Reading(text, day)
    PROVE  /\ y.in \in Int /\ y.out \in Int
           /\ y.in # NoDate /\ y.out = NoDate => y.in >= day
           /\ y.out # NoDate => \/ y.out >= day
                                \/ y.in # NoDate /\ y.in >= y.out
  <1>. DEFINE x == RolesOf(text, day)
  <1>1. day \in Int /\ day # NoDate /\ YearLength \in Nat \ {0} /\ NoDate \in Int
    BY StaysAssumption DEF NoDate
  <1>2. \A d \in {x.in, x.out} : d = NoDate \/ (d \in Int /\ d >= day)
    BY RolesOfIs, UnnamedDates
  <1>3. NoDate \notin {x.in, x.out} => BothEnds(x)
    BY RolesOfIs
  <1>4. /\ NoDate \in {x.in, x.out} => y = x
        /\ y = Reconcile(x, day)
    BY ReadingOf
  <1>. HIDE DEF x
  <1>5. CASE NoDate \in {x.in, x.out}
    BY <1>1, <1>2, <1>4, <1>5
  <1>6. CASE NoDate \notin {x.in, x.out}
    <2>1. BothEnds(x) /\ x.in \in Int /\ x.in >= day
      BY <1>2, <1>3, <1>6
    <2>2. y.in \in Int /\ y.out \in Int /\ y.in > 0 /\ y.out > 0
      BY <1>1, <1>4, <2>1, ReconcileKeepsDays
    <2>3. y.in # NoDate
      BY <2>2 DEF NoDate
    <2>4. CASE y = Collapsed(x)
      <3>1. y.in = x.in
        BY <2>1, <2>4, CollapsedIs
      <3>. QED
        BY <1>1, <2>1, <2>2, <2>3, <3>1
    <2>5. CASE Plausible(y, day)
      BY <1>1, <2>2, <2>3, <2>5 DEF Plausible, NoDate
    <2>. QED
      BY <1>1, <1>4, <2>1, <2>4, <2>5, ReconcileIs
  <1>. QED
    BY <1>5, <1>6

-----------------------------------------------------------------------------
(* The inductive invariant.                                                *)

\* The types that the argument needs; a departure is said today or earlier.
STypes ==
    /\ today \in Today
    /\ row.in \in Int /\ row.out \in Int
    /\ asof \in Int /\ asof <= today

\* What was said is read on the day it was said.
SaidIsRead ==
    said # NotSaid =>
        /\ said.text \in Text \cup Follow
        /\ said.reading = Reading(said.text, today)

\* A departure lies ahead of the day on which it was said, or not behind the
\* arrival, so that nobody can price the stay.
RowIsAhead ==
    ~named /\ row.out # NoDate => row.out >= asof \/ (row.in # NoDate /\ row.in >= row.out)

SInv == STypes /\ SaidIsRead /\ RowIsAhead

LEMMA SayKeeps ==
    ASSUME SInv, NEW text \in Text \cup Follow, Say(text)
    PROVE  SInv'
  <1>. DEFINE y == Reading(text, today)
  <1>1. /\ said' = [text |-> text, reading |-> y] /\ row' = Merged(y)
        /\ asof' = IF y.out = NoDate THEN asof ELSE today
        /\ named' = (named \/ NamesAYear(text)) /\ today' = today
    BY DEF Say
  <1>2. SaidIsRead'
    BY <1>1 DEF SaidIsRead
  <1>3. /\ row'.in = IF y.in = NoDate THEN row.in ELSE y.in
        /\ row'.out = IF y.out = NoDate THEN row.out ELSE y.out
    <2>1. row' = [end \in {"in", "out"} |-> IF y[end] = NoDate THEN row[end] ELSE y[end]]
      BY <1>1 DEF Merged
    <2>. HIDE DEF y
    <2>. QED
      BY <2>1
  <1>4. y.in \in Int /\ y.out \in Int
    <2>. DEFINE x == RolesOf(text, today)
    <2>0. today \in Today /\ today \in Int /\ NoDate \in Int
      BY StaysAssumption DEF SInv, STypes, NoDate
    <2>1. CASE NoDate \in {x.in, x.out}
      <3>1. y = x
        BY <2>1, ReadingOf
      <3>. HIDE DEF x
      <3>2. \A d \in {x.in, x.out} : d = NoDate \/ \E i \in DOMAIN text.dates : d = DatesOf(text, today)[i]
        BY <2>0, RolesOfIs DEF x
      <3>. HIDE DEF y
      <3>. QED
        BY <2>0, <3>1, <3>2, DatedIs
    <2>2. CASE NoDate \notin {x.in, x.out}
      <3>1. BothEnds(x)
        BY <2>0, <2>2, RolesOfIs
      <3>2. \E notBefore \in Int : y = Reconcile(x, notBefore)
        BY <2>0, ReadingOf
      <3>. HIDE DEF x, y
      <3>. QED
        BY <3>1, <3>2, ReconcileKeepsDays
    <2>. QED
      BY <2>1, <2>2
  <1>5. today \in Today /\ today \in Int
    BY StaysAssumption DEF SInv, STypes
  <1>6. ~NamesAYear(text) =>
            /\ y.in # NoDate /\ y.out = NoDate => y.in >= today
            /\ y.out # NoDate => y.out >= today \/ (y.in # NoDate /\ y.in >= y.out)
    BY <1>5, ReadingAhead
  <1>. HIDE DEF y
  <1>7. STypes'
    BY <1>1, <1>3, <1>4, <1>5 DEF SInv, STypes
  <1>8. RowIsAhead'
    <2>1. SUFFICES ASSUME ~named', row'.out # NoDate
                   PROVE  row'.out >= asof' \/ (row'.in # NoDate /\ row'.in >= row'.out)
      BY DEF RowIsAhead
    <2>2. ~named /\ ~NamesAYear(text)
      BY <1>1, <2>1
    <2>3. CASE y.out # NoDate
      BY <1>1, <1>3, <1>6, <2>2, <2>3
    <2>4. CASE y.out = NoDate /\ y.in = NoDate
      BY <1>1, <1>3, <2>1, <2>2, <2>4 DEF SInv, RowIsAhead
    <2>5. CASE y.out = NoDate /\ y.in # NoDate
      <3>1. y.in >= today /\ row'.in = y.in /\ row'.out = row.out /\ asof' = asof
        BY <1>1, <1>3, <1>6, <2>2, <2>5
      <3>2. asof \in Int /\ asof <= today /\ row.out \in Int
        BY DEF SInv, STypes
      <3>. QED
        BY <1>4, <1>5, <2>5, <3>1, <3>2
    <2>. QED
      BY <2>3, <2>4, <2>5
  <1>. QED
    BY <1>2, <1>7, <1>8 DEF SInv

LEMMA SInvHolds == Spec => []SInv
  <1>0. \A day \in Today : day \in Int /\ day > YearLength /\ day > 0
    BY StaysAssumption
  <1>1. Init => SInv
    BY <1>0 DEF Init, SInv, STypes, SaidIsRead, RowIsAhead, NoStay, NoDate
  <1>2. SInv /\ [Next]_vars => SInv'
    <2>. SUFFICES ASSUME SInv, [Next]_vars
                  PROVE  SInv'
      OBVIOUS
    <2>1. ASSUME NEW text \in IF row = NoStay THEN Text ELSE Follow, Say(text)
          PROVE  SInv'
      BY <2>1, SayKeeps
    <2>2. CASE Answered
      BY <2>2 DEF Answered, SInv, STypes, SaidIsRead, RowIsAhead
    <2>3. CASE Midnight
      BY <1>0, <2>3 DEF Midnight, SInv, STypes, SaidIsRead, RowIsAhead
    <2>4. CASE RowEnds
      BY <1>0, <2>4 DEF RowEnds, SInv, STypes, SaidIsRead, RowIsAhead, NoStay, NoDate
    <2>5. CASE UNCHANGED vars
      BY <2>5 DEF vars, SInv, STypes, SaidIsRead, RowIsAhead
    <2>. QED
      BY <2>1, <2>2, <2>3, <2>4, <2>5 DEF Next
  <1>. QED
    BY <1>1, <1>2, PTL DEF Spec

-----------------------------------------------------------------------------
(* The theorems.                                                           *)

\* A message that says both ends and no year is read as the plausible stay that
\* ends first, or shows that there is none, for years and stays of any length.
THEOREM ReadsTheNextStay == Spec => []NextStay
  <1>1. SInv => NextStay
    <2>. SUFFICES ASSUME SInv
                  PROVE  NextStay
      OBVIOUS
    <2>1. CASE said = NotSaid
      BY <2>1 DEF NextStay, NotSaid, NoStay
    <2>2. CASE said # NotSaid
      <3>1. /\ today \in Today /\ said.text \in Text \cup Follow
            /\ said.reading = Reading(said.text, today)
        BY <2>2 DEF SInv, STypes, SaidIsRead
      <3>. QED
        BY <3>1, NextReading DEF NextStay
    <2>. QED
      BY <2>1, <2>2
  <1>. QED
    BY <1>1, SInvHolds, PTL

\* A range of two dates is read as one, whatever its labels leave open and
\* whatever the years.
THEOREM ReadsTheRange == Spec => []RangeIsRead
  <1>1. SInv => RangeIsRead
    <2>. SUFFICES ASSUME SInv
                  PROVE  RangeIsRead
      OBVIOUS
    <2>1. CASE said = NotSaid
      <3>1. Len(said.text.dates) = 0
        BY <2>1 DEF NotSaid
      <3>. QED
        BY <3>1 DEF RangeIsRead
    <2>2. CASE said # NotSaid
      <3>1. /\ today \in Today /\ said.text \in Text \cup Follow
            /\ said.reading = Reading(said.text, today)
        BY <2>2 DEF SInv, STypes, SaidIsRead
      <3>. QED
        BY <3>1, RangeReading DEF RangeIsRead
    <2>. QED
      BY <2>1, <2>2
  <1>. QED
    BY <1>1, SInvHolds, PTL

\* A stay that can be priced and has no named year had not ended when its
\* departure was said, over any number of messages and days.
THEOREM RowStaysAhead == Spec => []StayIsAhead
  <1>1. SInv => StayIsAhead
    BY DEF SInv, STypes, RowIsAhead, StayIsAhead
  <1>. QED
    BY <1>1, SInvHolds, PTL
=============================================================================
