----------------------------- MODULE MCQuoting -----------------------------
(* Two years of five days, and the room policy and the rates of            *)
(* data/tenants/zhen123-house/config.json (year round, in thousands), with *)
(* a rule for one room added that has no rate.                             *)
EXTENDS Quoting, TLC

CONSTANTS boot, worker

RulesDef == <<
    [rooms |-> 1, min |-> 1, max |-> 4, extra |-> FALSE],
    [rooms |-> 2, min |-> 1, max |-> 8, extra |-> FALSE],
    [rooms |-> 3, min |-> 1, max |-> 10, extra |-> FALSE],
    [rooms |-> 4, min |-> 1, max |-> 12, extra |-> FALSE],
    [rooms |-> 4, min |-> 13, max |-> 16, extra |-> TRUE]>>

Rates(weekday, saturday, spring) ==
    [weekday |-> weekday, saturday |-> saturday, national_holiday |-> saturday,
     spring_festival |-> spring]

RateDef == (8 :> Rates(10, 15, 25)) @@ (10 :> Rates(12, 18, 28)) @@ (12 :> Rates(15, 21, 31))

\* The weekend before the first day of the second year, a named holiday; and
\* a spring festival in the second year.
PublishedDef ==
    {(1 :> "work") @@ (2 :> "work") @@ (3 :> "work") @@ (4 :> "off") @@ (5 :> "off")
        @@ (6 :> "named") @@ (7 :> "work") @@ (8 :> "spring") @@ (9 :> "off") @@ (10 :> "work")}

SaturdaysDef == {4, 9}
OwnDef == [national |-> {2}, spring |-> {}]
WarmDef == {1, 2}

\* A night of each stay.
BookableDef == {2, 5, 9}

Asks(path, slots) == [path |-> path, dated |-> TRUE, dog |-> FALSE, slots |-> slots]
Stay(checkin, checkout, adults, rooms) ==
    [checkin |-> checkin, checkout |-> checkout, adults |-> adults, rooms |-> rooms]
WithDog(j) == [j EXCEPT !.dog = TRUE]

\* Two children, and nothing said of adults.
ChildrenDef == {Asks("message", [checkin |-> 2, checkout |-> 3, children |-> 2, rooms |-> 2])}

\* A stay on a weekday, over new year, over the festival; one without a
\* checkout; one for too many guests for its rooms, with a dog of which the
\* number is known, or not; one that ends before it begins; one too large; one
\* in the room without a rate.
JobDef == {
    Asks("message", Stay(2, 3, 8, 2)),
    Asks("state", Stay(5, 7, 14, 4) @@ [bbq |-> 1]),
    Asks("message", Stay(8, 10, 9, 3)),
    Asks("message", [checkin |-> 5, adults |-> 2]),
    WithDog(Asks("state", Stay(5, 6, 9, 2) @@ [pets |-> 1])),
    WithDog(Asks("state", Stay(5, 6, 9, 2))),
    Asks("state", Stay(6, 5, 4, 2)),
    Asks("message", Stay(5, 6, 17, 4)),
    Asks("message", Stay(5, 6, 3, 1))} \cup ChildrenDef

\* What the theorems about quotes ask for, true of this policy and these stays.
ASSUME PolicyIsSound == SoundPolicy
ASSUME StaysAreShort == StaysWithinAYear /\ StaysInCalendar
ASSUME RatesAreSound == SoundRates
=============================================================================
