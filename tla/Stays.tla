------------------------------- MODULE Stays -------------------------------
(***************************************************************************)
(* The two ends of a stay as the desk reads them out of a customer's       *)
(* messages (domain/date_parser.py), which name a day and seldom a year,   *)
(* and as the conversation row puts them together.                         *)
(*                                                                         *)
(* Days are numbered through the years, all of one length: 29 February is  *)
(* left out, and so are days that no year has, which the code reads past.  *)
(* A message is the sequence of its dates; the regular expressions that    *)
(* find them, and the words beside them, are not modelled.  A message is   *)
(* read on the day it was sent (parse_inquiry); the path for callers that  *)
(* give no day, which only tests and guards take, is left out; so are the  *)
(* dates of an LLM, which come with their year and take the place of these.*)
(***************************************************************************)
EXTENDS Integers, FiniteSets, SequencesExt

CONSTANTS
    YearLength,
    MaxNights,  \* _MAX_PLAUSIBLE_STAY_NIGHTS
    Today,      \* BOUND: the days on which the customer writes
    Text,       \* what she may write to begin with
    Follow      \* BOUND: and once a row is open

\* A date of a message: its day within a year; the year word between it and the
\* date before; its label; whether only a range sign stands between it and the
\* next one; whether it is the bare second day of "7/17-18".
\* later: a year word after the last date.
Words == {"none", "this", "next", "after"}
Mention == [day : 1..YearLength, word : Words, label : {"none", "in", "out"},
            link : BOOLEAN, short : BOOLEAN]

ASSUME StaysAssumption ==
    /\ YearLength \in Nat \ {0}
    /\ MaxNights \in 1..(YearLength - 1)
    /\ Today \subseteq {day \in Nat : day > YearLength}  \* not in the first of all years
    /\ \A t \in Text \cup Follow :
          /\ t.later \in BOOLEAN
          /\ t.dates \in Seq(Mention)
          /\ \A i \in DOMAIN t.dates : t.dates[i].short =>
                /\ i > 1 /\ t.dates[i - 1].link /\ ~t.dates[i - 1].short
                /\ t.dates[i].word = "none"

NoDate == 0
DateOf(year, day) == year * YearLength + day
YearOf(date) == (date - 1) \div YearLength
DayOf(date) == 1 + ((date - 1) % YearLength)

NoStay == [in |-> NoDate, out |-> NoDate]

-----------------------------------------------------------------------------
(* The reading of a message.                                               *)

\* FAULTY VARIANT of Build: yesterday has not passed.
BuildFromYesterday(year, day, notBefore) ==
    IF DateOf(year, day) + 1 >= notBefore THEN DateOf(year, day) ELSE DateOf(year + 1, day)

\* _build_date: a day that has passed is one of next year.
Build(year, day, notBefore) ==
    IF DateOf(year, day) >= notBefore THEN DateOf(year, day) ELSE DateOf(year + 1, day)

WordsBefore(dates, i) == {j \in 1..i : dates[j].word # "none"}
Offset == [this |-> 0, next |-> 1, after |-> 2]

\* _basis_for_match: the last year word before a date gives its year, and then
\* it is not moved.  The bare second day of a range has the year of the first.
Dated(dates, i, today) ==
    LET named == WordsBefore(dates, i)
        notBefore == IF named = {} THEN today ELSE NoDate
        year == YearOf(today) +
            IF named = {} THEN 0 ELSE Offset[dates[Max(named)].word]
    IN  IF dates[i].short
        THEN Build(YearOf(Build(year, dates[i - 1].day, notBefore)), dates[i].day, notBefore)
        ELSE Build(year, dates[i].day, notBefore)

\* The first date with a label.
Labelled(dates, date, label) ==
    LET places == {i \in DOMAIN dates : dates[i].label = label}
    IN  IF places = {} THEN NoDate ELSE date[Min(places)]

\* _resolve_range_pairs, for the pair of i and i + 1: a label on one of the ends
\* gives the other one its role, and an arrival label behind a range is for
\* the whole of it.
RepairPair(dates, date, r, i) ==
    LET first == dates[i].label
        second == dates[i + 1].label
    IN  CASE first = "in" /\ second = "none" /\ r.out = NoDate ->
                 [r EXCEPT !.out = date[i + 1], !.loose = @ \ {i + 1}]
          [] first = "none" /\ second = "out" /\ r.in = NoDate ->
                 [r EXCEPT !.in = date[i], !.loose = @ \ {i}]
          [] first = "none" /\ second = "in" /\ r.in = date[i + 1] /\ r.out = NoDate ->
                 [in |-> date[i], out |-> date[i + 1], loose |-> r.loose \ {i}]
          [] OTHER -> r

\* What the labels say.  loose: dates without a role.
ByLabel(dates, date) ==
    [in |-> Labelled(dates, date, "in"), out |-> Labelled(dates, date, "out"),
     loose |-> {i \in DOMAIN dates : dates[i].label = "none"}]

\* And what the ranges make of it, one after the other.
Repaired(dates, date) ==
    LET r[n \in 0..Len(dates)] ==
            IF n = 0 THEN ByLabel(dates, date)
            ELSE IF n < Len(dates) /\ dates[n].link THEN RepairPair(dates, date, r[n - 1], n)
            ELSE r[n - 1]
    IN  r[Len(dates)]

\* FAULTY VARIANT of Roles: ranges are not looked at.
RolesWithoutRanges(dates, date) ==
    LET r == ByLabel(dates, date)
    IN  IF r.in = NoDate /\ r.out = NoDate /\ Cardinality(r.loose) = 2
        THEN [in |-> date[Min(r.loose)], out |-> date[Max(r.loose)]]
        ELSE IF r.in = NoDate /\ r.out = NoDate /\ Len(dates) = 1
        THEN [in |-> date[1], out |-> NoDate]
        ELSE [in |-> r.in, out |-> r.out]

\* parse_stay_dates, up to the years.
Roles(dates, date) ==
    LET r == Repaired(dates, date)
        none == r.in = NoDate /\ r.out = NoDate
    IN  CASE none /\ Cardinality(r.loose) = 2 ->
                 [in |-> date[Min(r.loose)], out |-> date[Max(r.loose)]]
          [] none /\ Len(dates) = 1 -> [in |-> date[1], out |-> NoDate]
          [] OTHER -> [in |-> r.in, out |-> r.out]

Plausible(stay, notBefore) ==
    stay.out - stay.in \in 1..MaxNights /\ stay.out >= notBefore

Shifted(stay, a, b) ==
    [in |-> stay.in + a * YearLength, out |-> stay.out + b * YearLength]

\* The shifts of years, the one to be preferred first.
Candidates(stay, notBefore) ==
    IF notBefore = NoDate THEN <<stay, Shifted(stay, 0, 1)>>
    ELSE <<stay, Shifted(stay, -1, 0), Shifted(stay, 0, 1), Shifted(stay, 0, -1),
           Shifted(stay, 1, 0)>>

Good(stay, notBefore) ==
    {i \in DOMAIN Candidates(stay, notBefore) : Plausible(Candidates(stay, notBefore)[i], notBefore)}

\* FAULTY VARIANT of Reconcile: a pair no shift repairs keeps its years.
ReconcileWithoutCollapse(stay, notBefore) ==
    IF NoDate \in {stay.in, stay.out} \/ Good(stay, notBefore) = {} THEN stay
    ELSE Candidates(stay, notBefore)[Min(Good(stay, notBefore))]

\* _reconcile_stay_years: the first shift of years that makes a plausible stay,
\* or else both ends in the year of the arrival, however they lie.
Reconcile(stay, notBefore) ==
    IF NoDate \in {stay.in, stay.out} THEN stay
    ELSE IF Good(stay, notBefore) # {}
    THEN Candidates(stay, notBefore)[Min(Good(stay, notBefore))]
    ELSE Shifted(stay, 0, YearOf(stay.in) - YearOf(stay.out))

NamesAYear(text) == text.later \/ WordsBefore(text.dates, Len(text.dates)) # {}

Reading(text, today) ==
    LET date == [i \in DOMAIN text.dates |-> Dated(text.dates, i, today)]
    IN  Reconcile(Roles(text.dates, date), IF NamesAYear(text) THEN NoDate ELSE today)

-----------------------------------------------------------------------------
(* The conversation.                                                       *)

VARIABLES
    today,
    row,    \* checkin_date and checkout_date of the active row
    said,   \* the message just recorded, and its reading
    named,  \* history: whether a message of the row named a year
    asof    \* history: the day on which its departure was said

vars == <<today, row, said, named, asof>>

NotSaid == [text |-> [dates |-> <<>>, later |-> FALSE], reading |-> NoStay]

Init ==
    /\ today \in Today
    /\ row = NoStay
    /\ said = NotSaid
    /\ named = FALSE
    /\ asof = NoDate

\* _UPDATE_SLOTS_SQL: what a message does not say stays as it was.
Merged(reading) ==
    [end \in {"in", "out"} |-> IF reading[end] = NoDate THEN row[end] ELSE reading[end]]

\* record, for a message of the customer.  (One that repeats both ends may
\* begin another booking; the dates are the same.)
Say(text) ==
    /\ said = NotSaid
    /\ LET reading == Reading(text, today)
       IN  /\ said' = [text |-> text, reading |-> reading]
           /\ row' = Merged(reading)
           /\ asof' = IF reading.out = NoDate THEN asof ELSE today
    /\ named' = (named \/ NamesAYear(text))
    /\ UNCHANGED today

\* Its turn is over.
Answered ==
    /\ said # NotSaid
    /\ said' = NotSaid
    /\ UNCHANGED <<today, row, named, asof>>

Midnight ==
    /\ said = NotSaid
    /\ today + 1 \in Today
    /\ today' = today + 1
    /\ UNCHANGED <<row, said, named, asof>>

\* mark_completed or expire_stale_for_user.
RowEnds ==
    /\ said = NotSaid
    /\ row' = NoStay
    /\ named' = FALSE
    /\ asof' = NoDate
    /\ UNCHANGED <<today, said>>

Next ==
    \/ \E text \in IF row = NoStay THEN Text ELSE Follow : Say(text)
    \/ Answered
    \/ Midnight
    \/ RowEnds

Spec == Init /\ [][Next]_vars

-----------------------------------------------------------------------------
(* Properties.                                                             *)

\* Every way to lay the two ends of a stay into years around today.
Placements(stay) ==
    LET years == (YearOf(today) - 1)..(YearOf(today) + 2)
    IN  {[in |-> DateOf(y, DayOf(stay.in)), out |-> DateOf(z, DayOf(stay.out))] :
            y \in years, z \in years}

\* A message that says both ends and no year is read as the next stay: of the
\* plausible placements that have not ended, the first.  If there is none, both
\* ends are in one year, so that their order shows the contradiction.
NextStay ==
    LET stay == said.reading
        bare == \E i \in DOMAIN said.text.dates : said.text.dates[i].short
        good == {p \in Placements(stay) : Plausible(p, today)}
    IN  NoDate \notin {stay.in, stay.out} /\ ~NamesAYear(said.text) /\ ~bare =>
            IF good = {} THEN YearOf(stay.in) = YearOf(stay.out)
            ELSE stay \in good /\ \A p \in good : stay.out <= p.out

\* A range of two dates is read as one, whichever end has a label and whatever
\* the years: its first date is the arrival, its second the departure; unless
\* the labels themselves say otherwise.
RangeIsRead ==
    LET dates == said.text.dates
    IN  Len(dates) = 2 /\ dates[1].link /\ dates[1].label # "out"
            /\ (dates[1].label = "in" => dates[2].label # "in") =>
        /\ NoDate \notin {said.reading.in, said.reading.out}
        /\ DayOf(said.reading.in) = dates[1].day
        /\ DayOf(said.reading.out) = dates[2].day

\* A stay of the row that can be priced, to which no message named a year, had
\* not ended when the customer said its departure, over how many messages and
\* days she may have said it.
StayIsAhead ==
    NoDate \notin {row.in, row.out} /\ row.in < row.out /\ ~named => row.out >= asof

-----------------------------------------------------------------------------
(* What the documents say and the code does not do.                        *)

\* domain/date_parser.py: a stay over new year of more nights than
\* _MAX_PLAUSIBLE_STAY_NIGHTS is proof of a wrong guess of a year, and pricing
\* must not accept it.
GuessIsPlausible ==
    NoDate \notin {row.in, row.out} /\ ~named /\ YearOf(row.in) < YearOf(row.out) =>
        row.out - row.in <= MaxNights
=============================================================================
