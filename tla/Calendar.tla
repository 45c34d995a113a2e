------------------------------ MODULE Calendar ------------------------------
(***************************************************************************)
(* What a night is priced as: domain/holiday_calendar.py, the years that   *)
(* domain/holiday_gate.py asks for, and the price types of                 *)
(* domain/pricing_policy.py.  Days are numbered through the years; every   *)
(* year has YearLength of them.                                            *)
(*                                                                         *)
(* Abstracted: the summer months, which only choose between two rates.     *)
(***************************************************************************)
EXTENDS Integers, FiniteSets

CONSTANTS
    YearLength,  \* days in a year
    LastYear,    \* the years are 1 to LastYear
    Saturdays,   \* the days that are Saturdays
    OwnSpecial   \* special_dates of the tenant's config, as SpecialDates gives them

Year == 1..LastYear
Day == 1..(YearLength * LastYear)

ASSUME CalendarAssumption ==
    /\ YearLength \in Nat \ {0}
    /\ LastYear \in Nat
    /\ Saturdays \subseteq Day
    /\ OwnSpecial \in [national : SUBSET Day, spring : SUBSET Day]

YearOf(d) == (d - 1) \div YearLength + 1
DaysOf(y) == {d \in Day : YearOf(d) = y}

\* The rows of a calendar: a working day, a day off without a name (an
\* ordinary weekend), a named holiday, a holiday with a spring festival name.
Kind == {"work", "off", "named", "spring"}

\* A published file has rows for the days of its year: none, one or two of
\* them well formed.
Payloads(y) == [DaysOf(y) -> 0..2]

\* parse_calendar_payload: malformed rows and both copies of a repeated day
\* are dropped.
Parsed(payload) == {d \in DOMAIN payload : payload[d] = 1}

\* FAULTY VARIANT of YearIsComplete: rows are counted, not days.
YearHasAllRows(payload, y) ==
    /\ payload # <<>>
    /\ LET twice == {d \in DOMAIN payload : payload[d] = 2}
       IN  Cardinality(Parsed(payload)) + 2 * Cardinality(twice) = Cardinality(DaysOf(y))

\* _year_is_complete.
YearIsComplete(payload, y) == payload # <<>> /\ Parsed(payload) = DaysOf(y)

-----------------------------------------------------------------------------
(* derive_special_dates.  A calendar c gives the kind of the days it has.  *)

DaysOff(c) == {d \in DOMAIN c : c[d] # "work"}

\* _consecutive_holiday_runs: the days off that hang together with d.
RunOf(c, d) == {e \in DaysOff(c) : (d..e) \cup (e..d) \subseteq DaysOff(c)}

\* A run with a named day is a holiday in full, and a spring festival in full
\* if one of the names says so.
SpecialDates(c) ==
    [national |-> {d \in DaysOff(c) : \E e \in RunOf(c, d) : c[e] \in {"named", "spring"}},
     spring |-> {d \in DaysOff(c) : \E e \in RunOf(c, d) : c[e] = "spring"}]

\* special_dates_for: the tenant's own dates are merged over it.
WithOwn(special) ==
    [national |-> special.national \cup OwnSpecial.national,
     spring |-> special.spring \cup OwnSpecial.spring]

PriceTypes == {"spring_festival", "national_holiday", "saturday", "weekday"}

\* _resolve_price_type.
PriceType(special, night) ==
    CASE night \in special.spring -> "spring_festival"
      [] night \in special.national \ special.spring -> "national_holiday"
      [] OTHER -> IF night \in Saturdays THEN "saturday" ELSE "weekday"

\* _iter_nights.
Nights(checkin, checkout) == checkin..(checkout - 1)

\* _years_touched: of the nights, and of the day on either side.
YearsTouched(checkin, checkout) ==
    IF checkout <= checkin THEN {}
    ELSE {YearOf(d) : d \in {checkin - 1, checkin, checkout - 1, checkout}}

=============================================================================
