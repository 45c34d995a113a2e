------------------------------ MODULE Schedule ------------------------------
(***************************************************************************)
(* The clock arithmetic of domain/operation_mode_resolver.py and of the    *)
(* digest's _digest_window_start_date.  Time is counted in ticks from a    *)
(* midnight, Day of them to the tenant's local day; a schedule is the time *)
(* of day at which the desk opens and the one at which it closes, and may  *)
(* wrap past midnight.                                                     *)
(***************************************************************************)
EXTENDS Integers, FiniteSets

CONSTANTS
    Day,         \* ticks per day
    NightWindow  \* _NIGHT_START_TIME, _NIGHT_END_TIME: the same for every tenant

ASSUME DayAssumption == Day \in Nat \ {0}

Schedules == [start : 0..(Day - 1), end : 0..(Day - 1)]

ASSUME NightAssumption == NightWindow \in Schedules

TimeOf(now) == now % Day
Midnight(now) == now - TimeOf(now)

\* The first element of a non-empty set of times.
Earliest(S) == CHOOSE u \in S : \A v \in S : u <= v

\* _schedule_mode_at.
ScheduleOn(s, now) ==
    IF s.start <= s.end THEN s.start <= TimeOf(now) /\ TimeOf(now) < s.end
    ELSE s.start <= TimeOf(now) \/ TimeOf(now) < s.end

\* FAULTY VARIANT of NextBoundary: a boundary that is now counts as the next.
NextBoundaryOrNow(s, now) ==
    LET m == Midnight(now)
    IN  Earliest({u \in {m + s.start, m + s.end, m + Day + s.start, m + Day + s.end} : u >= now})

\* compute_next_schedule_boundary.
NextBoundary(s, now) ==
    LET m == Midnight(now)
    IN  Earliest({u \in {m + s.start, m + s.end, m + Day + s.start, m + Day + s.end} : u > now})

\* compute_next_active_window_end.
NextWindowEnd(s, now) ==
    LET e == Midnight(now) + s.end IN IF e > now THEN e ELSE e + Day

\* compute_most_recent_schedule_window.
RecentWindow(s, now) ==
    LET t == TimeOf(now)
        m == Midnight(now)
    IN  IF s.start = s.end THEN <<m + s.start, m + s.start>>
        ELSE IF s.start < s.end
             THEN IF t < s.start THEN <<m - Day + s.start, m - Day + s.end>>
                  ELSE IF t < s.end THEN <<m + s.start, now>>
                  ELSE <<m + s.start, m + s.end>>
             ELSE IF t >= s.start THEN <<m + s.start, now>>
                  ELSE IF t < s.end THEN <<m - Day + s.start, now>>
                  ELSE <<m - Day + s.start, m + s.end>>

\* _owner_record_window_utc: the tenant's schedule is not asked.
RecordWindow(now) == RecentWindow(NightWindow, now)

\* _digest_window_start_date: the midnight of the day the window began, as a
\* set that is empty outside the window.
DigestDate(s, now) ==
    LET t == TimeOf(now)
        m == Midnight(now)
    IN  IF s.start <= s.end THEN {m : u \in {t} \cap s.start..(s.end - 1)}
        ELSE IF t >= s.start THEN {m}
        ELSE IF t < s.end THEN {m - Day} ELSE {}

-----------------------------------------------------------------------------
(* What they are for, stated over the ticks one by one.                    *)

OpensAt(s, u) == ScheduleOn(s, u) /\ ~ScheduleOn(s, u - 1)
ClosesAt(s, u) == ~ScheduleOn(s, u) /\ ScheduleOn(s, u - 1)

\* An override lasts exactly as long as the schedule says the same.
BoundaryIsNextFlip(s, now) ==
    LET b == NextBoundary(s, now)
    IN  /\ b > now
        /\ s.start # s.end =>
              /\ OpensAt(s, b) \/ ClosesAt(s, b)
              /\ \A u \in (now + 1)..(b - 1) : ScheduleOn(s, u) = ScheduleOn(s, now)

\* A hold lasts through the whole of the window that is on or comes next: it
\* ends when the desk closes, and the desk closes at no time before.
HoldCoversWindow(s, now) ==
    LET e == NextWindowEnd(s, now)
    IN  /\ e > now
        /\ s.start # s.end =>
              /\ ClosesAt(s, e)
              /\ \A u \in (now + 1)..(e - 1) : ~ClosesAt(s, u)

\* The digest runs while the desk is on, and all of one window has one date,
\* the day on which it opened.
DigestIsPerWindow(s, now) ==
    /\ DigestDate(s, now) # {} <=> ScheduleOn(s, now)
    /\ \A d \in DigestDate(s, now) :
          /\ d <= now /\ d % Day = 0
          /\ OpensAt(s, d + s.start)
          /\ \A u \in (d + s.start)..now : ScheduleOn(s, u)

\* The owner's record covers the night that began last, up to now or to its end:
\* the hard-coded night, which is the window of the mode, the holds and the
\* digest only for a tenant whose schedule is that one.
RecordIsLastWindow(now) ==
    NightWindow.start # NightWindow.end =>
        LET s == NightWindow
            w == RecordWindow(now)
        IN  /\ OpensAt(s, w[1]) /\ w[1] <= now
            /\ \A u \in (w[1] + 1)..now : ~OpensAt(s, u)
            /\ w[2] <= now
            /\ \A u \in w[1]..(w[2] - 1) : ScheduleOn(s, u)
            /\ w[2] < now => ClosesAt(s, w[2])

=============================================================================
