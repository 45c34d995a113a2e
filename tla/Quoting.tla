------------------------------ MODULE Quoting ------------------------------
(***************************************************************************)
(* From a stay to a price: the gates of services/inquiry_service.py (a     *)
(* message that says everything) and of conversation_reply_composer.py (a  *)
(* stay put together over several messages), on top of the year cache of   *)
(* services/holiday_calendar_service.py, which all threads of the process  *)
(* share, and of the owner's Google calendar.                              *)
(*                                                                         *)
(* A step is the code between two calls that other threads, the owner or   *)
(* the network can get in at.  The cached years are durable; the threads   *)
(* and the memory of failed fetches are lost in a restart.                 *)
(*                                                                         *)
(* Abstracted: texts, and which fields a reply asks for.                   *)
(***************************************************************************)
EXTENDS Calendar, Rooms

CONSTANTS
    Thread,      \* pool threads of the process
    Boot,        \* the one that runs _prewarm_holiday_calendar
    Warm,        \* the years it asks for
    Job,         \* the stays customers ask about
    Published,   \* the calendars the government may have published
    Backoff,     \* _FAILURE_BACKOFF in ticks
    Bookable,    \* BOUND: the nights the owner may mark
    MaxBooked    \* BOUND: how many of them

\* path: "message" for _handle_quote_relevant, "state" for compose.  dated:
\* the message itself says a date, or asks for one night.  dog: has_pet.
\* slots: what is known of the stay, a function on those of SlotKeys; bbq is 1
\* for wants_bbq.
SlotKeys == {"checkin", "checkout", "adults", "children", "rooms", "pets", "bbq"}

ASSUME QuotingAssumption ==
    /\ Boot \in Thread /\ IsFiniteSet(Thread)
    /\ Warm \subseteq Year
    /\ \A j \in Job : /\ DOMAIN j = {"path", "dated", "dog", "slots"}
                      /\ j.path \in {"message", "state"}
                      /\ {j.dated, j.dog} \subseteq BOOLEAN
                      /\ DOMAIN j.slots \subseteq SlotKeys
                      /\ j.slots \in [DOMAIN j.slots -> Nat]
    /\ Published \subseteq [Day -> Kind]
    /\ Bookable \subseteq Day
    /\ Backoff \in Nat \ {0} /\ MaxBooked \in Nat

VARIABLES
    published, \* the government calendar
    cache,     \* holiday_calendar_cache: a payload, or <<>>, for each year
    backoff,   \* _failed_at: how many ticks each year is left alone still
    booked,    \* nights the owner's calendar marks as taken
    at,        \* where each thread is
    job,       \* what it works on
    todo,      \* years it has not looked up yet
    missing,   \* years it found no calendar for
    special,   \* the special dates it read
    answer,    \* how its last job ended
    taken,     \* history: nights of its stay that were marked when it began
    failures   \* history: failed fetches of each year since it was left alone

own == <<at, job, todo, missing, special, answer, taken>>
vars == <<published, cache, backoff, booked, own, failures>>

NoJob == [path |-> "message", dated |-> FALSE, dog |-> FALSE, slots |-> <<>>]
NoDates == [national |-> {}, spring |-> {}]
NoAnswer == [kind |-> "none", types |-> <<>>, total |-> 0]

Answers == {"none", "ask", "suggest", "manual", "full", "invalid", "quoted",
            "unverified", "raised"}

QuoteTypeOK ==
    /\ published \in Published
    /\ \A y \in Year : cache[y] = <<>> \/ YearIsComplete(cache[y], y)
    /\ backoff \in [Year -> 0..Backoff]
    /\ booked \subseteq Day
    /\ at \in [Thread -> {"idle", "probe", "early", "gate", "years", "fetch",
                          "price", "calendar", "done"}]
    /\ job \in [Thread -> Job \cup {NoJob}]
    /\ todo \in [Thread -> SUBSET Year]
    /\ missing \in [Thread -> SUBSET Year]
    /\ special \in [Thread -> [national : SUBSET Day, spring : SUBSET Day]]
    /\ \A t \in Thread : /\ answer[t].kind \in Answers
                         /\ answer[t].total \in Nat
    /\ taken \in [Thread -> SUBSET Day]
    /\ failures \in [Year -> Nat]

Goto(t, label) == at' = [at EXCEPT ![t] = label]

Init ==
    /\ published \in Published
    /\ cache = [y \in Year |-> <<>>]
    /\ backoff = [y \in Year |-> 0]
    /\ booked = {}
    /\ at = [t \in Thread |-> IF t = Boot THEN "years" ELSE "idle"]
    /\ job = [t \in Thread |-> NoJob]
    /\ todo = [t \in Thread |-> IF t = Boot THEN Warm ELSE {}]
    /\ missing = [t \in Thread |-> {}]
    /\ special = [t \in Thread |-> NoDates]
    /\ answer = [t \in Thread |-> NoAnswer]
    /\ taken = [t \in Thread |-> {}]
    /\ failures = [y \in Year |-> 0]

\* What the job of t knows.
Slots(t) == job[t].slots
Knows(t, keys) == keys \subseteq DOMAIN Slots(t)
Slot(t, key) == IF Knows(t, {key}) THEN Slots(t)[key] ELSE 0
Guests(t) == Slot(t, "adults") + Slot(t, "children")

\* compute_missing_fields.
MissingFields(t) ==
    ({"checkin", "checkout"} \ DOMAIN Slots(t))
        \cup (IF Guests(t) = 0 THEN {"guests"} ELSE {})
        \cup (IF job[t].dog THEN {"pets"} \ DOMAIN Slots(t) ELSE {})

StayNights(t) ==
    IF Knows(t, {"checkin", "checkout"})
    THEN Nights(Slots(t)["checkin"], Slots(t)["checkout"]) ELSE {}

world == <<published, cache, backoff, booked, failures>>

\* The job of t ends with an answer.
Finish(t, kind) ==
    /\ answer' = [answer EXCEPT ![t] = [NoAnswer EXCEPT !.kind = kind]]
    /\ Goto(t, "done")
    /\ UNCHANGED <<job, todo, missing, special, taken>>

-----------------------------------------------------------------------------
(* The gates before the price.                                             *)

\* A customer asks.
Begin(t) ==
    /\ at[t] = "idle"
    /\ \E j \in Job :
        /\ job' = [job EXCEPT ![t] = j]
        /\ Goto(t, CASE j.path = "message" /\ j.dated
                            /\ DOMAIN j.slots \cap {"checkin", "checkout"} = {"checkin"} -> "probe"
                     [] j.path = "state" /\ j.dated
                            /\ {"checkin", "checkout"} \subseteq DOMAIN j.slots -> "early"
                     [] OTHER -> "gate")
    /\ taken' = [taken EXCEPT ![t] = booked \cap StayNights(t)']
    /\ UNCHANGED <<world, todo, missing, special, answer>>

\* It is over, and the thread forgets it.
Leave(t) ==
    /\ at[t] = "done"
    /\ Goto(t, "idle")
    /\ job' = [job EXCEPT ![t] = NoJob]
    /\ missing' = [missing EXCEPT ![t] = {}]
    /\ special' = [special EXCEPT ![t] = NoDates]
    /\ answer' = [answer EXCEPT ![t] = NoAnswer]
    /\ taken' = [taken EXCEPT ![t] = {}]
    /\ UNCHANGED <<world, todo>>

\* The nights that _handle_probe_if_blocked and _early_availability_gate ask
\* for: one night, without a checkout.
NightsAhead(t) == IF at[t] = "probe" THEN {Slots(t)["checkin"]} ELSE StayNights(t)

\* They stop the job when a night is taken, and let it go on when none is or
\* the calendar does not answer.
AheadIsFull(t) ==
    /\ at[t] \in {"probe", "early"}
    /\ NightsAhead(t) \cap booked # {}
    /\ Finish(t, "full")
    /\ UNCHANGED world

AheadIsFree(t) ==
    /\ at[t] \in {"probe", "early"}
    /\ NightsAhead(t) \cap booked = {}
    /\ Goto(t, "gate")
    /\ UNCHANGED <<world, job, todo, missing, special, answer, taken>>

AheadUnknown(t) ==
    /\ at[t] \in {"probe", "early"}
    /\ Goto(t, "gate")
    /\ UNCHANGED <<world, job, todo, missing, special, answer, taken>>

\* Fields that are missing are asked for, the number of rooms after the rest.
AskForMore(t) ==
    /\ at[t] = "gate"
    /\ MissingFields(t) # {} \/ ~Knows(t, {"rooms"})
    /\ Finish(t, "ask")
    /\ UNCHANGED world

Complete(t) == MissingFields(t) = {} /\ Knows(t, {"rooms"})

\* The _room_gate that the job comes to.
GateOf(t) == Gate(job[t].path, Slot(t, "rooms"), Guests(t))

\* It stops the job: another number of rooms, or staff.
RoomsDoNotFit(t) ==
    /\ at[t] = "gate"
    /\ Complete(t)
    /\ GateOf(t) # "price"
    /\ Finish(t, GateOf(t))
    /\ UNCHANGED world

\* It lets it through to evaluate_holiday_gate.
RoomsFit(t) ==
    /\ at[t] = "gate"
    /\ Complete(t)
    /\ GateOf(t) = "price"
    /\ todo' = [todo EXCEPT ![t] = YearsTouched(Slots(t)["checkin"], Slots(t)["checkout"])]
    /\ Goto(t, "years")
    /\ UNCHANGED <<world, job, missing, special, answer, taken>>

-----------------------------------------------------------------------------
(* ensure_years, for a stay and for the prewarming.                        *)

\* Years are looked up in order.
FirstYear(t) == Min(todo[t])

\* _have_year: the year is in the cache.
YearIsCached(t) ==
    /\ at[t] = "years" /\ todo[t] # {}
    /\ YearIsComplete(cache[FirstYear(t)], FirstYear(t))
    /\ todo' = [todo EXCEPT ![t] = @ \ {FirstYear(t)}]
    /\ UNCHANGED <<world, at, job, missing, special, answer, taken>>

\* It is not, and is left alone after a failure.
YearIsLeftAlone(t) ==
    /\ at[t] = "years" /\ todo[t] # {}
    /\ ~YearIsComplete(cache[FirstYear(t)], FirstYear(t))
    /\ backoff[FirstYear(t)] > 0
    /\ missing' = [missing EXCEPT ![t] = @ \cup {FirstYear(t)}]
    /\ todo' = [todo EXCEPT ![t] = @ \ {FirstYear(t)}]
    /\ UNCHANGED <<world, at, job, special, answer, taken>>

\* It is fetched.
FetchYear(t) ==
    /\ at[t] = "years" /\ todo[t] # {}
    /\ ~YearIsComplete(cache[FirstYear(t)], FirstYear(t))
    /\ backoff[FirstYear(t)] = 0
    /\ Goto(t, "fetch")
    /\ UNCHANGED <<world, job, todo, missing, special, answer, taken>>

\* FAULTY VARIANT of FetchSucceeds: what the server sends is cached unseen.
FetchCachesAnything(t) ==
    /\ at[t] = "fetch"
    /\ \E payload \in Payloads(FirstYear(t)) :
          cache' = [cache EXCEPT ![FirstYear(t)] = payload]
    /\ backoff' = [y \in Year |-> 0]
    /\ failures' = [y \in Year |-> 0]
    /\ todo' = [todo EXCEPT ![t] = @ \ {FirstYear(t)}]
    /\ Goto(t, "years")
    /\ UNCHANGED <<published, booked, job, missing, special, answer, taken>>

\* _fetch_and_cache gets a whole year: it is cached, all failures forgotten.
FetchSucceeds(t) ==
    /\ at[t] = "fetch"
    /\ \E payload \in Payloads(FirstYear(t)) :
        /\ YearIsComplete(payload, FirstYear(t))
        /\ cache' = [cache EXCEPT ![FirstYear(t)] = payload]
    /\ backoff' = [y \in Year |-> 0]
    /\ failures' = [y \in Year |-> 0]
    /\ todo' = [todo EXCEPT ![t] = @ \ {FirstYear(t)}]
    /\ Goto(t, "years")
    /\ UNCHANGED <<published, booked, job, missing, special, answer, taken>>

\* The year counts as missing for this thread.
FetchIsLost(t) ==
    /\ failures' = [failures EXCEPT ![FirstYear(t)] = @ + 1]
    /\ missing' = [missing EXCEPT ![t] = @ \cup {FirstYear(t)}]
    /\ todo' = [todo EXCEPT ![t] = @ \ {FirstYear(t)}]
    /\ Goto(t, "years")
    /\ UNCHANGED <<published, cache, booked, job, special, answer, taken>>

\* FAULTY VARIANT of FetchFails: the failure is not remembered.
FetchFailsUnnoticed(t) ==
    /\ at[t] = "fetch"
    /\ FetchIsLost(t)
    /\ UNCHANGED backoff

\* It gets an error, or a file that lacks a day.
FetchFails(t) ==
    /\ at[t] = "fetch"
    /\ backoff' = [backoff EXCEPT ![FirstYear(t)] = Backoff]
    /\ FetchIsLost(t)

\* A year is missing: staff take over.  (The prewarming only logs it.)
YearsMissing(t) ==
    /\ at[t] = "years" /\ todo[t] = {}
    /\ missing[t] # {}
    /\ Finish(t, IF job[t] = NoJob THEN "none" ELSE "manual")
    /\ UNCHANGED world

YearsAtHand(t) ==
    /\ at[t] = "years" /\ todo[t] = {}
    /\ missing[t] = {}
    /\ IF job[t] = NoJob THEN Finish(t, "none")
       ELSE Goto(t, "price") /\ UNCHANGED <<job, todo, missing, special, answer, taken>>
    /\ UNCHANGED world

Ensure(t) ==
    \/ YearIsCached(t) \/ YearIsLeftAlone(t) \/ FetchYear(t)
    \/ FetchSucceeds(t) \/ FetchFails(t) \/ YearsMissing(t) \/ YearsAtHand(t)

-----------------------------------------------------------------------------
(* The price.                                                              *)

CachedDays == UNION {Parsed(cache[y]) : y \in {z \in Year : cache[z] # <<>>}}

\* calculate_price compares adult_count with 0, and it may be None.
PriceRaises(t) ==
    /\ at[t] = "price"
    /\ ~Knows(t, {"adults"})
    /\ Finish(t, "raised")
    /\ UNCHANGED world

\* can_quote is false: the checkout is not after the checkin, or the rooms have
\* a rule and no rate, which calculate_price is the first to ask for.
PriceRefused(t) ==
    /\ at[t] = "price"
    /\ Knows(t, {"adults"})
    /\ StayNights(t) = {} \/ ~CanPrice(Slot(t, "rooms"), Guests(t))
    /\ Finish(t, "invalid")
    /\ UNCHANGED world

\* special_dates_for derives the special dates from all the years in the
\* cache, and the nights are priced by them.
PriceMade(t) ==
    /\ at[t] = "price"
    /\ Knows(t, {"adults"})
    /\ StayNights(t) # {} /\ CanPrice(Slot(t, "rooms"), Guests(t))
    /\ special' = [special EXCEPT ![t] =
          WithOwn(SpecialDates([d \in CachedDays |-> published[d]]))]
    /\ Goto(t, "calendar")
    /\ UNCHANGED <<world, job, todo, missing, answer, taken>>

\* The last look at the owner's calendar.
CalendarIsFull(t) ==
    /\ at[t] = "calendar"
    /\ StayNights(t) \cap booked # {}
    /\ Finish(t, "full")
    /\ UNCHANGED world

\* The customer gets the price, as the job of t goes.
Quote(t, kind) ==
    LET types == [night \in StayNights(t) |-> PriceType(special[t], night)]
        total == Total(types, Slot(t, "rooms"), Guests(t), Slot(t, "pets"), Slot(t, "bbq"))
    IN  /\ answer' = [answer EXCEPT ![t] = [kind |-> kind, types |-> types, total |-> total]]
        /\ Goto(t, "done")
        /\ UNCHANGED <<world, job, todo, missing, special, taken>>

\* FAULTY VARIANT of QuoteIsFree: the last night is not looked at.
QuoteIsFreeButLast(t) ==
    /\ at[t] = "calendar"
    /\ (StayNights(t) \ {Slots(t)["checkout"] - 1}) \cap booked = {}
    /\ Quote(t, "quoted")

QuoteIsFree(t) ==
    /\ at[t] = "calendar"
    /\ StayNights(t) \cap booked = {}
    /\ Quote(t, "quoted")

\* The calendar does not answer: the customer is quoted all the same, and the
\* owner is told.
QuoteUnverified(t) ==
    /\ at[t] = "calendar"
    /\ Quote(t, "unverified")

Step(t) ==
    \/ Begin(t) \/ Leave(t)
    \/ AheadIsFull(t) \/ AheadIsFree(t) \/ AheadUnknown(t)
    \/ AskForMore(t) \/ RoomsDoNotFit(t) \/ RoomsFit(t)
    \/ Ensure(t)
    \/ PriceRaises(t) \/ PriceRefused(t) \/ PriceMade(t)
    \/ CalendarIsFull(t) \/ QuoteIsFree(t) \/ QuoteUnverified(t)

-----------------------------------------------------------------------------

\* The owner marks a night as taken.
Book ==
    /\ Cardinality(booked) < MaxBooked
    /\ \E d \in Bookable \ booked : booked' = booked \cup {d}
    /\ UNCHANGED <<published, cache, backoff, own, failures>>

\* Time passes.  What failed long enough ago may be tried again.
Tick ==
    /\ \E y \in Year : backoff[y] > 0
    /\ backoff' = [y \in Year |-> IF backoff[y] = 0 THEN 0 ELSE backoff[y] - 1]
    /\ failures' = [y \in Year |-> IF backoff'[y] = 0 THEN 0 ELSE failures[y]]
    /\ UNCHANGED <<published, cache, booked, own>>

\* The process dies and starts anew.  (It leads back among the first states,
\* so its number needs no bound.)
Restart ==
    /\ backoff' = [y \in Year |-> 0]
    /\ failures' = [y \in Year |-> 0]
    /\ at' = [t \in Thread |-> IF t = Boot THEN "years" ELSE "idle"]
    /\ todo' = [t \in Thread |-> IF t = Boot THEN Warm ELSE {}]
    /\ job' = [t \in Thread |-> NoJob]
    /\ missing' = [t \in Thread |-> {}]
    /\ special' = [t \in Thread |-> NoDates]
    /\ answer' = [t \in Thread |-> NoAnswer]
    /\ taken' = [t \in Thread |-> {}]
    /\ UNCHANGED <<published, cache, booked>>

Next == (\E t \in Thread : Step(t)) \/ Book \/ Tick \/ Restart

Spec == Init /\ [][Next]_vars

-----------------------------------------------------------------------------
(* What a quote promises.                                                  *)

Priced(t) == answer[t].kind \in {"quoted", "unverified"}

\* What a night is by the whole of the government calendar.
TrueType(night) == PriceType(WithOwn(SpecialDates(published)), night)

\* The holidays around a night stay within the years of the stay and of the
\* days next to it.
InReach(t, night) ==
    {YearOf(d) : d \in RunOf(published, night)}
        \subseteq {YearOf(d) : d \in (Slots(t)["checkin"] - 1)..Slots(t)["checkout"]}

\* No customer asks for more than a year.  (The code does not refuse one who
\* does.)
StaysWithinAYear ==
    \A j \in Job : {"checkin", "checkout"} \subseteq DOMAIN j.slots =>
        j.slots["checkout"] - j.slots["checkin"] <= YearLength

\* A night costs no less than what a night of a long stay is cheaper by.
SoundRates ==
    \A tier \in DOMAIN Rate : \A type \in PriceTypes :
        Rate[tier][type] \in Nat /\ LongStayOff <= Rate[tier][type]

\* The calendar has the years of the stays that customers ask about.
StaysInCalendar ==
    \A j \in Job : {"checkin", "checkout"} \subseteq DOMAIN j.slots =>
        YearsTouched(j.slots["checkin"], j.slots["checkout"]) \subseteq Year

\* A night is priced as what it is by the government calendar, never as an
\* ordinary day for want of data, whatever the server sent and whichever years
\* other threads cached in the meantime.
NightsTrueInReach ==
    \A t \in Thread : Priced(t) =>
        \A night \in StayNights(t) :
            InReach(t, night) => answer[t].types[night] = TrueType(night)

\* No price without a word of doubt for a night that was marked as taken
\* before the customer asked.
QuoteHonoursBookings ==
    \A t \in Thread : answer[t].kind = "quoted" => StayNights(t) \cap taken[t] = {}

\* An outage costs each thread at most one timeout per year until the year is
\* tried again.
FewTimeouts == \A y \in Year : failures[y] <= Cardinality(Thread)

\* The room gates and the price agree on every stay that gets to them, on
\* either path, except for a tier without a rate.
GatesAgree ==
    \A t \in Thread : at[t] = "gate" /\ Complete(t) =>
        GatesLeadToPrice(job[t].path, Slot(t, "rooms"), Guests(t))

=============================================================================
