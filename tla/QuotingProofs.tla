--------------------------- MODULE QuotingProofs ---------------------------
(* What a quote promises, for any threads, calendars, stays and rates.     *)
EXTENDS Quoting, FiniteSetTheorems, WellFoundedInduction, TLAPS

Labels == {"idle", "probe", "early", "gate", "years", "fetch", "price", "calendar", "done"}

-----------------------------------------------------------------------------
(* The inductive invariant.                                                *)

\* The types that the argument needs.
QTypes ==
    /\ published \in [Day -> Kind]
    /\ DOMAIN cache = Year
    /\ \A y \in Year : cache[y] = <<>> \/ YearIsComplete(cache[y], y)
    /\ backoff \in [Year -> Nat]
    /\ failures \in [Year -> Nat]
    /\ at \in [Thread -> Labels]
    /\ job \in [Thread -> Job \cup {NoJob}]
    /\ DOMAIN todo = Thread
    /\ DOMAIN missing = Thread
    /\ DOMAIN special = Thread
    /\ DOMAIN answer = Thread
    /\ DOMAIN taken = Thread

\* An answer there is only at the end.
AnswersAtTheEnd == \A t \in Thread : at[t] # "done" => answer[t].kind = "none"

\* The owner's calendar keeps what it marked.
TakenStaysBooked == \A t \in Thread : taken[t] \subseteq booked

\* What is looked up at the moment, and by whom.
Fetchers(y) == {t \in Thread : at[t] = "fetch" /\ FirstYear(t) = y}

\* A failure of a year is one of a thread that does not fetch it any more, and
\* it is forgotten by the time the year may be tried again.
FailuresAreLeftAlone ==
    \A y \in Year :
        /\ backoff[y] = 0 => failures[y] = 0
        /\ failures[y] + Cardinality(Fetchers(y)) <= Cardinality(Thread)

\* A stay at the calendar has its years: in the cache, or still to look up, or
\* known to be missing.
KnowsItsDates(t) == job[t] # NoJob /\ Knows(t, {"checkin", "checkout"})
Touched(t) == YearsTouched(Slots(t)["checkin"], Slots(t)["checkout"])
YearsAreSeenTo ==
    \A t \in Thread :
        /\ at[t] \in {"years", "fetch"} /\ job[t] # NoJob =>
              /\ KnowsItsDates(t)
              /\ \A y \in Year \cap Touched(t) :
                    y \in todo[t] \/ y \in missing[t] \/ YearIsComplete(cache[y], y)
        /\ at[t] = "price" =>
              /\ KnowsItsDates(t)
              /\ \A y \in Year \cap Touched(t) : YearIsComplete(cache[y], y)

\* The special dates that a stay is priced by are right where its years reach.
RightDates(t) ==
    \A night \in StayNights(t) :
        InReach(t, night) => PriceType(special[t], night) = TrueType(night)
DatesAreRight == \A t \in Thread : at[t] = "calendar" => RightDates(t)

QInv ==
    /\ QTypes
    /\ AnswersAtTheEnd
    /\ TakenStaysBooked
    /\ FailuresAreLeftAlone
    /\ YearsAreSeenTo
    /\ QuoteHonoursBookings

-----------------------------------------------------------------------------
(* The steps by what they come to.                                         *)

Others(t) ==
    \A u \in Thread \ {t} :
        /\ at'[u] = at[u] /\ job'[u] = job[u] /\ todo'[u] = todo[u]
        /\ missing'[u] = missing[u] /\ special'[u] = special[u]
        /\ answer'[u] = answer[u] /\ taken'[u] = taken[u]

Domains ==
    /\ at \in [Thread -> Labels]
    /\ job \in [Thread -> Job \cup {NoJob}]
    /\ DOMAIN todo = Thread
    /\ DOMAIN missing = Thread
    /\ DOMAIN special = Thread
    /\ DOMAIN answer = Thread
    /\ DOMAIN taken = Thread

\* The job ends without a price.
Ends(t) ==
    \/ AheadIsFull(t) \/ AskForMore(t) \/ RoomsDoNotFit(t) \/ YearsMissing(t)
    \/ YearsAtHand(t) /\ job[t] = NoJob
    \/ PriceRaises(t) \/ PriceRefused(t) \/ CalendarIsFull(t)

\* It goes on to its next question.
GoesOn(t) ==
    \/ AheadIsFree(t) \/ AheadUnknown(t) \/ FetchYear(t)
    \/ YearsAtHand(t) /\ job[t] # NoJob

LEMMA StepIs ==
    ASSUME NEW t \in Thread, Step(t)
    PROVE  \/ Ends(t) \/ GoesOn(t) \/ Begin(t) \/ Leave(t) \/ RoomsFit(t)
           \/ YearIsCached(t) \/ YearIsLeftAlone(t) \/ FetchSucceeds(t) \/ FetchFails(t)
           \/ PriceMade(t) \/ QuoteIsFree(t) \/ QuoteUnverified(t)
  BY DEF Step, Ensure, Ends, GoesOn

LEMMA FinishShape ==
    ASSUME QTypes, NEW t \in Thread, NEW kind, Finish(t, kind)
    PROVE  /\ at'[t] = "done" /\ answer'[t].kind = kind
           /\ UNCHANGED <<job, todo, missing, special, taken>>
           /\ Others(t) /\ Domains'
  <1>1. [NoAnswer EXCEPT !.kind = kind].kind = kind
    BY DEF NoAnswer
  <1>. DEFINE a == [NoAnswer EXCEPT !.kind = kind]
  <1>2. answer' = [answer EXCEPT ![t] = a] /\ a.kind = kind
    BY <1>1 DEF Finish
  <1>. HIDE DEF a
  <1>. QED
    BY <1>2 DEF Finish, Goto, QTypes, Others, Domains, Labels

LEMMA EndsShape ==
    ASSUME QTypes, NEW t \in Thread, Ends(t)
    PROVE  /\ at[t] # "done" /\ at[t] # "fetch" /\ at[t] # "idle" /\ at'[t] = "done"
           /\ answer'[t].kind \notin {"quoted", "unverified"}
           /\ UNCHANGED <<world, job, todo, missing, special, taken>>
           /\ Others(t) /\ Domains'
  <1>1. PICK kind : Finish(t, kind) /\ kind \notin {"quoted", "unverified"}
    <2>1. GateOf(t) \in {"price", "manual", "suggest"}
      BY DEF GateOf, Gate, RoomGate, StateRoomGate
    <2>. QED
      BY <2>1 DEF Ends, AheadIsFull, AskForMore, RoomsDoNotFit, YearsMissing, YearsAtHand,
         PriceRaises, PriceRefused, CalendarIsFull
  <1>2. /\ at[t] \notin {"done", "fetch", "idle"} /\ UNCHANGED world
    BY DEF Ends, AheadIsFull, AskForMore, RoomsDoNotFit, YearsMissing, YearsAtHand,
       PriceRaises, PriceRefused, CalendarIsFull
  <1>. QED
    BY <1>1, <1>2, FinishShape

LEMMA GotoShape ==
    ASSUME QTypes, NEW t \in Thread, NEW label \in Labels, Goto(t, label)
    PROVE  at'[t] = label /\ (\A u \in Thread \ {t} : at'[u] = at[u]) /\ at' \in [Thread -> Labels]
  BY DEF Goto, QTypes

LEMMA GoesOnShape ==
    ASSUME QTypes, NEW t \in Thread, GoesOn(t)
    PROVE  /\ at[t] \notin {"done", "fetch", "idle", "price", "calendar"}
           /\ \/ at'[t] = "gate"
              \/ at[t] = "years" /\ at'[t] = "fetch" /\ backoff[FirstYear(t)] = 0
              \/ /\ at[t] = "years" /\ at'[t] = "price" /\ job[t] # NoJob
                 /\ todo[t] = {} /\ missing[t] = {}
           /\ UNCHANGED <<world, job, todo, missing, special, answer, taken>>
           /\ Others(t) /\ Domains'
  <1>1. /\ at[t] \notin {"done", "fetch", "idle", "price", "calendar"}
        /\ \/ Goto(t, "gate")
           \/ at[t] = "years" /\ Goto(t, "fetch") /\ backoff[FirstYear(t)] = 0
           \/ /\ at[t] = "years" /\ Goto(t, "price") /\ job[t] # NoJob
              /\ todo[t] = {} /\ missing[t] = {}
        /\ UNCHANGED <<world, job, todo, missing, special, answer, taken>>
    BY DEF GoesOn, AheadIsFree, AheadUnknown, FetchYear, YearsAtHand
  <1>. QED
    BY <1>1, GotoShape DEF Labels, Others, Domains, QTypes

LEMMA BeginShape ==
    ASSUME QTypes, NEW t \in Thread, Begin(t)
    PROVE  /\ at[t] = "idle" /\ at'[t] \in {"probe", "early", "gate"}
           /\ taken'[t] = booked \cap StayNights(t)'
           /\ UNCHANGED <<world, todo, missing, special, answer>>
           /\ Others(t) /\ Domains'
  <1>1. PICK j \in Job :
          /\ job' = [job EXCEPT ![t] = j]
          /\ \E label \in {"probe", "early", "gate"} : Goto(t, label)
    BY DEF Begin
  <1>2. PICK label \in {"probe", "early", "gate"} : Goto(t, label)
    BY <1>1
  <1>3. at'[t] = label /\ (\A u \in Thread \ {t} : at'[u] = at[u]) /\ at' \in [Thread -> Labels]
    BY <1>2, GotoShape DEF Labels
  <1>4. /\ at[t] = "idle" /\ taken' = [taken EXCEPT ![t] = booked \cap StayNights(t)']
        /\ UNCHANGED <<world, todo, missing, special, answer>>
    BY DEF Begin
  <1>. QED
    BY <1>1, <1>2, <1>3, <1>4 DEF Others, Domains, QTypes

LEMMA LeaveShape ==
    ASSUME QTypes, NEW t \in Thread, Leave(t)
    PROVE  /\ at[t] = "done" /\ at'[t] = "idle"
           /\ answer'[t].kind = "none" /\ taken'[t] = {}
           /\ UNCHANGED <<world, todo>>
           /\ Others(t) /\ Domains'
  <1>1. NoAnswer.kind = "none"
    BY DEF NoAnswer
  <1>2. at'[t] = "idle" /\ (\A u \in Thread \ {t} : at'[u] = at[u]) /\ at' \in [Thread -> Labels]
    BY GotoShape DEF Labels, Leave
  <1>. QED
    BY <1>1, <1>2 DEF Leave, Others, Domains, QTypes

LEMMA RoomsFitShape ==
    ASSUME QTypes, NEW t \in Thread, RoomsFit(t)
    PROVE  /\ at[t] = "gate" /\ at'[t] = "years" /\ Complete(t)
           /\ todo'[t] = Touched(t)
           /\ UNCHANGED <<world, job, missing, special, answer, taken>>
           /\ Others(t) /\ Domains'
  <1>1. at'[t] = "years" /\ (\A u \in Thread \ {t} : at'[u] = at[u]) /\ at' \in [Thread -> Labels]
    BY GotoShape DEF Labels, RoomsFit
  <1>. QED
    BY <1>1 DEF RoomsFit, Touched, Others, Domains, QTypes

\* A look at a year: it is there, or left alone.
LEMMA LookShape ==
    ASSUME QTypes, NEW t \in Thread, YearIsCached(t) \/ YearIsLeftAlone(t)
    PROVE  /\ at[t] = "years" /\ at' = at
           /\ todo'[t] = todo[t] \ {FirstYear(t)}
           /\ missing[t] \subseteq missing'[t]
           /\ FirstYear(t) \in missing'[t] \/ YearIsComplete(cache[FirstYear(t)], FirstYear(t))
           /\ UNCHANGED <<world, job, special, answer, taken>>
           /\ Others(t) /\ Domains'
  BY DEF YearIsCached, YearIsLeftAlone, Others, Domains, QTypes

LEMMA FetchedShape ==
    ASSUME QTypes, NEW t \in Thread, FetchSucceeds(t)
    PROVE  /\ at[t] = "fetch" /\ at'[t] = "years"
           /\ todo'[t] = todo[t] \ {FirstYear(t)}
           /\ DOMAIN cache' = Year
           /\ \A y \in Year : IF y = FirstYear(t) THEN YearIsComplete(cache'[y], y)
                              ELSE cache'[y] = cache[y]
           /\ backoff' = [y \in Year |-> 0] /\ failures' = [y \in Year |-> 0]
           /\ UNCHANGED <<published, booked, job, missing, special, answer, taken>>
           /\ Others(t) /\ Domains'
  <1>1. PICK payload : YearIsComplete(payload, FirstYear(t))
                       /\ cache' = [cache EXCEPT ![FirstYear(t)] = payload]
    BY DEF FetchSucceeds
  <1>2. at'[t] = "years" /\ (\A u \in Thread \ {t} : at'[u] = at[u]) /\ at' \in [Thread -> Labels]
    BY GotoShape DEF Labels, FetchSucceeds
  <1>3. DOMAIN cache' = Year
        /\ \A y \in Year : IF y = FirstYear(t) THEN YearIsComplete(cache'[y], y)
                           ELSE cache'[y] = cache[y]
    BY <1>1 DEF QTypes
  <1>. QED
    BY <1>2, <1>3 DEF FetchSucceeds, Others, Domains, QTypes

LEMMA FailedShape ==
    ASSUME QTypes, NEW t \in Thread, FetchFails(t)
    PROVE  /\ at[t] = "fetch" /\ at'[t] = "years"
           /\ todo'[t] = todo[t] \ {FirstYear(t)}
           /\ missing'[t] = missing[t] \cup {FirstYear(t)}
           /\ backoff' = [backoff EXCEPT ![FirstYear(t)] = Backoff]
           /\ failures' = [failures EXCEPT ![FirstYear(t)] = @ + 1]
           /\ UNCHANGED <<published, cache, booked, job, special, answer, taken>>
           /\ Others(t) /\ Domains'
  <1>1. at'[t] = "years" /\ (\A u \in Thread \ {t} : at'[u] = at[u]) /\ at' \in [Thread -> Labels]
    BY GotoShape DEF Labels, FetchFails, FetchIsLost
  <1>. QED
    BY <1>1 DEF FetchFails, FetchIsLost, Others, Domains, QTypes

LEMMA PriceShape ==
    ASSUME QTypes, NEW t \in Thread, PriceMade(t)
    PROVE  /\ at[t] = "price" /\ at'[t] = "calendar"
           /\ special'[t] = WithOwn(SpecialDates([d \in CachedDays |-> published[d]]))
           /\ UNCHANGED <<world, job, todo, missing, answer, taken>>
           /\ Others(t) /\ Domains'
  <1>1. at'[t] = "calendar" /\ (\A u \in Thread \ {t} : at'[u] = at[u]) /\ at' \in [Thread -> Labels]
    BY GotoShape DEF Labels, PriceMade
  <1>. QED
    BY <1>1 DEF PriceMade, Others, Domains, QTypes

LEMMA QuoteShape ==
    ASSUME QTypes, NEW t \in Thread, QuoteIsFree(t) \/ QuoteUnverified(t)
    PROVE  /\ at[t] = "calendar" /\ at'[t] = "done"
           /\ answer'[t].kind = "quoted" => StayNights(t) \cap booked = {}
           /\ answer'[t].types = [night \in StayNights(t) |-> PriceType(special[t], night)]
           /\ UNCHANGED <<world, job, todo, missing, special, taken>>
           /\ Others(t) /\ Domains'
  <1>. DEFINE types == [night \in StayNights(t) |-> PriceType(special[t], night)]
              total == Total(types, Slot(t, "rooms"), Guests(t), Slot(t, "pets"), Slot(t, "bbq"))
  <1>1. PICK kind : Quote(t, kind) /\ (kind = "quoted" => StayNights(t) \cap booked = {})
    BY DEF QuoteIsFree, QuoteUnverified
  <1>2. /\ answer' = [answer EXCEPT ![t] = [kind |-> kind, types |-> types, total |-> total]]
        /\ Goto(t, "done")
        /\ UNCHANGED <<world, job, todo, missing, special, taken>>
    BY <1>1 DEF Quote
  <1>3. at'[t] = "done" /\ (\A u \in Thread \ {t} : at'[u] = at[u]) /\ at' \in [Thread -> Labels]
    BY <1>2, GotoShape DEF Labels
  <1>4. at[t] = "calendar"
    BY DEF QuoteIsFree, QuoteUnverified
  <1>. HIDE DEF types, total
  <1>5. answer'[t].kind = kind /\ answer'[t].types = types
    BY <1>2 DEF QTypes
  <1>. QED
    BY <1>1, <1>2, <1>3, <1>4, <1>5 DEF types, Others, Domains, QTypes

-----------------------------------------------------------------------------
(* Every step keeps the invariant.                                         *)

\* What is left of the clock and of the failures.
LEMMA TickShape ==
    ASSUME QTypes, Tick
    PROVE  /\ UNCHANGED <<published, cache, booked, own>>
           /\ backoff' \in [Year -> Nat] /\ failures' \in [Year -> Nat]
           /\ \A y \in Year : IF backoff'[y] = 0 THEN failures'[y] = 0
                              ELSE failures'[y] = failures[y] /\ backoff[y] # 0
  <1>1. /\ backoff' = [y \in Year |-> IF backoff[y] = 0 THEN 0 ELSE backoff[y] - 1]
        /\ failures' = [y \in Year |-> IF backoff'[y] = 0 THEN 0 ELSE failures[y]]
        /\ UNCHANGED <<published, cache, booked, own>>
    BY DEF Tick
  <1>2. backoff \in [Year -> Nat] /\ failures \in [Year -> Nat]
    BY DEF QTypes
  <1>. QED
    BY <1>1, <1>2

LEMMA RestartShape ==
    ASSUME QTypes, Restart
    PROVE  /\ at' \in [Thread -> {"years", "idle"}]
           /\ backoff' = [y \in Year |-> 0] /\ failures' = [y \in Year |-> 0]
           /\ \A t \in Thread : /\ job'[t] = NoJob /\ answer'[t].kind = "none" /\ taken'[t] = {}
                                /\ (at'[t] = "idle" \/ at'[t] = "years")
           /\ Domains'
           /\ UNCHANGED <<published, cache, booked>>
  BY DEF Restart, Domains, Labels, NoAnswer

\* The types.
LEMMA TypesStep ==
    ASSUME QTypes, Next
    PROVE  QTypes'
  <1>1. Backoff \in Nat /\ \A y \in Year : failures[y] \in Nat
    BY QuotingAssumption DEF QTypes
  <1>Ends. ASSUME NEW t \in Thread, Ends(t)
         PROVE  QTypes'
    BY <1>Ends, EndsShape DEF QTypes, Domains, world
  <1>GoesOn. ASSUME NEW t \in Thread, GoesOn(t)
         PROVE  QTypes'
    BY <1>GoesOn, GoesOnShape DEF QTypes, Domains, world
  <1>Begin. ASSUME NEW t \in Thread, Begin(t)
         PROVE  QTypes'
    BY <1>Begin, BeginShape DEF QTypes, Domains, world
  <1>Leave. ASSUME NEW t \in Thread, Leave(t)
         PROVE  QTypes'
    BY <1>Leave, LeaveShape DEF QTypes, Domains, world
  <1>RoomsFit. ASSUME NEW t \in Thread, RoomsFit(t)
         PROVE  QTypes'
    BY <1>RoomsFit, RoomsFitShape DEF QTypes, Domains, world
  <1>Look. ASSUME NEW t \in Thread, YearIsCached(t) \/ YearIsLeftAlone(t)
         PROVE  QTypes'
    BY <1>Look, LookShape DEF QTypes, Domains, world
  <1>Fetched. ASSUME NEW t \in Thread, FetchSucceeds(t)
         PROVE  QTypes'
    <2>1. \A y \in Year : cache'[y] = <<>> \/ YearIsComplete(cache'[y], y)
      BY <1>Fetched, FetchedShape DEF QTypes
    <2>. QED
      BY <1>Fetched, <2>1, FetchedShape DEF QTypes, Domains
  <1>Failed. ASSUME NEW t \in Thread, FetchFails(t)
         PROVE  QTypes'
    <2>1. backoff' \in [Year -> Nat] /\ failures' \in [Year -> Nat]
      BY <1>Failed, <1>1, FailedShape DEF QTypes
    <2>. QED
      BY <1>Failed, <2>1, FailedShape DEF QTypes, Domains
  <1>Price. ASSUME NEW t \in Thread, PriceMade(t)
         PROVE  QTypes'
    BY <1>Price, PriceShape DEF QTypes, Domains, world
  <1>Quote. ASSUME NEW t \in Thread, QuoteIsFree(t) \/ QuoteUnverified(t)
         PROVE  QTypes'
    BY <1>Quote, QuoteShape DEF QTypes, Domains, world
  <1>Book. CASE Book
    BY <1>Book DEF Book, QTypes, own
  <1>Tick. CASE Tick
    BY <1>Tick, TickShape DEF QTypes, own
  <1>Restart. CASE Restart
    BY <1>Restart, RestartShape DEF QTypes, Domains
  <1>. QED
    BY StepIs, <1>Ends, <1>GoesOn, <1>Begin, <1>Leave, <1>RoomsFit, <1>Look, <1>Fetched,
       <1>Failed, <1>Price, <1>Quote, <1>Book, <1>Tick, <1>Restart DEF Next

\* There is an answer at the end only.
LEMMA AnswersStep ==
    ASSUME QTypes, AnswersAtTheEnd, Next
    PROVE  AnswersAtTheEnd'
  <1>Ends. ASSUME NEW t \in Thread, Ends(t)
         PROVE  AnswersAtTheEnd'
    BY <1>Ends, EndsShape DEF AnswersAtTheEnd, Others
  <1>GoesOn. ASSUME NEW t \in Thread, GoesOn(t)
         PROVE  AnswersAtTheEnd'
    BY <1>GoesOn, GoesOnShape DEF AnswersAtTheEnd, Others
  <1>Begin. ASSUME NEW t \in Thread, Begin(t)
         PROVE  AnswersAtTheEnd'
    BY <1>Begin, BeginShape DEF AnswersAtTheEnd, Others
  <1>Leave. ASSUME NEW t \in Thread, Leave(t)
         PROVE  AnswersAtTheEnd'
    BY <1>Leave, LeaveShape DEF AnswersAtTheEnd, Others
  <1>RoomsFit. ASSUME NEW t \in Thread, RoomsFit(t)
         PROVE  AnswersAtTheEnd'
    BY <1>RoomsFit, RoomsFitShape DEF AnswersAtTheEnd, Others
  <1>Look. ASSUME NEW t \in Thread, YearIsCached(t) \/ YearIsLeftAlone(t)
         PROVE  AnswersAtTheEnd'
    BY <1>Look, LookShape DEF AnswersAtTheEnd, Others
  <1>Fetched. ASSUME NEW t \in Thread, FetchSucceeds(t)
         PROVE  AnswersAtTheEnd'
    BY <1>Fetched, FetchedShape DEF AnswersAtTheEnd, Others
  <1>Failed. ASSUME NEW t \in Thread, FetchFails(t)
         PROVE  AnswersAtTheEnd'
    BY <1>Failed, FailedShape DEF AnswersAtTheEnd, Others
  <1>Price. ASSUME NEW t \in Thread, PriceMade(t)
         PROVE  AnswersAtTheEnd'
    BY <1>Price, PriceShape DEF AnswersAtTheEnd, Others
  <1>Quote. ASSUME NEW t \in Thread, QuoteIsFree(t) \/ QuoteUnverified(t)
         PROVE  AnswersAtTheEnd'
    BY <1>Quote, QuoteShape DEF AnswersAtTheEnd, Others
  <1>Book. CASE Book
    BY <1>Book DEF Book, AnswersAtTheEnd, own
  <1>Tick. CASE Tick
    BY <1>Tick, TickShape DEF AnswersAtTheEnd, own
  <1>Restart. CASE Restart
    BY <1>Restart, RestartShape DEF AnswersAtTheEnd
  <1>. QED
    BY StepIs, <1>Ends, <1>GoesOn, <1>Begin, <1>Leave, <1>RoomsFit, <1>Look, <1>Fetched,
       <1>Failed, <1>Price, <1>Quote, <1>Book, <1>Tick, <1>Restart DEF Next

\* What was marked when a job began stays marked.
LEMMA TakenStep ==
    ASSUME QTypes, TakenStaysBooked, Next
    PROVE  TakenStaysBooked'
  <1>Ends. ASSUME NEW t \in Thread, Ends(t)
         PROVE  TakenStaysBooked'
    BY <1>Ends, EndsShape DEF TakenStaysBooked, Others, world
  <1>GoesOn. ASSUME NEW t \in Thread, GoesOn(t)
         PROVE  TakenStaysBooked'
    BY <1>GoesOn, GoesOnShape DEF TakenStaysBooked, Others, world
  <1>Begin. ASSUME NEW t \in Thread, Begin(t)
         PROVE  TakenStaysBooked'
    BY <1>Begin, BeginShape DEF TakenStaysBooked, Others, world
  <1>Leave. ASSUME NEW t \in Thread, Leave(t)
         PROVE  TakenStaysBooked'
    BY <1>Leave, LeaveShape DEF TakenStaysBooked, Others, world
  <1>RoomsFit. ASSUME NEW t \in Thread, RoomsFit(t)
         PROVE  TakenStaysBooked'
    BY <1>RoomsFit, RoomsFitShape DEF TakenStaysBooked, Others, world
  <1>Look. ASSUME NEW t \in Thread, YearIsCached(t) \/ YearIsLeftAlone(t)
         PROVE  TakenStaysBooked'
    BY <1>Look, LookShape DEF TakenStaysBooked, Others, world
  <1>Fetched. ASSUME NEW t \in Thread, FetchSucceeds(t)
         PROVE  TakenStaysBooked'
    BY <1>Fetched, FetchedShape DEF TakenStaysBooked, Others, world
  <1>Failed. ASSUME NEW t \in Thread, FetchFails(t)
         PROVE  TakenStaysBooked'
    BY <1>Failed, FailedShape DEF TakenStaysBooked, Others, world
  <1>Price. ASSUME NEW t \in Thread, PriceMade(t)
         PROVE  TakenStaysBooked'
    BY <1>Price, PriceShape DEF TakenStaysBooked, Others, world
  <1>Quote. ASSUME NEW t \in Thread, QuoteIsFree(t) \/ QuoteUnverified(t)
         PROVE  TakenStaysBooked'
    BY <1>Quote, QuoteShape DEF TakenStaysBooked, Others, world
  <1>Book. CASE Book
    BY <1>Book DEF Book, TakenStaysBooked, own
  <1>Tick. CASE Tick
    BY <1>Tick, TickShape DEF TakenStaysBooked, own
  <1>Restart. CASE Restart
    BY <1>Restart, RestartShape DEF TakenStaysBooked
  <1>. QED
    BY StepIs, <1>Ends, <1>GoesOn, <1>Begin, <1>Leave, <1>RoomsFit, <1>Look, <1>Fetched,
       <1>Failed, <1>Price, <1>Quote, <1>Book, <1>Tick, <1>Restart DEF Next

\* No quote without doubt for a night that was marked.
LEMMA HonoursStep ==
    ASSUME QTypes, AnswersAtTheEnd, TakenStaysBooked, QuoteHonoursBookings,
           Next
    PROVE  QuoteHonoursBookings'
  <1>1. ASSUME NEW t \in Thread, Others(t), answer'[t].kind # "quoted"
        PROVE  QuoteHonoursBookings'
    BY <1>1 DEF QuoteHonoursBookings, Others, StayNights, Knows, Slots
  <1>Ends. ASSUME NEW t \in Thread, Ends(t)
         PROVE  QuoteHonoursBookings'
    BY <1>Ends, <1>1, EndsShape DEF AnswersAtTheEnd
  <1>GoesOn. ASSUME NEW t \in Thread, GoesOn(t)
         PROVE  QuoteHonoursBookings'
    BY <1>GoesOn, <1>1, GoesOnShape DEF AnswersAtTheEnd
  <1>Begin. ASSUME NEW t \in Thread, Begin(t)
         PROVE  QuoteHonoursBookings'
    BY <1>Begin, <1>1, BeginShape DEF AnswersAtTheEnd
  <1>Leave. ASSUME NEW t \in Thread, Leave(t)
         PROVE  QuoteHonoursBookings'
    BY <1>Leave, <1>1, LeaveShape DEF AnswersAtTheEnd
  <1>RoomsFit. ASSUME NEW t \in Thread, RoomsFit(t)
         PROVE  QuoteHonoursBookings'
    BY <1>RoomsFit, <1>1, RoomsFitShape DEF AnswersAtTheEnd
  <1>Look. ASSUME NEW t \in Thread, YearIsCached(t) \/ YearIsLeftAlone(t)
         PROVE  QuoteHonoursBookings'
    BY <1>Look, <1>1, LookShape DEF AnswersAtTheEnd
  <1>Fetched. ASSUME NEW t \in Thread, FetchSucceeds(t)
         PROVE  QuoteHonoursBookings'
    BY <1>Fetched, <1>1, FetchedShape DEF AnswersAtTheEnd
  <1>Failed. ASSUME NEW t \in Thread, FetchFails(t)
         PROVE  QuoteHonoursBookings'
    BY <1>Failed, <1>1, FailedShape DEF AnswersAtTheEnd
  <1>Price. ASSUME NEW t \in Thread, PriceMade(t)
         PROVE  QuoteHonoursBookings'
    BY <1>Price, <1>1, PriceShape DEF AnswersAtTheEnd
  <1>Quote. ASSUME NEW t \in Thread, QuoteIsFree(t) \/ QuoteUnverified(t)
         PROVE  QuoteHonoursBookings'
    <2>1. /\ Others(t) /\ UNCHANGED <<booked, job, taken>>
          /\ answer'[t].kind = "quoted" => StayNights(t) \cap booked = {}
      BY <1>Quote, QuoteShape DEF world
    <2>2. taken[t] \subseteq booked
      BY DEF TakenStaysBooked
    <2>. QED
      BY <2>1, <2>2 DEF QuoteHonoursBookings, Others, StayNights, Knows, Slots
  <1>Book. CASE Book
    BY <1>Book DEF Book, QuoteHonoursBookings, own, StayNights, Knows, Slots
  <1>Tick. CASE Tick
    BY <1>Tick, TickShape DEF QuoteHonoursBookings, own, StayNights, Knows, Slots
  <1>Restart. CASE Restart
    BY <1>Restart, RestartShape DEF QuoteHonoursBookings
  <1>. QED
    BY StepIs, <1>Ends, <1>GoesOn, <1>Begin, <1>Leave, <1>RoomsFit, <1>Look, <1>Fetched,
       <1>Failed, <1>Price, <1>Quote, <1>Book, <1>Tick, <1>Restart DEF Next

\* A year fails once for each thread that was at it.
LEMMA FailuresStep ==
    ASSUME QTypes, FailuresAreLeftAlone, Next
    PROVE  FailuresAreLeftAlone'
  <1>1. /\ IsFiniteSet(Thread) /\ Backoff \in Nat \ {0}
        /\ backoff \in [Year -> Nat] /\ failures \in [Year -> Nat]
    BY QuotingAssumption DEF QTypes
  <1>2. \A y : /\ IsFiniteSet(Fetchers(y)) /\ Cardinality(Fetchers(y)) \in Nat
               /\ IsFiniteSet(Fetchers(y)') /\ Cardinality(Fetchers(y)') \in Nat
               /\ Cardinality(Fetchers(y)') <= Cardinality(Thread)
               /\ Fetchers(y)' \subseteq Fetchers(y) =>
                     Cardinality(Fetchers(y)') <= Cardinality(Fetchers(y))
    <2>1. \A y : Fetchers(y) \subseteq Thread /\ Fetchers(y)' \subseteq Thread
      BY DEF Fetchers
    <2>2. \A S \in SUBSET Thread : IsFiniteSet(S) /\ Cardinality(S) \in Nat
                                   /\ Cardinality(S) <= Cardinality(Thread)
      BY <1>1, FS_Subset, FS_CardinalityType
    <2>3. \A S, T \in SUBSET Thread : S \subseteq T => Cardinality(S) <= Cardinality(T)
      BY <2>2, FS_Subset
    <2>. QED
      BY <2>1, <2>2, <2>3
  <1>3. Cardinality(Thread) \in Nat
    BY <1>1, FS_CardinalityType
  <1>4. ASSUME \A y \in Year : Fetchers(y)' \subseteq Fetchers(y), UNCHANGED <<backoff, failures>>
        PROVE  FailuresAreLeftAlone'
    BY <1>1, <1>2, <1>3, <1>4 DEF FailuresAreLeftAlone
  <1>5. ASSUME NEW t \in Thread, Others(t), at'[t] # "fetch"
        PROVE  \A y \in Year : Fetchers(y)' \subseteq Fetchers(y)
    BY <1>5 DEF Fetchers, Others, FirstYear
  <1>6. ASSUME failures' = [y \in Year |-> 0]
        PROVE  FailuresAreLeftAlone'
    BY <1>2, <1>3, <1>6 DEF FailuresAreLeftAlone
  <1>Ends. ASSUME NEW t \in Thread, Ends(t)
         PROVE  FailuresAreLeftAlone'
    BY <1>Ends, <1>4, <1>5, EndsShape DEF world
  <1>GoesOn. ASSUME NEW t \in Thread, GoesOn(t)
         PROVE  FailuresAreLeftAlone'
    <2>1. /\ Others(t) /\ UNCHANGED <<backoff, failures, todo>> /\ at[t] # "fetch"
          /\ at'[t] # "fetch" \/ backoff[FirstYear(t)] = 0
      BY <1>GoesOn, GoesOnShape DEF world
    <2>2. CASE at'[t] # "fetch"
      BY <1>4, <1>5, <2>1, <2>2
    <2>3. CASE backoff[FirstYear(t)] = 0
      <3>1. ASSUME NEW y \in Year, y # FirstYear(t)
            PROVE  Fetchers(y)' \subseteq Fetchers(y)
        BY <2>1, <3>1 DEF Fetchers, Others, FirstYear
      <3>2. ASSUME NEW y \in Year, y = FirstYear(t)
            PROVE  failures[y] = 0
        BY <2>3, <3>2 DEF FailuresAreLeftAlone
      <3>3. ASSUME NEW y \in Year
            PROVE  /\ backoff'[y] = 0 => failures'[y] = 0
                   /\ failures'[y] + Cardinality(Fetchers(y)') <= Cardinality(Thread)
        <4>1. CASE y = FirstYear(t)
          BY <1>1, <1>2, <1>3, <2>1, <3>2, <4>1
        <4>2. CASE y # FirstYear(t)
          BY <1>1, <1>2, <1>3, <2>1, <3>1, <4>2 DEF FailuresAreLeftAlone
        <4>. QED
          BY <4>1, <4>2
      <3>. QED
        BY <3>3 DEF FailuresAreLeftAlone
    <2>. QED
      BY <2>1, <2>2, <2>3
  <1>Begin. ASSUME NEW t \in Thread, Begin(t)
         PROVE  FailuresAreLeftAlone'
    BY <1>Begin, <1>4, <1>5, BeginShape DEF world
  <1>Leave. ASSUME NEW t \in Thread, Leave(t)
         PROVE  FailuresAreLeftAlone'
    BY <1>Leave, <1>4, <1>5, LeaveShape DEF world
  <1>RoomsFit. ASSUME NEW t \in Thread, RoomsFit(t)
         PROVE  FailuresAreLeftAlone'
    BY <1>RoomsFit, <1>4, <1>5, RoomsFitShape DEF world
  <1>Look. ASSUME NEW t \in Thread, YearIsCached(t) \/ YearIsLeftAlone(t)
         PROVE  FailuresAreLeftAlone'
    <2>1. /\ Others(t) /\ at'[t] # "fetch" /\ UNCHANGED <<backoff, failures>>
      BY <1>Look, LookShape DEF world
    <2>. QED
      BY <1>4, <1>5, <2>1
  <1>Fetched. ASSUME NEW t \in Thread, FetchSucceeds(t)
         PROVE  FailuresAreLeftAlone'
    BY <1>Fetched, <1>6, FetchedShape
  <1>Failed. ASSUME NEW t \in Thread, FetchFails(t)
         PROVE  FailuresAreLeftAlone'
    <2>0. PICK z : z = FirstYear(t)
      OBVIOUS
    <2>1. /\ at[t] = "fetch" /\ at'[t] = "years" /\ Others(t)
          /\ backoff' = [backoff EXCEPT ![z] = Backoff]
          /\ failures' = [failures EXCEPT ![z] = @ + 1]
      BY <1>Failed, <2>0, FailedShape
    <2>2. \A y \in Year : Fetchers(y)' \subseteq Fetchers(y)
      BY <1>5, <2>1
    <2>3. t \in Fetchers(z) /\ Fetchers(z)' \subseteq Fetchers(z) \ {t}
      BY <2>0, <2>1 DEF Fetchers, Others, FirstYear
    <2>4. Cardinality(Fetchers(z)') <= Cardinality(Fetchers(z)) - 1
      <3>1. /\ IsFiniteSet(Fetchers(z) \ {t})
            /\ Cardinality(Fetchers(z) \ {t}) = Cardinality(Fetchers(z)) - 1
        BY <1>2, <2>3, FS_RemoveElement
      <3>2. Cardinality(Fetchers(z)') <= Cardinality(Fetchers(z) \ {t})
        BY <2>3, <3>1, FS_Subset
      <3>. QED
        BY <3>1, <3>2
    <2>5. ASSUME NEW y \in Year
          PROVE  /\ backoff'[y] = 0 => failures'[y] = 0
                 /\ failures'[y] + Cardinality(Fetchers(y)') <= Cardinality(Thread)
      <3>1. CASE y = z
        BY <1>1, <1>2, <1>3, <2>1, <2>4, <3>1 DEF FailuresAreLeftAlone
      <3>2. CASE y # z
        BY <1>1, <1>2, <1>3, <2>1, <2>2, <3>2 DEF FailuresAreLeftAlone
      <3>. QED
        BY <3>1, <3>2
    <2>. QED
      BY <2>5 DEF FailuresAreLeftAlone
  <1>Price. ASSUME NEW t \in Thread, PriceMade(t)
         PROVE  FailuresAreLeftAlone'
    BY <1>Price, <1>4, <1>5, PriceShape DEF world
  <1>Quote. ASSUME NEW t \in Thread, QuoteIsFree(t) \/ QuoteUnverified(t)
         PROVE  FailuresAreLeftAlone'
    BY <1>Quote, <1>4, <1>5, QuoteShape DEF world
  <1>Book. CASE Book
    BY <1>Book, <1>4 DEF Book, own, Fetchers, FirstYear
  <1>Tick. CASE Tick
    <2>1. /\ UNCHANGED own /\ backoff' \in [Year -> Nat] /\ failures' \in [Year -> Nat]
          /\ \A y \in Year : IF backoff'[y] = 0 THEN failures'[y] = 0
                             ELSE failures'[y] = failures[y] /\ backoff[y] # 0
      BY <1>Tick, TickShape
    <2>2. \A y \in Year : Fetchers(y)' = Fetchers(y)
      BY <2>1 DEF own, Fetchers, FirstYear
    <2>. QED
      BY <1>1, <1>2, <1>3, <2>1, <2>2 DEF FailuresAreLeftAlone
  <1>Restart. CASE Restart
    BY <1>Restart, <1>6, RestartShape
  <1>. QED
    BY StepIs, <1>Ends, <1>GoesOn, <1>Begin, <1>Leave, <1>RoomsFit, <1>Look, <1>Fetched,
       <1>Failed, <1>Price, <1>Quote, <1>Book, <1>Tick, <1>Restart DEF Next

\* The years of a stay are seen to before it is priced.
LEMMA YearsStep ==
    ASSUME QTypes, YearsAreSeenTo, Next
    PROVE  YearsAreSeenTo'
  <1>1. ASSUME NEW t \in Thread, Others(t),
               \A y \in Year : YearIsComplete(cache[y], y) => YearIsComplete(cache'[y], y)
        PROVE  \A u \in Thread \ {t} :
                 /\ at'[u] \in {"years", "fetch"} /\ job'[u] # NoJob =>
                       /\ KnowsItsDates(u)'
                       /\ \A y \in Year \cap Touched(u)' :
                             y \in todo'[u] \/ y \in missing'[u] \/ YearIsComplete(cache'[y], y)
                 /\ at'[u] = "price" =>
                       /\ KnowsItsDates(u)'
                       /\ \A y \in Year \cap Touched(u)' : YearIsComplete(cache'[y], y)
    BY <1>1 DEF YearsAreSeenTo, Others, KnowsItsDates, Knows, Touched, Slots
  <1>2. ASSUME NEW t \in Thread, Others(t),
               \A y \in Year : YearIsComplete(cache[y], y) => YearIsComplete(cache'[y], y),
               /\ at'[t] \in {"years", "fetch"} /\ job'[t] # NoJob =>
                     /\ KnowsItsDates(t)'
                     /\ \A y \in Year \cap Touched(t)' :
                           y \in todo'[t] \/ y \in missing'[t] \/ YearIsComplete(cache'[y], y)
               /\ at'[t] = "price" =>
                     /\ KnowsItsDates(t)'
                     /\ \A y \in Year \cap Touched(t)' : YearIsComplete(cache'[y], y)
        PROVE  YearsAreSeenTo'
    BY <1>1, <1>2 DEF YearsAreSeenTo
  <1>3. NoJob.slots = <<>>
    BY DEF NoJob
  <1>. DEFINE Same(t) == KnowsItsDates(t)' = KnowsItsDates(t) /\ Touched(t)' = Touched(t)
  <1>4. ASSUME NEW t \in Thread, UNCHANGED job
        PROVE  Same(t)
    BY <1>4 DEF KnowsItsDates, Knows, Touched, Slots
  <1>. HIDE DEF Same
  <1>Ends. ASSUME NEW t \in Thread, Ends(t)
         PROVE  YearsAreSeenTo'
    BY <1>Ends, <1>2, EndsShape DEF world
  <1>GoesOn. ASSUME NEW t \in Thread, GoesOn(t)
         PROVE  YearsAreSeenTo'
    <2>1. /\ Others(t) /\ UNCHANGED <<cache, job, todo, missing>>
          /\ \/ at'[t] = "gate"
             \/ at[t] = "years" /\ at'[t] = "fetch"
             \/ at[t] = "years" /\ at'[t] = "price" /\ job[t] # NoJob /\ todo[t] = {} /\ missing[t] = {}
      BY <1>GoesOn, GoesOnShape DEF world
    <2>2. KnowsItsDates(t)' = KnowsItsDates(t) /\ Touched(t)' = Touched(t)
      BY <1>4, <2>1 DEF Same
    <2>. QED
      BY <1>2, <2>1, <2>2 DEF YearsAreSeenTo
  <1>Begin. ASSUME NEW t \in Thread, Begin(t)
         PROVE  YearsAreSeenTo'
    BY <1>Begin, <1>2, BeginShape DEF world
  <1>Leave. ASSUME NEW t \in Thread, Leave(t)
         PROVE  YearsAreSeenTo'
    BY <1>Leave, <1>2, LeaveShape DEF world
  <1>RoomsFit. ASSUME NEW t \in Thread, RoomsFit(t)
         PROVE  YearsAreSeenTo'
    <2>1. /\ Others(t) /\ UNCHANGED <<cache, job>> /\ at'[t] = "years" /\ todo'[t] = Touched(t)
          /\ Complete(t)
      BY <1>RoomsFit, RoomsFitShape DEF world
    <2>2. KnowsItsDates(t)' = KnowsItsDates(t) /\ Touched(t)' = Touched(t)
      BY <1>4, <2>1 DEF Same
    <2>3. job[t] # NoJob => KnowsItsDates(t)
      BY <2>1 DEF Complete, MissingFields, KnowsItsDates, Knows, Slots
    <2>. QED
      BY <1>2, <2>1, <2>2, <2>3
  <1>Look. ASSUME NEW t \in Thread, YearIsCached(t) \/ YearIsLeftAlone(t)
         PROVE  YearsAreSeenTo'
    <2>1. /\ Others(t) /\ UNCHANGED <<cache, job>> /\ at[t] = "years" /\ at'[t] = "years"
          /\ todo'[t] = todo[t] \ {FirstYear(t)} /\ missing[t] \subseteq missing'[t]
          /\ FirstYear(t) \in missing'[t] \/ YearIsComplete(cache[FirstYear(t)], FirstYear(t))
      BY <1>Look, LookShape DEF world
    <2>2. KnowsItsDates(t)' = KnowsItsDates(t) /\ Touched(t)' = Touched(t)
      BY <1>4, <2>1 DEF Same
    <2>3. ASSUME job'[t] # NoJob
          PROVE  /\ KnowsItsDates(t)'
                 /\ \A y \in Year \cap Touched(t)' :
                       y \in todo'[t] \/ y \in missing'[t] \/ YearIsComplete(cache'[y], y)
      BY <2>1, <2>2, <2>3 DEF YearsAreSeenTo
    <2>. QED
      BY <1>2, <2>1, <2>3
  <1>Fetched. ASSUME NEW t \in Thread, FetchSucceeds(t)
         PROVE  YearsAreSeenTo'
    <2>1. /\ Others(t) /\ UNCHANGED <<job, missing>> /\ at[t] = "fetch" /\ at'[t] = "years"
          /\ todo'[t] = todo[t] \ {FirstYear(t)}
          /\ \A y \in Year : IF y = FirstYear(t) THEN YearIsComplete(cache'[y], y)
                             ELSE cache'[y] = cache[y]
      BY <1>Fetched, FetchedShape
    <2>2. KnowsItsDates(t)' = KnowsItsDates(t) /\ Touched(t)' = Touched(t)
      BY <1>4, <2>1 DEF Same
    <2>3. ASSUME job'[t] # NoJob
          PROVE  /\ KnowsItsDates(t)'
                 /\ \A y \in Year \cap Touched(t)' :
                       y \in todo'[t] \/ y \in missing'[t] \/ YearIsComplete(cache'[y], y)
      BY <2>1, <2>2, <2>3 DEF YearsAreSeenTo
    <2>4. \A y \in Year : YearIsComplete(cache[y], y) => YearIsComplete(cache'[y], y)
      BY <2>1
    <2>. QED
      BY <1>2, <2>1, <2>3, <2>4
  <1>Failed. ASSUME NEW t \in Thread, FetchFails(t)
         PROVE  YearsAreSeenTo'
    <2>1. /\ Others(t) /\ UNCHANGED <<cache, job>> /\ at[t] = "fetch" /\ at'[t] = "years"
          /\ todo'[t] = todo[t] \ {FirstYear(t)} /\ missing'[t] = missing[t] \cup {FirstYear(t)}
      BY <1>Failed, FailedShape
    <2>2. KnowsItsDates(t)' = KnowsItsDates(t) /\ Touched(t)' = Touched(t)
      BY <1>4, <2>1 DEF Same
    <2>3. ASSUME job'[t] # NoJob
          PROVE  /\ KnowsItsDates(t)'
                 /\ \A y \in Year \cap Touched(t)' :
                       y \in todo'[t] \/ y \in missing'[t] \/ YearIsComplete(cache'[y], y)
      BY <2>1, <2>2, <2>3 DEF YearsAreSeenTo
    <2>. QED
      BY <1>2, <2>1, <2>3
  <1>Price. ASSUME NEW t \in Thread, PriceMade(t)
         PROVE  YearsAreSeenTo'
    BY <1>Price, <1>2, PriceShape DEF world
  <1>Quote. ASSUME NEW t \in Thread, QuoteIsFree(t) \/ QuoteUnverified(t)
         PROVE  YearsAreSeenTo'
    BY <1>Quote, <1>2, QuoteShape DEF world
  <1>Book. CASE Book
    BY <1>Book DEF Book, own, YearsAreSeenTo, KnowsItsDates, Knows, Touched, Slots
  <1>Tick. CASE Tick
    BY <1>Tick, TickShape DEF own, YearsAreSeenTo, KnowsItsDates, Knows, Touched, Slots
  <1>Restart. CASE Restart
    BY <1>Restart, RestartShape DEF YearsAreSeenTo
  <1>. QED
    BY StepIs, <1>Ends, <1>GoesOn, <1>Begin, <1>Leave, <1>RoomsFit, <1>Look, <1>Fetched,
       <1>Failed, <1>Price, <1>Quote, <1>Book, <1>Tick, <1>Restart DEF Next

-----------------------------------------------------------------------------
(* The calendar.                                                           *)

\* A year is a stretch of days.
LEMMA YearBounds ==
    ASSUME NEW d \in Int
    PROVE  /\ YearOf(d) \in Int
           /\ YearLength * (YearOf(d) - 1) < d
           /\ d <= YearLength * YearOf(d)
  <1>. DEFINE q == (d - 1) \div YearLength
              r == (d - 1) % YearLength
  <1>1. /\ YearLength \in Int /\ YearLength >= 1 /\ q \in Int /\ r \in 0..(YearLength - 1)
        /\ d - 1 = YearLength * q + r
    BY CalendarAssumption
  <1>2. YearOf(d) = q + 1
    BY DEF YearOf
  <1>. HIDE DEF q, r
  <1>3. YearLength * (q + 1) = YearLength * q + YearLength
    BY <1>1
  <1>4. YearLength * q \in Int
    BY <1>1
  <1>5. YearLength * q < d /\ d <= YearLength * (q + 1)
    BY <1>1, <1>3, <1>4
  <1>6. q + 1 \in Int /\ (q + 1) - 1 = q
    BY <1>1
  <1>. QED
    BY <1>2, <1>5, <1>6

\* Years go up with their days, and by one at most within a year's length.
LEMMA YearsGoUp ==
    ASSUME NEW d \in Int, NEW e \in Int, d <= e
    PROVE  /\ YearOf(d) <= YearOf(e)
           /\ e <= d + YearLength => YearOf(e) <= YearOf(d) + 1
  <1>. DEFINE y == YearOf(d)
              z == YearOf(e)
  <1>1. /\ YearLength \in Int /\ YearLength >= 1 /\ y \in Int /\ z \in Int
        /\ YearLength * (y - 1) < d /\ d <= YearLength * y
        /\ YearLength * (z - 1) < e /\ e <= YearLength * z
    BY CalendarAssumption, YearBounds
  <1>. HIDE DEF y, z
  <1>2. ASSUME z <= y - 1
        PROVE  FALSE
    <2>1. YearLength * z <= YearLength * (y - 1)
      BY <1>1, <1>2
    <2>2. YearLength * z \in Int /\ YearLength * (y - 1) \in Int
      BY <1>1
    <2>. QED
      BY <1>1, <2>1, <2>2
  <1>3. ASSUME e <= d + YearLength, y + 2 <= z
        PROVE  FALSE
    <2>1. YearLength * (y + 1) <= YearLength * (z - 1)
      BY <1>1, <1>3
    <2>2. /\ YearLength * (y + 1) = YearLength * y + YearLength
          /\ YearLength * y \in Int /\ YearLength * (z - 1) \in Int
      BY <1>1
    <2>. QED
      BY <1>1, <1>3, <2>1, <2>2
  <1>. QED
    BY <1>1, <1>2, <1>3 DEF y, z

LEMMA DaysHaveYears ==
    ASSUME NEW d \in Day
    PROVE  YearOf(d) \in Year /\ d \in DaysOf(YearOf(d))
  <1>. DEFINE y == YearOf(d)
  <1>1. /\ YearLength \in Int /\ YearLength >= 1 /\ LastYear \in Nat
        /\ YearLength * LastYear \in Int
        /\ d \in Int /\ d >= 1 /\ d <= YearLength * LastYear
    BY CalendarAssumption DEF Day
  <1>2. y \in Int /\ YearLength * (y - 1) < d /\ d <= YearLength * y
    BY <1>1, YearBounds
  <1>. HIDE DEF y
  <1>3. ASSUME y <= 0
        PROVE  FALSE
    <2>1. YearLength * y <= YearLength * 0 /\ YearLength * 0 = 0 /\ YearLength * y \in Int
      BY <1>1, <1>2, <1>3
    <2>. QED
      BY <1>1, <1>2, <2>1
  <1>4. ASSUME LastYear <= y - 1
        PROVE  FALSE
    <2>1. YearLength * LastYear <= YearLength * (y - 1) /\ YearLength * (y - 1) \in Int
      BY <1>1, <1>2, <1>4
    <2>. QED
      BY <1>1, <1>2, <2>1
  <1>5. y \in 1..LastYear
    BY <1>1, <1>2, <1>3, <1>4
  <1>. QED
    BY <1>5 DEF Year, DaysOf, y

\* A stay of at most a year: all the years from the day before it to the day
\* after it are asked for.  (A longer one may pass over a year that
\* _years_touched does not name.)
LEMMA AllYearsTouched ==
    ASSUME NEW checkin \in Int, NEW checkout \in Int, checkin < checkout,
           checkout - checkin <= YearLength,
           NEW d \in (checkin - 1)..checkout
    PROVE  YearOf(d) \in YearsTouched(checkin, checkout)
  <1>1. CASE d \in {checkin - 1, checkout}
    BY <1>1 DEF YearsTouched
  <1>2. CASE d \notin {checkin - 1, checkout}
    <2>1. d \in Int /\ checkin <= d /\ d <= checkout - 1 /\ YearLength \in Int
      BY <1>2, CalendarAssumption
    <2>2. /\ YearOf(checkin) <= YearOf(d) /\ YearOf(d) <= YearOf(checkout - 1)
          /\ YearOf(checkout - 1) <= YearOf(checkin) + 1
      BY <2>1, YearsGoUp
    <2>3. YearOf(d) \in Int /\ YearOf(checkin) \in Int /\ YearOf(checkout - 1) \in Int
      BY <2>1, YearBounds
    <2>4. YearOf(d) = YearOf(checkin) \/ YearOf(d) = YearOf(checkout - 1)
      BY <2>2, <2>3
    <2>. QED
      BY <2>4 DEF YearsTouched
  <1>. QED
    BY <1>1, <1>2

\* The special dates that derive_special_dates finds in part of a calendar are
\* right for a night whose days off are all in that part.
LEMMA PartOfCalendar ==
    ASSUME NEW p \in [Day -> Kind], NEW C \in SUBSET Day, NEW night \in Int,
           RunOf(p, night) \subseteq C, NEW c, c = [d \in C |-> p[d]]
    PROVE  /\ night \in SpecialDates(c).national <=> night \in SpecialDates(p).national
           /\ night \in SpecialDates(c).spring <=> night \in SpecialDates(p).spring
  <1>0. DOMAIN p = Day /\ DOMAIN c = C /\ (\A e \in C : c[e] = p[e]) /\ Day \subseteq Int
    BY DEF Day
  <1>1. DaysOff(c) = DaysOff(p) \cap C /\ DaysOff(p) \subseteq Int
        /\ \A e \in C : c[e] = p[e]
    BY <1>0 DEF DaysOff
  <1>2. CASE night \notin DaysOff(p)
    <2>1. night \notin DaysOff(c)
      BY <1>1, <1>2
    <2>2. night \notin SpecialDates(c).national /\ night \notin SpecialDates(c).spring
      BY <2>1 DEF SpecialDates
    <2>3. night \notin SpecialDates(p).national /\ night \notin SpecialDates(p).spring
      BY <1>2 DEF SpecialDates
    <2>. QED
      BY <2>2, <2>3
  <1>3. CASE night \in DaysOff(p)
    <2>1. night \in RunOf(p, night)
      <3>1. night..night = {night}
        OBVIOUS
      <3>. QED
        BY <1>3, <3>1 DEF RunOf
    <2>2. ASSUME NEW e \in RunOf(p, night)
          PROVE  e \in RunOf(c, night)
      <3>1. e \in DaysOff(p) /\ e \in Int /\ (night..e) \cup (e..night) \subseteq DaysOff(p)
        BY <1>1, <2>2 DEF RunOf
      <3>2. ASSUME NEW x \in (night..e) \cup (e..night)
            PROVE  x \in DaysOff(c)
        <4>1. x \in Int /\ x \in DaysOff(p)
              /\ (night..x) \cup (x..night) \subseteq (night..e) \cup (e..night)
          BY <3>1, <3>2
        <4>2. x \in RunOf(p, night)
          BY <3>1, <4>1 DEF RunOf
        <4>. QED
          BY <1>1, <4>1, <4>2
      <3>. QED
        BY <1>1, <2>2, <3>1, <3>2 DEF RunOf
    <2>3. ASSUME NEW e \in RunOf(c, night)
          PROVE  e \in RunOf(p, night)
      BY <1>1, <2>3 DEF RunOf
    <2>4. RunOf(c, night) = RunOf(p, night) /\ \A e \in RunOf(p, night) : c[e] = p[e]
      BY <1>1, <2>2, <2>3
    <2>5. night \in DaysOff(c)
      BY <1>1, <1>3, <2>1
    <2>6. night \in SpecialDates(c).national <=> \E e \in RunOf(c, night) : c[e] \in {"named", "spring"}
      BY <2>5 DEF SpecialDates
    <2>7. night \in SpecialDates(p).national <=> \E e \in RunOf(p, night) : p[e] \in {"named", "spring"}
      BY <1>3 DEF SpecialDates
    <2>8. night \in SpecialDates(c).spring <=> \E e \in RunOf(c, night) : c[e] = "spring"
      BY <2>5 DEF SpecialDates
    <2>9. night \in SpecialDates(p).spring <=> \E e \in RunOf(p, night) : p[e] = "spring"
      BY <1>3 DEF SpecialDates
    <2>. QED
      BY <2>4, <2>6, <2>7, <2>8, <2>9
  <1>. QED
    BY <1>2, <1>3

\* The days of the cached years.
LEMMA CachedAre ==
    ASSUME QTypes
    PROVE  /\ CachedDays \in SUBSET Day
           /\ \A y \in Year : YearIsComplete(cache[y], y) => DaysOf(y) \subseteq CachedDays
  <1>1. \A y \in Year : cache[y] # <<>> => Parsed(cache[y]) = DaysOf(y)
    BY DEF QTypes, YearIsComplete
  <1>2. \A y \in Year : YearIsComplete(cache[y], y) => cache[y] # <<>>
    BY DEF YearIsComplete
  <1>3. \A y : DaysOf(y) \subseteq Day
    BY DEF DaysOf
  <1>. QED
    BY <1>1, <1>2, <1>3 DEF CachedDays

-----------------------------------------------------------------------------
(* The nights are priced as what they are.                                 *)

\* The days of a stay that has its dates.
LEMMA DatesOf ==
    ASSUME QTypes, NEW t \in Thread, KnowsItsDates(t)
    PROVE  /\ job[t] \in Job
           /\ Slots(t)["checkin"] \in Nat /\ Slots(t)["checkout"] \in Nat
           /\ StayNights(t) = Slots(t)["checkin"]..(Slots(t)["checkout"] - 1)
           /\ StaysWithinAYear => Slots(t)["checkout"] - Slots(t)["checkin"] <= YearLength
  <1>1. job[t] \in Job /\ {"checkin", "checkout"} \subseteq DOMAIN Slots(t)
    BY DEF QTypes, KnowsItsDates, Knows
  <1>2. Slots(t) \in [DOMAIN Slots(t) -> Nat]
    BY <1>1, QuotingAssumption DEF Slots
  <1>3. Slots(t)["checkin"] \in Nat /\ Slots(t)["checkout"] \in Nat
    BY <1>1, <1>2
  <1>4. StayNights(t) = Slots(t)["checkin"]..(Slots(t)["checkout"] - 1)
    BY <1>1 DEF StayNights, Knows, Nights
  <1>5. StaysWithinAYear => Slots(t)["checkout"] - Slots(t)["checkin"] <= YearLength
    BY <1>1 DEF StaysWithinAYear, Slots
  <1>. QED
    BY <1>1, <1>3, <1>4, <1>5

\* The tenant's own dates are merged into both alike.
LEMMA PricesAgree ==
    ASSUME NEW a, NEW b, NEW night,
           night \in a.national <=> night \in b.national,
           night \in a.spring <=> night \in b.spring
    PROVE  PriceType(WithOwn(a), night) = PriceType(WithOwn(b), night)
  <1>1. night \in WithOwn(a).national <=> night \in WithOwn(b).national
    BY DEF WithOwn
  <1>2. night \in WithOwn(a).spring <=> night \in WithOwn(b).spring
    BY DEF WithOwn
  <1>. HIDE DEF WithOwn
  <1>. QED
    BY <1>1, <1>2 DEF PriceType

\* The days off around a night, of which the stay's years have all, are in
\* years that the stay asked for.
LEMMA ReachIsCached ==
    ASSUME QTypes, StaysWithinAYear, YearsAreSeenTo,
           NEW t \in Thread, at[t] = "price", KnowsItsDates(t),
           NEW night \in StayNights(t), InReach(t, night)
    PROVE  RunOf(published, night) \subseteq CachedDays
  <1>. DEFINE in == Slots(t)["checkin"]
              out == Slots(t)["checkout"]
  <1>1. /\ in \in Nat /\ out \in Nat /\ out - in <= YearLength
        /\ night \in in..(out - 1)
    BY DatesOf
  <1>2. in < out
    BY <1>1
  <1>3. /\ {YearOf(d) : d \in RunOf(published, night)}
              \subseteq {YearOf(d) : d \in (in - 1)..out}
        /\ \A y \in Year \cap YearsTouched(in, out) : YearIsComplete(cache[y], y)
    BY DEF InReach, YearsAreSeenTo, Touched
  <1>4. \A d \in (in - 1)..out : YearOf(d) \in YearsTouched(in, out)
    <2>. HIDE DEF in, out
    <2>. QED
      BY <1>1, <1>2, AllYearsTouched
  <1>. HIDE DEF in, out
  <1>5. RunOf(published, night) \subseteq Day
    BY DEF RunOf, DaysOff, QTypes
  <1>6. ASSUME NEW d \in RunOf(published, night)
        PROVE  d \in CachedDays
    <2>1. d \in Day /\ YearOf(d) \in Year /\ d \in DaysOf(YearOf(d))
      BY <1>5, <1>6, DaysHaveYears
    <2>2. YearOf(d) \in YearsTouched(in, out)
      BY <1>3, <1>4
    <2>3. YearIsComplete(cache[YearOf(d)], YearOf(d))
      BY <1>3, <2>1, <2>2
    <2>. QED
      BY <2>1, <2>3, CachedAre
  <1>. QED
    BY <1>6

\* What a stay is worth by a set of special dates depends on its days only.
SameStay(t) ==
    /\ \A night : InReach(t, night)' = InReach(t, night)
    /\ StayNights(t)' = StayNights(t)
    /\ \A night : TrueType(night)' = TrueType(night)

LEMMA StayStays ==
    ASSUME NEW t \in Thread, job'[t] = job[t], published' = published
    PROVE  SameStay(t)
  BY DEF SameStay, InReach, StayNights, Knows, Slots, TrueType

\* A price is made from special dates that are right for its nights.
LEMMA PriceIsRight ==
    ASSUME QTypes, StaysWithinAYear, YearsAreSeenTo, NEW t \in Thread, PriceMade(t)
    PROVE  RightDates(t)'
  <1>1. /\ at[t] = "price" /\ job' = job /\ published' = published
        /\ special'[t] = WithOwn(SpecialDates([d \in CachedDays |-> published[d]]))
    BY PriceShape DEF world
  <1>2. SameStay(t)
    BY <1>1, StayStays
  <1>3. KnowsItsDates(t)
    BY <1>1 DEF YearsAreSeenTo
  <1>4. ASSUME NEW night \in StayNights(t), InReach(t, night)
        PROVE  PriceType(special'[t], night) = TrueType(night)
    <2>. DEFINE c == [d \in CachedDays |-> published[d]]
    <2>0. c = [d \in CachedDays |-> published[d]]
      OBVIOUS
    <2>. HIDE DEF c
    <2>1. RunOf(published, night) \subseteq CachedDays /\ CachedDays \in SUBSET Day
      BY <1>1, <1>3, <1>4, ReachIsCached, CachedAre
    <2>2. night \in Int /\ published \in [Day -> Kind]
      <3>1. PICK a \in Int, b \in Int : StayNights(t) = a..b
        <4>1. Slots(t)["checkin"] \in Int /\ Slots(t)["checkout"] - 1 \in Int
              /\ StayNights(t) = Slots(t)["checkin"]..(Slots(t)["checkout"] - 1)
          BY <1>3, DatesOf
        <4>. QED
          BY <4>1
      <3>2. published \in [Day -> Kind]
        BY DEF QTypes
      <3>. QED
        BY <1>4, <3>1, <3>2
    <2>3. /\ night \in SpecialDates(c).national <=> night \in SpecialDates(published).national
          /\ night \in SpecialDates(c).spring <=> night \in SpecialDates(published).spring
      <3>. DEFINE C == CachedDays
      <3>1. /\ RunOf(published, night) \subseteq C /\ C \in SUBSET Day
            /\ c = [d \in C |-> published[d]]
        BY <2>0, <2>1
      <3>. HIDE DEF C
      <3>. QED
        BY <2>2, <3>1, PartOfCalendar
    <2>4. PriceType(WithOwn(SpecialDates(c)), night)
             = PriceType(WithOwn(SpecialDates(published)), night)
      BY <2>3, PricesAgree
    <2>. QED
      BY <1>1, <2>0, <2>4 DEF TrueType
  <1>5. \A night \in StayNights(t)' :
            InReach(t, night)' => PriceType(special'[t], night) = TrueType(night)'
    BY <1>2, <1>4 DEF SameStay
  <1>. QED
    BY <1>5 DEF RightDates

\* Where a stay waits, its dates stay right.
LEMMA DatesStayRight ==
    ASSUME DatesAreRight, NEW t \in Thread, job'[t] = job[t], special'[t] = special[t],
           published' = published, at[t] = "calendar"
    PROVE  RightDates(t)'
  <1>1. SameStay(t) /\ RightDates(t)
    BY StayStays DEF DatesAreRight
  <1>2. \A night \in StayNights(t)' :
            InReach(t, night)' => PriceType(special'[t], night) = TrueType(night)'
    BY <1>1 DEF SameStay, RightDates
  <1>. QED
    BY <1>2 DEF RightDates

\* Where it has its answer, its nights stay true.
NightsTrue(t) ==
    Priced(t) => \A night \in StayNights(t) :
        InReach(t, night) => answer[t].types[night] = TrueType(night)

LEMMA NightsStayTrue ==
    ASSUME NEW t \in Thread, NightsTrue(t), job'[t] = job[t], answer'[t] = answer[t],
           published' = published
    PROVE  NightsTrue(t)'
  <1>1. SameStay(t) /\ Priced(t)' = Priced(t)
    BY StayStays DEF Priced
  <1>2. Priced(t)' => \A night \in StayNights(t)' :
            InReach(t, night)' => answer'[t].types[night] = TrueType(night)'
    BY <1>1 DEF SameStay, NightsTrue
  <1>. QED
    BY <1>2 DEF NightsTrue

-----------------------------------------------------------------------------
(* Every step keeps the nights true.                                       *)

\* The special dates of a stay stay right.
LEMMA DatesStep ==
    ASSUME QTypes, StaysWithinAYear, YearsAreSeenTo, DatesAreRight, Next
    PROVE  DatesAreRight'
  <1>1. ASSUME NEW t \in Thread, Others(t), published' = published,
               at'[t] = "calendar" => RightDates(t)'
        PROVE  DatesAreRight'
    <2>1. ASSUME NEW u \in Thread, at'[u] = "calendar"
          PROVE  RightDates(u)'
      <3>1. CASE u = t
        BY <1>1, <2>1, <3>1
      <3>2. CASE u # t
        BY <1>1, <2>1, <3>2, DatesStayRight DEF Others
      <3>. QED
        BY <3>1, <3>2
    <2>. QED
      BY <2>1 DEF DatesAreRight
  <1>2. ASSUME UNCHANGED <<at, job, special, published>>
        PROVE  DatesAreRight'
    BY <1>2, DatesStayRight DEF DatesAreRight
  <1>Ends. ASSUME NEW t \in Thread, Ends(t)
         PROVE  DatesAreRight'
    BY <1>Ends, <1>1, EndsShape DEF world
  <1>GoesOn. ASSUME NEW t \in Thread, GoesOn(t)
         PROVE  DatesAreRight'
    BY <1>GoesOn, <1>1, GoesOnShape DEF world
  <1>Begin. ASSUME NEW t \in Thread, Begin(t)
         PROVE  DatesAreRight'
    BY <1>Begin, <1>1, BeginShape DEF world
  <1>Leave. ASSUME NEW t \in Thread, Leave(t)
         PROVE  DatesAreRight'
    BY <1>Leave, <1>1, LeaveShape DEF world
  <1>RoomsFit. ASSUME NEW t \in Thread, RoomsFit(t)
         PROVE  DatesAreRight'
    BY <1>RoomsFit, <1>1, RoomsFitShape DEF world
  <1>Look. ASSUME NEW t \in Thread, YearIsCached(t) \/ YearIsLeftAlone(t)
         PROVE  DatesAreRight'
    BY <1>Look, <1>1, LookShape DEF world
  <1>Fetched. ASSUME NEW t \in Thread, FetchSucceeds(t)
         PROVE  DatesAreRight'
    BY <1>Fetched, <1>1, FetchedShape DEF world
  <1>Failed. ASSUME NEW t \in Thread, FetchFails(t)
         PROVE  DatesAreRight'
    BY <1>Failed, <1>1, FailedShape DEF world
  <1>Price. ASSUME NEW t \in Thread, PriceMade(t)
         PROVE  DatesAreRight'
    BY <1>Price, <1>1, PriceShape, PriceIsRight DEF world
  <1>Quote. ASSUME NEW t \in Thread, QuoteIsFree(t) \/ QuoteUnverified(t)
         PROVE  DatesAreRight'
    BY <1>Quote, <1>1, QuoteShape DEF world
  <1>Book. CASE Book
    BY <1>Book, <1>2 DEF Book, own
  <1>Tick. CASE Tick
    BY <1>Tick, <1>2, TickShape DEF own
  <1>Restart. CASE Restart
    BY <1>Restart, RestartShape DEF DatesAreRight
  <1>. QED
    BY StepIs, <1>Ends, <1>GoesOn, <1>Begin, <1>Leave, <1>RoomsFit, <1>Look, <1>Fetched,
       <1>Failed, <1>Price, <1>Quote, <1>Book, <1>Tick, <1>Restart DEF Next

\* What was answered stays true.
LEMMA NightsStep ==
    ASSUME QTypes, AnswersAtTheEnd, DatesAreRight, NightsTrueInReach, Next
    PROVE  NightsTrueInReach'
  <1>1. \A t \in Thread : NightsTrue(t)
    BY DEF NightsTrueInReach, NightsTrue
  <1>2. ASSUME NEW t \in Thread, Others(t), published' = published, NightsTrue(t)'
        PROVE  NightsTrueInReach'
    <2>1. ASSUME NEW u \in Thread
          PROVE  NightsTrue(u)'
      <3>1. CASE u = t
        BY <1>2, <3>1
      <3>2. CASE u # t
        BY <1>1, <1>2, <2>1, <3>2, NightsStayTrue DEF Others
      <3>. QED
        BY <3>1, <3>2
    <2>. QED
      BY <2>1 DEF NightsTrueInReach, NightsTrue
  <1>3. ASSUME NEW t \in Thread, Others(t), published' = published,
               answer'[t].kind \notin {"quoted", "unverified"}
        PROVE  NightsTrueInReach'
    BY <1>2, <1>3 DEF NightsTrue, Priced
  <1>4. ASSUME NEW t \in Thread, at[t] # "done", answer' = answer
        PROVE  answer'[t].kind \notin {"quoted", "unverified"}
    BY <1>4 DEF AnswersAtTheEnd
  <1>5. ASSUME UNCHANGED <<job, answer, published>>
        PROVE  NightsTrueInReach'
    <2>1. ASSUME NEW u \in Thread
          PROVE  NightsTrue(u)'
      BY <1>1, <1>5, NightsStayTrue
    <2>. QED
      BY <2>1 DEF NightsTrueInReach, NightsTrue
  <1>Ends. ASSUME NEW t \in Thread, Ends(t)
         PROVE  NightsTrueInReach'
    BY <1>Ends, <1>3, EndsShape DEF world
  <1>GoesOn. ASSUME NEW t \in Thread, GoesOn(t)
         PROVE  NightsTrueInReach'
    BY <1>GoesOn, <1>3, <1>4, GoesOnShape DEF world
  <1>Begin. ASSUME NEW t \in Thread, Begin(t)
         PROVE  NightsTrueInReach'
    BY <1>Begin, <1>3, <1>4, BeginShape DEF world
  <1>Leave. ASSUME NEW t \in Thread, Leave(t)
         PROVE  NightsTrueInReach'
    BY <1>Leave, <1>3, LeaveShape DEF world
  <1>RoomsFit. ASSUME NEW t \in Thread, RoomsFit(t)
         PROVE  NightsTrueInReach'
    BY <1>RoomsFit, <1>3, <1>4, RoomsFitShape DEF world
  <1>Look. ASSUME NEW t \in Thread, YearIsCached(t) \/ YearIsLeftAlone(t)
         PROVE  NightsTrueInReach'
    BY <1>Look, <1>3, <1>4, LookShape DEF world
  <1>Fetched. ASSUME NEW t \in Thread, FetchSucceeds(t)
         PROVE  NightsTrueInReach'
    BY <1>Fetched, <1>3, <1>4, FetchedShape DEF world
  <1>Failed. ASSUME NEW t \in Thread, FetchFails(t)
         PROVE  NightsTrueInReach'
    BY <1>Failed, <1>3, <1>4, FailedShape DEF world
  <1>Price. ASSUME NEW t \in Thread, PriceMade(t)
         PROVE  NightsTrueInReach'
    BY <1>Price, <1>3, <1>4, PriceShape DEF world
  <1>Quote. ASSUME NEW t \in Thread, QuoteIsFree(t) \/ QuoteUnverified(t)
         PROVE  NightsTrueInReach'
    <2>1. /\ Others(t) /\ UNCHANGED <<published, job>> /\ at[t] = "calendar"
          /\ answer'[t].types = [night \in StayNights(t) |-> PriceType(special[t], night)]
      BY <1>Quote, QuoteShape DEF world
    <2>2. SameStay(t) /\ RightDates(t)
      BY <2>1, StayStays DEF DatesAreRight
    <2>3. \A night \in StayNights(t)' :
              InReach(t, night)' => answer'[t].types[night] = TrueType(night)'
      BY <2>1, <2>2 DEF SameStay, RightDates
    <2>. QED
      BY <1>2, <2>1, <2>3 DEF NightsTrue
  <1>Book. CASE Book
    BY <1>Book, <1>5 DEF Book, own
  <1>Tick. CASE Tick
    BY <1>Tick, <1>5, TickShape DEF own
  <1>Restart. CASE Restart
    BY <1>Restart, RestartShape DEF NightsTrueInReach, Priced
  <1>. QED
    BY StepIs, <1>Ends, <1>GoesOn, <1>Begin, <1>Leave, <1>RoomsFit, <1>Look, <1>Fetched,
       <1>Failed, <1>Price, <1>Quote, <1>Book, <1>Tick, <1>Restart DEF Next

-----------------------------------------------------------------------------
(* The room gate and the price.                                            *)

\* Every set of natural numbers has a least one, and a finite set has a
\* greatest.
LEMMA LeastNat ==
    ASSUME NEW S \in SUBSET Nat, S # {}
    PROVE  Min(S) \in S /\ \A n \in S : Min(S) <= n
  <1>1. PICK m \in S : \A n \in S : <<n, m>> \notin OpToRel(<, Nat)
    BY WFMin, NatLessThanWellFounded, Zenon
  <1>2. \A n \in S : n \in Nat /\ m \in Nat
    OBVIOUS
  <1>3. \A n \in S : ~(n < m)
    BY <1>1, <1>2, Zenon DEF OpToRel
  <1>4. \A n \in S : m <= n
    BY <1>2, <1>3
  <1>. QED
    BY <1>4 DEF Min

LEMMA GreatestNat ==
    ASSUME NEW S \in SUBSET Nat, S # {}, IsFiniteSet(S)
    PROVE  Max(S) \in S /\ \A n \in S : n <= Max(S)
  <1>. DEFINE Above(n) == {k \in S : k > n}
              C == {c \in Nat : \E n \in S : c = Cardinality(Above(n))}
  <1>1. \A n \in S : IsFiniteSet(Above(n)) /\ Cardinality(Above(n)) \in Nat
    BY FS_Subset, FS_CardinalityType
  <1>2. C \in SUBSET Nat /\ C # {}
    BY <1>1
  <1>3. PICK c \in C : \A d \in C : c <= d
    BY <1>2, LeastNat
  <1>4. PICK m \in S : c = Cardinality(Above(m))
    BY <1>3
  <1>5. ASSUME NEW k \in S, k > m
        PROVE  FALSE
    <2>0. k > m /\ ~(k > k) /\ \A n \in S : n > k => n > m
      BY <1>5
    <2>1. k \in Above(m) /\ k \notin Above(k) /\ \A n \in Above(k) : n \in Above(m)
      BY <2>0
    <2>. HIDE DEF Above
    <2>2. Cardinality(Above(k)) \in C /\ c \in Nat /\ Cardinality(Above(k)) \in Nat
      BY <1>1, <1>2
    <2>. HIDE DEF C
    <2>3. IsFiniteSet(Above(m)) /\ Above(k) \in SUBSET Above(m) /\ Above(k) # Above(m)
      BY <1>1, <2>1
    <2>4. Cardinality(Above(k)) <= Cardinality(Above(m))
          /\ Cardinality(Above(m)) # Cardinality(Above(k))
      BY <2>3, FS_Subset
    <2>. QED
      BY <1>3, <1>4, <2>2, <2>4
  <1>6. \A k \in S : m >= k
    BY <1>5
  <1>. HIDE DEF Above, C
  <1>. QED
    BY <1>6 DEF Max

\* The rules, and which of them a number of rooms is priced by.
LEMMA RulesAre ==
    /\ DOMAIN Rules \in SUBSET Nat /\ IsFiniteSet(DOMAIN Rules)
    /\ \A i \in DOMAIN Rules : /\ Rules[i].rooms \in Nat /\ Rules[i].min \in Nat
                               /\ Rules[i].max \in Nat /\ Rules[i].extra \in BOOLEAN
    /\ MaxGuests \in Nat
  <1>1. PICK n \in Nat : DOMAIN Rules = 1..n
    BY RoomsAssumption
  <1>2. \A i \in DOMAIN Rules : /\ Rules[i].rooms \in Nat /\ Rules[i].min \in Nat
                               /\ Rules[i].max \in Nat /\ Rules[i].extra \in BOOLEAN
    <2>. DEFINE R == [rooms : Nat \ {0}, min : Nat \ {0}, max : Nat \ {0}, extra : BOOLEAN]
    <2>1. \A r \in R : r.rooms \in Nat /\ r.min \in Nat /\ r.max \in Nat /\ r.extra \in BOOLEAN
      OBVIOUS
    <2>2. Rules \in Seq(R)
      BY RoomsAssumption
    <2>. HIDE DEF R
    <2>3. \A i \in DOMAIN Rules : Rules[i] \in R
      BY <2>2
    <2>. QED
      BY <2>1, <2>3
  <1>3. MaxGuests \in Nat
    BY RoomsAssumption
  <1>4. 1..n \in SUBSET Nat /\ IsFiniteSet(1..n)
    BY FS_Interval
  <1>. QED
    BY <1>1, <1>2, <1>3, <1>4

LEMMA MaxOfRules ==
    ASSUME NEW S \in SUBSET DOMAIN Rules, S # {},
           NEW T, T = {Rules[i].max : i \in S}
    PROVE  IsFiniteSet(T) /\ T \in SUBSET Nat /\ Max(T) \in T /\ \A k \in T : k <= Max(T)
  <1>. DEFINE f == [i \in S |-> Rules[i].max]
  <1>1. f \in Surjection(S, T)
    BY DEF Surjection
  <1>2. IsFiniteSet(S)
    BY RulesAre, FS_Subset
  <1>3. IsFiniteSet(T)
    BY <1>1, <1>2, FS_Surjection
  <1>4. T \in SUBSET Nat /\ T # {}
    BY RulesAre
  <1>. QED
    BY <1>3, <1>4, GreatestNat

LEMMA StandardIs ==
    ASSUME NEW rooms, HasRule(rooms)
    PROVE  \E i \in StandardRules(rooms) :
              /\ StandardCapacity(rooms) = Rules[i].max
              /\ i \in DOMAIN Rules /\ Rules[i].rooms = rooms /\ ~Rules[i].extra
  <1>1. StandardRules(rooms) \in SUBSET Nat /\ StandardRules(rooms) # {}
    BY RulesAre DEF HasRule, StandardRules, RulesFor
  <1>2. Min(StandardRules(rooms)) \in StandardRules(rooms)
    BY <1>1, LeastNat
  <1>. QED
    BY <1>2 DEF StandardCapacity, StandardRules, RulesFor

LEMMA CapacityIs ==
    ASSUME NEW rooms, NEW i \in DOMAIN Rules, Rules[i].rooms = rooms
    PROVE  Capacity(rooms) \in Nat /\ Rules[i].max <= Capacity(rooms)
  <1>. DEFINE T == {Rules[j].max : j \in RulesFor(rooms)}
  <1>1. RulesFor(rooms) \in SUBSET DOMAIN Rules /\ i \in RulesFor(rooms)
    BY DEF RulesFor
  <1>2. T \in SUBSET Nat /\ Max(T) \in T /\ \A k \in T : k <= Max(T)
    BY <1>1, MaxOfRules
  <1>3. Rules[i].max \in T
    BY <1>1
  <1>. HIDE DEF T
  <1>4. Max(T) \in Nat /\ Rules[i].max <= Max(T)
    BY <1>2, <1>3
  <1>. QED
    BY <1>4 DEF Capacity, T

LEMMA MaxCapacityIs ==
    MaxCapacity \in Nat /\ (SoundPolicy /\ MaxGuests > 0 => MaxCapacity <= MaxGuests)
  <1>. DEFINE R == {Rules[i].max : i \in DOMAIN Rules}
              T == {MaxGuests} \cup R
  <1>1. IsFiniteSet(R)
    <2>1. CASE DOMAIN Rules = {}
      BY <2>1, FS_EmptySet
    <2>2. CASE DOMAIN Rules # {}
      BY <2>2, MaxOfRules
    <2>. QED
      BY <2>1, <2>2
  <1>2. T \in SUBSET Nat /\ T # {}
    BY RulesAre
  <1>3. IsFiniteSet(T)
    BY <1>1, FS_AddElement
  <1>4. SoundPolicy /\ MaxGuests > 0 => \A k \in T : k <= MaxGuests
    BY RulesAre DEF SoundPolicy
  <1>. HIDE DEF T
  <1>5. Max(T) \in T
    BY <1>2, <1>3, GreatestNat
  <1>6. MaxCapacity = Max(T)
    BY DEF MaxCapacity, T
  <1>. QED
    BY <1>2, <1>4, <1>5, <1>6

\* The two copies of the gate say the same.
LEMMA CopiesAgree ==
    ASSUME NEW rooms, NEW guests
    PROVE  RoomGate(rooms, guests) = StateRoomGate(rooms, guests)
  BY DEF RoomGate, StateRoomGate

\* What the gate lets through is priced, if there is a rate.
LEMMA LetThrough ==
    ASSUME SoundPolicy, NEW rooms \in Nat, NEW guests \in Nat,
           RoomGate(rooms, guests) = "price", guests > 0
    PROVE  CanPrice(rooms, guests) <=> HasRate(rooms)
  <1>1. guests <= MaxCapacity /\ HasRule(rooms)
        /\ (guests <= StandardCapacity(rooms) \/ guests <= Capacity(rooms))
    BY MaxCapacityIs DEF RoomGate
  <1>2. PICK i \in DOMAIN Rules : StandardCapacity(rooms) = Rules[i].max /\ Rules[i].rooms = rooms
    BY <1>1, StandardIs
  <1>3. guests <= Capacity(rooms)
    BY <1>1, <1>2, CapacityIs, RulesAre
  <1>. QED
    BY <1>1, <1>3, MaxCapacityIs, RulesAre DEF CanPrice

\* Whoever does as she is told is let through.
LEMMA ToldRight ==
    ASSUME SoundPolicy, NEW rooms \in Nat, NEW guests \in Nat,
           RoomGate(rooms, guests) = "suggest"
    PROVE  Min(RoomsFor(guests)) > rooms /\ RoomGate(Min(RoomsFor(guests)), guests) = "price"
  <1>. DEFINE more == Min(RoomsFor(guests))
  <1>1. /\ guests <= MaxCapacity /\ HasRule(rooms)
        /\ ~(guests <= StandardCapacity(rooms))
        /\ ~(rooms = WholeHouse /\ guests <= Capacity(rooms))
        /\ RoomsFor(guests) # {}
    BY MaxCapacityIs DEF RoomGate
  <1>2. more \in RoomsFor(guests)
    <2>1. RoomsFor(guests) \in SUBSET Nat
      BY RulesAre DEF RoomsFor
    <2>. QED
      BY <1>1, <2>1, LeastNat
  <1>3. PICK j \in DOMAIN Rules : /\ more = Rules[j].rooms /\ guests <= Rules[j].max
                                  /\ HasRule(more)
    BY <1>2 DEF RoomsFor
  <1>. HIDE DEF more
  <1>4. PICK s \in DOMAIN Rules : /\ StandardCapacity(rooms) = Rules[s].max
                                  /\ Rules[s].rooms = rooms /\ ~Rules[s].extra
    BY <1>1, StandardIs
  <1>5. PICK u \in DOMAIN Rules : /\ StandardCapacity(more) = Rules[u].max
                                  /\ Rules[u].rooms = more /\ ~Rules[u].extra
    BY <1>3, StandardIs
  <1>6. Capacity(more) \in Nat /\ Rules[j].max <= Capacity(more)
    BY <1>3, CapacityIs
  <1>7. guests <= Capacity(more)
    BY <1>3, <1>6, RulesAre
  <1>8. more > rooms
    <2>. SUFFICES ASSUME more <= rooms
                  PROVE  FALSE
      BY <1>3, RulesAre
    <2>1. CASE Rules[j].extra
      <3>1. more = WholeHouse /\ rooms <= WholeHouse /\ WholeHouse \in Nat
        BY <1>3, <1>4, <2>1 DEF SoundPolicy, WholeHouse
      <3>2. rooms = more
        BY <3>1
      <3>. QED
        BY <1>1, <1>7, <3>1, <3>2
    <2>2. CASE ~Rules[j].extra
      <3>1. Rules[j].max <= Rules[s].max
        BY <1>3, <1>4, <2>2 DEF SoundPolicy
      <3>. QED
        BY <1>1, <1>3, <1>4, <3>1, RulesAre
    <2>. QED
      BY <2>1, <2>2
  <1>9. RoomGate(more, guests) = "price"
    <2>1. CASE Rules[j].extra
      BY <1>1, <1>3, <1>7, <2>1 DEF RoomGate, SoundPolicy
    <2>2. CASE ~Rules[j].extra
      <3>1. Rules[j].max <= Rules[u].max
        BY <1>3, <1>5, <2>2, RulesAre DEF SoundPolicy
      <3>2. guests <= StandardCapacity(more)
        BY <1>3, <1>5, <3>1, RulesAre
      <3>. QED
        BY <1>1, <1>3, <3>2 DEF RoomGate
    <2>. QED
      BY <2>1, <2>2
  <1>. QED
    BY <1>8, <1>9 DEF more

LEMMA StayIsNat ==
    ASSUME QTypes, NEW t \in Thread, Complete(t)
    PROVE  Slot(t, "rooms") \in Nat /\ Guests(t) \in Nat /\ Guests(t) > 0
  <1>1. Knows(t, {"rooms"})
    BY DEF Complete
  <1>2. job[t] # NoJob
    BY <1>1 DEF Knows, Slots, NoJob
  <1>3. job[t] \in Job
    BY <1>2 DEF QTypes
  <1>4. Slots(t) \in [DOMAIN Slots(t) -> Nat]
    BY <1>3, QuotingAssumption DEF Slots
  <1>5. \A key : Slot(t, key) \in Nat
    BY <1>4 DEF Slot, Knows
  <1>6. Guests(t) # 0
    BY DEF Complete, MissingFields
  <1>. QED
    BY <1>5, <1>6 DEF Guests

-----------------------------------------------------------------------------
(* The sum of the nights.                                                  *)

\* Induction over the natural numbers, for a set of them.
LEMMA NatInduct ==
    ASSUME NEW N \in SUBSET Nat, 0 \in N, \A n \in N : n + 1 \in N
    PROVE  \A n \in Nat : n \in N
  <1>. SUFFICES ASSUME Nat \ N # {}
                PROVE  FALSE
    OBVIOUS
  <1>. DEFINE m == Min(Nat \ N)
  <1>1. m \in Nat \ N /\ \A n \in Nat \ N : m <= n
    BY LeastNat
  <1>. HIDE DEF m
  <1>2. m # 0 /\ m - 1 \in Nat
    BY <1>1
  <1>3. m - 1 \in N
    BY <1>1, <1>2
  <1>4. (m - 1) + 1 \in N
    BY <1>3
  <1>. QED
    BY <1>1, <1>4

\* The equation of MapThenFoldSet, for the sum of the rates of some nights.
First(s) == CHOOSE x \in s : TRUE
SumStep(rate, types, g, s) ==
    IF s = {} THEN 0 ELSE rate[types[First(s)]] + g[s \ {First(s)}]

LEMMA FirstIs ==
    ASSUME NEW s, s # {}
    PROVE  First(s) \in s
  BY DEF First

IsSum(rate, types, S, g) == g = [s \in SUBSET S |-> SumStep(rate, types, g, s)]

\* The subsets of a finite set by their size.
LEMMA SmallerBy ==
    ASSUME NEW S, IsFiniteSet(S), NEW s \in SUBSET S
    PROVE  /\ Cardinality(s) \in Nat /\ Cardinality(s) <= Cardinality(S)
           /\ Cardinality(s) = 0 <=> s = {}
           /\ s # {} => /\ First(s) \in s
                        /\ Cardinality(s \ {First(s)}) = Cardinality(s) - 1
                        /\ s \ {First(s)} \in SUBSET S
  <1>1. IsFiniteSet(s) /\ Cardinality(s) <= Cardinality(S)
    BY FS_Subset
  <1>. QED
    BY <1>1, FirstIs, FS_CardinalityType, FS_EmptySet, FS_RemoveElement

\* There is a function with this equation.
LEMMA SumExists ==
    ASSUME NEW rate, NEW types, NEW S, IsFiniteSet(S)
    PROVE  \E g : IsSum(rate, types, S, g)
  <1>0. \A s \in SUBSET S : Cardinality(s) \in Nat /\ (Cardinality(s) = 0 <=> s = {})
    BY SmallerBy
  <1>. DEFINE Sub(n) == {s \in SUBSET S : Cardinality(s) <= n}
              N == {n \in Nat : \E g : g = [s \in Sub(n) |-> SumStep(rate, types, g, s)]}
  <1>1. 0 \in N
    <2>. DEFINE g == [s \in Sub(0) |-> 0]
    <2>1. \A s \in Sub(0) : s = {}
      BY <1>0
    <2>2. g = [s \in Sub(0) |-> SumStep(rate, types, g, s)]
      BY <2>1 DEF SumStep
    <2>. QED
      BY <2>2
  <1>2. ASSUME NEW n \in N
        PROVE  n + 1 \in N
    <2>1. PICK g : g = [s \in Sub(n) |-> SumStep(rate, types, g, s)]
      OBVIOUS
    <2>. DEFINE h == [s \in Sub(n + 1) |-> SumStep(rate, types, g, s)]
    <2>2. ASSUME NEW s \in Sub(n + 1)
          PROVE  SumStep(rate, types, g, s) = SumStep(rate, types, h, s)
      <3>1. CASE s = {}
        BY <3>1 DEF SumStep
      <3>2. CASE s # {}
        <4>. DEFINE u == s \ {First(s)}
        <4>1. u \in Sub(n) /\ u \in Sub(n + 1)
          BY <3>2, SmallerBy
        <4>2. g[u] = h[u]
          BY <2>1, <4>1
        <4>. HIDE DEF h, Sub
        <4>. QED
          BY <3>2, <4>2 DEF SumStep
      <3>. QED
        BY <3>1, <3>2
    <2>3. h = [s \in Sub(n + 1) |-> SumStep(rate, types, h, s)]
      BY <2>2
    <2>. HIDE DEF h
    <2>4. \E f : f = [s \in Sub(n + 1) |-> SumStep(rate, types, f, s)]
      BY <2>3
    <2>. HIDE DEF Sub
    <2>. QED
      BY <2>4
  <1>3. Cardinality(S) \in N
    <2>1. N \in SUBSET Nat
      OBVIOUS
    <2>. HIDE DEF N
    <2>. QED
      BY <1>1, <1>2, <2>1, NatInduct, FS_CardinalityType
  <1>4. Sub(Cardinality(S)) = SUBSET S
    BY SmallerBy
  <1>. QED
    BY <1>3, <1>4 DEF IsSum

\* It is a sum of natural numbers, and at least what as many of the least of
\* them make.
LEMMA SumBounds ==
    ASSUME NEW rate, NEW types, NEW S, IsFiniteSet(S), NEW low \in Nat,
           \A x \in S : rate[types[x]] \in Nat /\ low <= rate[types[x]],
           NEW g, IsSum(rate, types, S, g)
    PROVE  g[S] \in Nat /\ low * Cardinality(S) <= g[S]
  <1>0. \A s \in SUBSET S : Cardinality(s) \in Nat /\ (Cardinality(s) = 0 <=> s = {})
    BY SmallerBy
  <1>. DEFINE Right(s) == g[s] \in Nat /\ low * Cardinality(s) <= g[s]
              N == {n \in Nat : \A s \in SUBSET S : Cardinality(s) = n => Right(s)}
  <1>1. 0 \in N
    <2>1. \A s \in SUBSET S : Cardinality(s) = 0 => g[s] = 0
      BY <1>0 DEF SumStep, IsSum
    <2>2. low * 0 = 0
      OBVIOUS
    <2>. QED
      BY <2>1, <2>2
  <1>2. ASSUME NEW n \in N
        PROVE  n + 1 \in N
    <2>1. ASSUME NEW s \in SUBSET S, Cardinality(s) = n + 1
          PROVE  Right(s)
      <3>. DEFINE x == First(s)
                  u == s \ {x}
      <3>1. s # {}
        BY <2>1, <1>0
      <3>2. x \in S /\ u \in SUBSET S /\ Cardinality(u) = n
        BY <2>1, <3>1, SmallerBy
      <3>3. g[s] = rate[types[x]] + g[u]
        BY <3>1 DEF SumStep, IsSum
      <3>4. Right(u)
        BY <3>2
      <3>. HIDE DEF x, u
      <3>5. low * (n + 1) = low * n + low
        OBVIOUS
      <3>6. rate[types[x]] \in Nat /\ low <= rate[types[x]]
        BY <3>2
      <3>. QED
        BY <2>1, <3>2, <3>3, <3>4, <3>5, <3>6
    <2>2. n + 1 \in Nat
      OBVIOUS
    <2>. HIDE DEF Right
    <2>. QED
      BY <2>1, <2>2
  <1>3. Cardinality(S) \in N
    <2>1. N \in SUBSET Nat
      OBVIOUS
    <2>. HIDE DEF N
    <2>. QED
      BY <1>1, <1>2, <2>1, NatInduct, FS_CardinalityType
  <1>. QED
    BY <1>3

\* The function that MapThenFoldSet takes.
TheSum(rate, types, S) == CHOOSE g : IsSum(rate, types, S, g)

LEMMA SumOfNights ==
    ASSUME NEW rate, NEW types, NEW S, IsFiniteSet(S), NEW low \in Nat,
           \A x \in S : rate[types[x]] \in Nat /\ low <= rate[types[x]]
    PROVE  /\ TheSum(rate, types, S)[S] \in Nat
           /\ low * Cardinality(S) <= TheSum(rate, types, S)[S]
  <1>. DEFINE g == TheSum(rate, types, S)
  <1>1. IsSum(rate, types, S, g)
    BY SumExists DEF TheSum
  <1>. HIDE DEF g
  <1>2. g[S] \in Nat /\ low * Cardinality(S) <= g[S]
    BY <1>1, SumBounds
  <1>. QED
    BY <1>2 DEF g

-----------------------------------------------------------------------------
(* The rest of the types.                                                  *)

\* The shared state.
WorldTypes ==
    /\ published \in Published
    /\ booked \subseteq Day
    /\ \A y \in Year : backoff[y] \in 0..Backoff

\* What a thread holds.  One that fetches has a year to fetch.
Dates == [national : SUBSET Day, spring : SUBSET Day]
Holds(t) ==
    /\ todo[t] \subseteq Year
    /\ missing[t] \subseteq Year
    /\ special[t] \in Dates
    /\ taken[t] \subseteq Day
    /\ at[t] = "fetch" => todo[t] # {}
ThreadTypes == \A t \in Thread : Holds(t)

\* What gets to the calendar can be priced.
PricedFit(t) ==
    /\ CanPrice(Slot(t, "rooms"), Guests(t))
    /\ KnowsItsDates(t)
    /\ StayNights(t) # {}
PricedFits == \A t \in Thread : at[t] = "calendar" => PricedFit(t)

AnswerTypes == \A t \in Thread : answer[t].kind \in Answers /\ answer[t].total \in Nat

LEMMA WorldStep ==
    ASSUME QTypes, WorldTypes, Next
    PROVE  WorldTypes'
  <1>. Backoff \in Nat /\ Bookable \subseteq Day
    BY QuotingAssumption
  <1>1. ASSUME UNCHANGED <<published, booked, backoff>>
        PROVE  WorldTypes'
    BY <1>1 DEF WorldTypes
  <1>2. ASSUME UNCHANGED <<published, booked>>, backoff' = [y \in Year |-> 0]
        PROVE  WorldTypes'
    BY <1>2 DEF WorldTypes
  <1>Ends. ASSUME NEW t \in Thread, Ends(t)
         PROVE  WorldTypes'
    BY <1>Ends, <1>1, EndsShape DEF world
  <1>GoesOn. ASSUME NEW t \in Thread, GoesOn(t)
         PROVE  WorldTypes'
    BY <1>GoesOn, <1>1, GoesOnShape DEF world
  <1>Begin. ASSUME NEW t \in Thread, Begin(t)
         PROVE  WorldTypes'
    BY <1>Begin, <1>1, BeginShape DEF world
  <1>Leave. ASSUME NEW t \in Thread, Leave(t)
         PROVE  WorldTypes'
    BY <1>Leave, <1>1, LeaveShape DEF world
  <1>RoomsFit. ASSUME NEW t \in Thread, RoomsFit(t)
         PROVE  WorldTypes'
    BY <1>RoomsFit, <1>1, RoomsFitShape DEF world
  <1>Look. ASSUME NEW t \in Thread, YearIsCached(t) \/ YearIsLeftAlone(t)
         PROVE  WorldTypes'
    BY <1>Look, <1>1, LookShape DEF world
  <1>Fetched. ASSUME NEW t \in Thread, FetchSucceeds(t)
         PROVE  WorldTypes'
    BY <1>Fetched, <1>2, FetchedShape DEF world
  <1>Price. ASSUME NEW t \in Thread, PriceMade(t)
         PROVE  WorldTypes'
    BY <1>Price, <1>1, PriceShape DEF world
  <1>Quote. ASSUME NEW t \in Thread, QuoteIsFree(t) \/ QuoteUnverified(t)
         PROVE  WorldTypes'
    BY <1>Quote, <1>1, QuoteShape DEF world
  <1>Failed. ASSUME NEW t \in Thread, FetchFails(t)
         PROVE  WorldTypes'
    <2>1. /\ UNCHANGED <<published, booked>>
          /\ backoff' = [backoff EXCEPT ![FirstYear(t)] = Backoff]
      BY <1>Failed, FailedShape
    <2>2. \A y \in Year : backoff'[y] \in 0..Backoff
      BY <2>1 DEF WorldTypes, QTypes
    <2>. QED
      BY <2>1, <2>2 DEF WorldTypes
  <1>Book. CASE Book
    BY <1>Book DEF Book, WorldTypes
  <1>Tick. CASE Tick
    <2>1. /\ UNCHANGED <<published, booked>>
          /\ backoff' = [y \in Year |-> IF backoff[y] = 0 THEN 0 ELSE backoff[y] - 1]
      BY <1>Tick DEF Tick
    <2>2. \A y \in Year : backoff'[y] \in 0..Backoff
      BY <2>1 DEF WorldTypes
    <2>. QED
      BY <2>1, <2>2 DEF WorldTypes
  <1>Restart. CASE Restart
    BY <1>Restart, <1>2, RestartShape
  <1>. QED
    BY StepIs, <1>Ends, <1>GoesOn, <1>Begin, <1>Leave, <1>RoomsFit, <1>Look, <1>Fetched,
       <1>Failed, <1>Price, <1>Quote, <1>Book, <1>Tick, <1>Restart DEF Next

\* A year is taken from those that are left.
LEMMA FirstYearIs ==
    ASSUME NEW t \in Thread, todo[t] \subseteq Year, todo[t] # {}
    PROVE  FirstYear(t) \in todo[t]
  <1>1. todo[t] \in SUBSET Nat
    <2>1. Year \subseteq Nat
      BY CalendarAssumption DEF Year
    <2>. QED
      BY <2>1
  <1>. DEFINE S == todo[t]
  <1>2. S \in SUBSET Nat /\ S # {}
    BY <1>1
  <1>. HIDE DEF S
  <1>3. Min(S) \in S
    BY <1>2, LeastNat
  <1>. QED
    BY <1>3 DEF S, FirstYear

LEMMA NoDatesAre == NoDates \in Dates
  BY DEF NoDates, Dates

\* The dates that a price is made from are days.
LEMMA DatesAre ==
    ASSUME QTypes, NEW d, d = WithOwn(SpecialDates([e \in CachedDays |-> published[e]]))
    PROVE  d \in Dates
  <1>. DEFINE c == [e \in CachedDays |-> published[e]]
  <1>1. DOMAIN c \subseteq Day
    BY CachedAre
  <1>2. d = WithOwn(SpecialDates(c))
    OBVIOUS
  <1>. HIDE DEF c
  <1>3. SpecialDates(c).national \subseteq Day /\ SpecialDates(c).spring \subseteq Day
    BY <1>1 DEF SpecialDates, DaysOff
  <1>4. OwnSpecial.national \subseteq Day /\ OwnSpecial.spring \subseteq Day
    BY CalendarAssumption
  <1>. QED
    BY <1>2, <1>3, <1>4 DEF WithOwn, Dates

LEMMA ThreadsStep ==
    ASSUME QTypes, StaysInCalendar, WorldTypes, ThreadTypes, Next
    PROVE  ThreadTypes'
  <1>1. ASSUME NEW t \in Thread, Others(t), Holds(t)'
        PROVE  ThreadTypes'
    BY <1>1 DEF ThreadTypes, Holds, Others
  <1>2. \A t \in Thread : Holds(t)
    BY DEF ThreadTypes
  <1>Ends. ASSUME NEW t \in Thread, Ends(t)
         PROVE  ThreadTypes'
    <2>1. /\ Others(t) /\ at'[t] = "done"
          /\ UNCHANGED <<todo, missing, special, taken>>
      BY <1>Ends, EndsShape
    <2>. QED
      BY <1>1, <1>2, <2>1 DEF Holds
  <1>GoesOn. ASSUME NEW t \in Thread, GoesOn(t)
         PROVE  ThreadTypes'
    <2>1. /\ Others(t) /\ UNCHANGED <<todo, missing, special, taken>>
      BY <1>GoesOn, GoesOnShape
    <2>2. CASE FetchYear(t)
      BY <1>1, <1>2, <2>1, <2>2 DEF Holds, FetchYear
    <2>3. CASE ~FetchYear(t)
      <3>1. Goto(t, "gate") \/ Goto(t, "price")
        BY <1>GoesOn, <2>3 DEF GoesOn, AheadIsFree, AheadUnknown, YearsAtHand
      <3>2. at'[t] # "fetch"
        BY <3>1, GotoShape DEF Labels
      <3>. QED
        BY <1>1, <1>2, <2>1, <3>2 DEF Holds
    <2>. QED
      BY <2>2, <2>3
  <1>Begin. ASSUME NEW t \in Thread, Begin(t)
         PROVE  ThreadTypes'
    <2>1. /\ Others(t) /\ UNCHANGED <<todo, missing, special>>
          /\ at'[t] # "fetch" /\ taken'[t] \subseteq booked
      BY <1>Begin, BeginShape
    <2>. QED
      BY <1>1, <1>2, <2>1 DEF Holds, WorldTypes
  <1>Leave. ASSUME NEW t \in Thread, Leave(t)
         PROVE  ThreadTypes'
    <2>1. /\ Others(t) /\ at'[t] = "idle" /\ taken'[t] = {} /\ todo' = todo
      BY <1>Leave, LeaveShape
    <2>2. missing'[t] = {} /\ special'[t] = NoDates
      BY <1>Leave DEF Leave, QTypes
    <2>. QED
      BY <1>1, <1>2, <2>1, <2>2, NoDatesAre DEF Holds
  <1>RoomsFit. ASSUME NEW t \in Thread, RoomsFit(t)
         PROVE  ThreadTypes'
    <2>1. /\ Others(t) /\ at'[t] = "years" /\ todo'[t] = Touched(t)
          /\ UNCHANGED <<missing, special, taken>> /\ Complete(t)
      BY <1>RoomsFit, RoomsFitShape
    <2>2. Touched(t) \subseteq Year
      <3>1. {"checkin", "checkout"} \subseteq DOMAIN Slots(t)
        BY <2>1 DEF Complete, MissingFields
      <3>2. job[t] # NoJob
        BY <3>1 DEF Slots, NoJob
      <3>3. job[t] \in Job
        BY <3>2 DEF QTypes
      <3>. QED
        BY <3>1, <3>3 DEF StaysInCalendar, Touched, Slots
    <2>. QED
      BY <1>1, <1>2, <2>1, <2>2 DEF Holds
  <1>Look. ASSUME NEW t \in Thread, YearIsCached(t) \/ YearIsLeftAlone(t)
         PROVE  ThreadTypes'
    <2>1. /\ Others(t) /\ at'[t] = "years" /\ todo'[t] \subseteq todo[t]
          /\ UNCHANGED <<special, taken>>
      BY <1>Look, LookShape
    <2>2. todo[t] # {} /\ missing'[t] \subseteq missing[t] \cup {FirstYear(t)}
      BY <1>Look DEF YearIsCached, YearIsLeftAlone, QTypes
    <2>. QED
      BY <1>1, <1>2, <2>1, <2>2, FirstYearIs DEF Holds
  <1>Fetched. ASSUME NEW t \in Thread, FetchSucceeds(t)
         PROVE  ThreadTypes'
    <2>1. /\ Others(t) /\ at'[t] = "years" /\ todo'[t] \subseteq todo[t]
          /\ UNCHANGED <<missing, special, taken>>
      BY <1>Fetched, FetchedShape
    <2>. QED
      BY <1>1, <1>2, <2>1 DEF Holds
  <1>Failed. ASSUME NEW t \in Thread, FetchFails(t)
         PROVE  ThreadTypes'
    <2>1. /\ Others(t) /\ at[t] = "fetch" /\ at'[t] = "years" /\ todo'[t] \subseteq todo[t]
          /\ missing'[t] = missing[t] \cup {FirstYear(t)}
          /\ UNCHANGED <<special, taken>>
      BY <1>Failed, FailedShape
    <2>. QED
      BY <1>1, <1>2, <2>1, FirstYearIs DEF Holds
  <1>Price. ASSUME NEW t \in Thread, PriceMade(t)
         PROVE  ThreadTypes'
    <2>1. /\ Others(t) /\ at'[t] = "calendar" /\ UNCHANGED <<todo, missing, taken>>
          /\ special'[t] = WithOwn(SpecialDates([d \in CachedDays |-> published[d]]))
      BY <1>Price, PriceShape
    <2>2. special'[t] \in Dates
      BY <2>1, DatesAre
    <2>. QED
      BY <1>1, <1>2, <2>1, <2>2 DEF Holds
  <1>Quote. ASSUME NEW t \in Thread, QuoteIsFree(t) \/ QuoteUnverified(t)
         PROVE  ThreadTypes'
    <2>1. /\ Others(t) /\ at'[t] = "done"
          /\ UNCHANGED <<todo, missing, special, taken>>
      BY <1>Quote, QuoteShape
    <2>. QED
      BY <1>1, <1>2, <2>1 DEF Holds
  <1>Book. CASE Book
    BY <1>Book DEF Book, own, ThreadTypes, Holds
  <1>Tick. CASE Tick
    BY <1>Tick DEF Tick, own, ThreadTypes, Holds
  <1>Restart. CASE Restart
    <2>1. \A t \in Thread : /\ at'[t] # "fetch" /\ todo'[t] \subseteq Warm
                            /\ missing'[t] = {} /\ special'[t] = NoDates /\ taken'[t] = {}
      BY <1>Restart DEF Restart
    <2>. QED
      BY <2>1, NoDatesAre, QuotingAssumption DEF ThreadTypes, Holds
  <1>. QED
    BY StepIs, <1>Ends, <1>GoesOn, <1>Begin, <1>Leave, <1>RoomsFit, <1>Look, <1>Fetched,
       <1>Failed, <1>Price, <1>Quote, <1>Book, <1>Tick, <1>Restart DEF Next

\* What each thread holds is a function of the threads.
AreFunctions ==
    /\ todo = [t \in Thread |-> todo[t]]
    /\ missing = [t \in Thread |-> missing[t]]
    /\ special = [t \in Thread |-> special[t]]
    /\ taken = [t \in Thread |-> taken[t]]

LEMMA ChangedAt ==
    ASSUME NEW f, f = [t \in Thread |-> f[t]], NEW t \in Thread, NEW e,
           NEW g, g = [f EXCEPT ![t] = e]
    PROVE  g = [u \in Thread |-> g[u]]
  OBVIOUS

LEMMA FunctionsStep ==
    ASSUME QTypes, AreFunctions, Next
    PROVE  AreFunctions'
  <1>1. ASSUME UNCHANGED <<todo, missing, special, taken>>
        PROVE  AreFunctions'
    BY <1>1 DEF AreFunctions
  <1>Ends. ASSUME NEW t \in Thread, Ends(t)
         PROVE  AreFunctions'
    BY <1>Ends, <1>1, EndsShape
  <1>GoesOn. ASSUME NEW t \in Thread, GoesOn(t)
         PROVE  AreFunctions'
    BY <1>GoesOn, <1>1, GoesOnShape
  <1>Begin. ASSUME NEW t \in Thread, Begin(t)
         PROVE  AreFunctions'
    <2>1. /\ UNCHANGED <<todo, missing, special>>
          /\ taken' = [taken EXCEPT ![t] = booked \cap StayNights(t)']
      BY <1>Begin DEF Begin
    <2>. QED
      BY <2>1, ChangedAt DEF AreFunctions
  <1>Leave. ASSUME NEW t \in Thread, Leave(t)
         PROVE  AreFunctions'
    <2>1. /\ UNCHANGED todo
          /\ missing' = [missing EXCEPT ![t] = {}]
          /\ special' = [special EXCEPT ![t] = NoDates]
          /\ taken' = [taken EXCEPT ![t] = {}]
      BY <1>Leave DEF Leave
    <2>. QED
      BY <2>1, ChangedAt DEF AreFunctions
  <1>Years. ASSUME NEW t \in Thread,
                   \/ RoomsFit(t) \/ YearIsCached(t) \/ YearIsLeftAlone(t)
                   \/ FetchSucceeds(t) \/ FetchFails(t)
            PROVE  AreFunctions'
    <2>1. /\ UNCHANGED <<special, taken>>
          /\ \E e : todo' = [todo EXCEPT ![t] = e]
          /\ missing' = missing \/ \E e : missing' = [missing EXCEPT ![t] = e]
      BY <1>Years DEF RoomsFit, YearIsCached, YearIsLeftAlone, FetchSucceeds, FetchFails, FetchIsLost
    <2>. QED
      BY <2>1, ChangedAt DEF AreFunctions
  <1>Price. ASSUME NEW t \in Thread, PriceMade(t)
         PROVE  AreFunctions'
    <2>1. /\ UNCHANGED <<todo, missing, taken>>
          /\ \E e : special' = [special EXCEPT ![t] = e]
      BY <1>Price DEF PriceMade
    <2>. QED
      BY <2>1, ChangedAt DEF AreFunctions
  <1>Quote. ASSUME NEW t \in Thread, QuoteIsFree(t) \/ QuoteUnverified(t)
         PROVE  AreFunctions'
    BY <1>Quote, <1>1, QuoteShape
  <1>Book. CASE Book
    BY <1>Book, <1>1 DEF Book, own
  <1>Tick. CASE Tick
    BY <1>Tick, <1>1 DEF Tick, own
  <1>Restart. CASE Restart
    BY <1>Restart DEF Restart, AreFunctions
  <1>. QED
    BY StepIs, <1>Ends, <1>GoesOn, <1>Begin, <1>Leave, <1>Years, <1>Price, <1>Quote,
       <1>Book, <1>Tick, <1>Restart DEF Next

\* A stay at the calendar stays what it is.
LEMMA FitStays ==
    ASSUME NEW t \in Thread, job'[t] = job[t], PricedFit(t)
    PROVE  PricedFit(t)'
  <1>1. /\ Slot(t, "rooms")' = Slot(t, "rooms") /\ Guests(t)' = Guests(t)
        /\ StayNights(t)' = StayNights(t) /\ KnowsItsDates(t)' = KnowsItsDates(t)
    BY DEF Slot, Guests, StayNights, KnowsItsDates, Knows, Slots
  <1>. QED
    BY <1>1 DEF PricedFit

LEMMA FitsStep ==
    ASSUME QTypes, YearsAreSeenTo, PricedFits, Next
    PROVE  PricedFits'
  <1>1. ASSUME NEW t \in Thread, Others(t), at'[t] = "calendar" => PricedFit(t)'
        PROVE  PricedFits'
    <2>1. ASSUME NEW u \in Thread, at'[u] = "calendar"
          PROVE  PricedFit(u)'
      <3>1. CASE u = t
        BY <1>1, <2>1, <3>1
      <3>2. CASE u # t
        BY <1>1, <2>1, <3>2, FitStays DEF Others, PricedFits
      <3>. QED
        BY <3>1, <3>2
    <2>. QED
      BY <2>1 DEF PricedFits
  <1>2. ASSUME UNCHANGED <<at, job>>
        PROVE  PricedFits'
    BY <1>2, FitStays DEF PricedFits
  <1>Ends. ASSUME NEW t \in Thread, Ends(t)
         PROVE  PricedFits'
    BY <1>Ends, <1>1, EndsShape DEF world
  <1>GoesOn. ASSUME NEW t \in Thread, GoesOn(t)
         PROVE  PricedFits'
    BY <1>GoesOn, <1>1, GoesOnShape DEF world
  <1>Begin. ASSUME NEW t \in Thread, Begin(t)
         PROVE  PricedFits'
    BY <1>Begin, <1>1, BeginShape DEF world
  <1>Leave. ASSUME NEW t \in Thread, Leave(t)
         PROVE  PricedFits'
    BY <1>Leave, <1>1, LeaveShape DEF world
  <1>RoomsFit. ASSUME NEW t \in Thread, RoomsFit(t)
         PROVE  PricedFits'
    BY <1>RoomsFit, <1>1, RoomsFitShape DEF world
  <1>Look. ASSUME NEW t \in Thread, YearIsCached(t) \/ YearIsLeftAlone(t)
         PROVE  PricedFits'
    BY <1>Look, <1>1, LookShape DEF world
  <1>Fetched. ASSUME NEW t \in Thread, FetchSucceeds(t)
         PROVE  PricedFits'
    BY <1>Fetched, <1>1, FetchedShape DEF world
  <1>Failed. ASSUME NEW t \in Thread, FetchFails(t)
         PROVE  PricedFits'
    BY <1>Failed, <1>1, FailedShape DEF world
  <1>Quote. ASSUME NEW t \in Thread, QuoteIsFree(t) \/ QuoteUnverified(t)
         PROVE  PricedFits'
    BY <1>Quote, <1>1, QuoteShape DEF world
  <1>Price. ASSUME NEW t \in Thread, PriceMade(t)
         PROVE  PricedFits'
    <2>1. /\ Others(t) /\ job' = job /\ at[t] = "price"
      BY <1>Price, PriceShape
    <2>2. PricedFit(t)
      BY <1>Price, <2>1 DEF PriceMade, PricedFit, YearsAreSeenTo
    <2>. QED
      BY <1>1, <2>1, <2>2, FitStays
  <1>Book. CASE Book
    BY <1>Book, <1>2 DEF Book, own
  <1>Tick. CASE Tick
    BY <1>Tick, <1>2, TickShape DEF own
  <1>Restart. CASE Restart
    BY <1>Restart, RestartShape DEF PricedFits
  <1>. QED
    BY StepIs, <1>Ends, <1>GoesOn, <1>Begin, <1>Leave, <1>RoomsFit, <1>Look, <1>Fetched,
       <1>Failed, <1>Price, <1>Quote, <1>Book, <1>Tick, <1>Restart DEF Next

\* The surcharges and the discount.
LEMMA ExtrasAre ==
    ASSUME NEW rooms \in Nat, NEW guests \in Nat, CanPrice(rooms, guests)
    PROVE  ExtraPersonFee(rooms, guests) \in Nat
  <1>1. HasRule(rooms)
    BY DEF CanPrice
  <1>2. PICK i \in DOMAIN Rules : StandardCapacity(rooms) = Rules[i].max /\ Rules[i].rooms = rooms
    BY <1>1, StandardIs
  <1>3. StandardCapacity(rooms) \in Nat /\ Capacity(rooms) \in Nat
    BY <1>2, RulesAre, CapacityIs
  <1>4. PersonFee \in Nat
    BY RoomsAssumption
  <1>5. \A n, m \in Nat : n * m \in Nat
    OBVIOUS
  <1>6. CASE guests \in (StandardCapacity(rooms) + 1)..Capacity(rooms)
    <2>1. guests - StandardCapacity(rooms) \in Nat
      BY <1>3, <1>6
    <2>. QED
      BY <1>4, <1>5, <2>1 DEF ExtraPersonFee
  <1>7. CASE guests \notin (StandardCapacity(rooms) + 1)..Capacity(rooms)
    BY <1>7 DEF ExtraPersonFee
  <1>. QED
    BY <1>6, <1>7

\* No price is below nothing.
LEMMA TotalIs ==
    ASSUME SoundRates, NEW types, NEW rooms \in Nat, NEW guests \in Nat, NEW pets \in Nat,
           NEW bbq \in Nat, CanPrice(rooms, guests), IsFiniteSet(DOMAIN types), DOMAIN types # {},
           \A night \in DOMAIN types : types[night] \in PriceTypes
    PROVE  Total(types, rooms, guests, pets, bbq) \in Nat
  <1>. DEFINE S == DOMAIN types
              rate == Rate[StandardCapacity(rooms)]
              NightRate(night) == Rate[StandardCapacity(rooms)][types[night]]
              sum == MapThenSumSet(NightRate, S)
  <1>1. /\ PetFee \in Nat /\ LongStayOff \in Nat /\ (\A n, m \in Nat : n * m \in Nat)
    BY RoomsAssumption
  <1>2. StandardCapacity(rooms) \in DOMAIN Rate
    BY DEF CanPrice, HasRate
  <1>3. \A x \in S : rate[types[x]] \in Nat /\ LongStayOff <= rate[types[x]]
    BY <1>2 DEF SoundRates
  <1>4. sum \in Nat /\ LongStayOff * Cardinality(S) <= sum
    <2>1. sum = TheSum(rate, types, S)[S]
      BY DEF MapThenSumSet, MapThenFoldSet, TheSum, IsSum, SumStep, First
    <2>. HIDE DEF sum, S, rate
    <2>. QED
      BY <1>1, <1>3, <2>1, SumOfNights DEF S
  <1>5. Cardinality(S) \in Nat /\ Cardinality(S) # 0
    BY FS_CardinalityType, FS_EmptySet
  <1>6. ExtraPersonFee(rooms, guests) \in Nat
    BY ExtrasAre
  <1>. DEFINE fee == IF bbq > 0 THEN BbqFee ELSE 0
  <1>7. PetFee * pets \in Nat /\ fee \in Nat
    BY <1>1, RoomsAssumption
  <1>8. LongStayDiscount(types) \in Nat /\ LongStayDiscount(types) <= sum
    <2>. DEFINE n == Cardinality(S)
    <2>. HIDE DEF n, sum
    <2>0. n \in Nat /\ n - 1 \in Nat /\ sum \in Nat
      BY <1>4, <1>5 DEF n
    <2>1. LongStayOff * (n - 1) \in Nat
      BY <1>1, <2>0
    <2>2. LongStayOff * n = LongStayOff * (n - 1) + LongStayOff
      BY <1>1, <2>0
    <2>3. LongStayOff * (n - 1) <= sum
      BY <1>1, <1>4, <2>0, <2>1, <2>2 DEF n
    <2>4. LongStayDiscount(types) \in {0, LongStayOff * (n - 1)}
      BY DEF LongStayDiscount, n
    <2>. QED
      BY <2>0, <2>1, <2>3, <2>4
  <1>9. Total(types, rooms, guests, pets, bbq)
           = sum + ExtraPersonFee(rooms, guests) + PetFee * pets + fee - LongStayDiscount(types)
    BY DEF Total
  <1>. HIDE DEF sum, fee
  <1>. QED
    BY <1>4, <1>6, <1>7, <1>8, <1>9

LEMMA QuoteTypes ==
    ASSUME QTypes, SoundRates, PricedFits, NEW t \in Thread, QuoteIsFree(t) \/ QuoteUnverified(t)
    PROVE  answer'[t].kind \in Answers /\ answer'[t].total \in Nat
  <1>. DEFINE types == [night \in StayNights(t) |-> PriceType(special[t], night)]
              total == Total(types, Slot(t, "rooms"), Guests(t), Slot(t, "pets"), Slot(t, "bbq"))
  <1>1. PICK kind \in Answers : Quote(t, kind)
    BY DEF QuoteIsFree, QuoteUnverified, Answers
  <1>2. answer' = [answer EXCEPT ![t] = [kind |-> kind, types |-> types, total |-> total]]
    BY <1>1 DEF Quote
  <1>3. PricedFit(t)
    BY DEF PricedFits, QuoteIsFree, QuoteUnverified
  <1>4. \A key : Slot(t, key) \in Nat
    <2>1. job[t] \in Job
      BY <1>3, DatesOf DEF PricedFit
    <2>2. Slots(t) \in [DOMAIN Slots(t) -> Nat]
      BY <2>1, QuotingAssumption DEF Slots
    <2>. QED
      BY <2>2 DEF Slot, Knows
  <1>5. Guests(t) \in Nat
    BY <1>4 DEF Guests
  <1>6. IsFiniteSet(StayNights(t)) /\ StayNights(t) # {}
    <2>1. PICK a \in Int, b \in Int : StayNights(t) = a..b
      <3>1. Slots(t)["checkin"] \in Int /\ Slots(t)["checkout"] - 1 \in Int
            /\ StayNights(t) = Slots(t)["checkin"]..(Slots(t)["checkout"] - 1)
        BY <1>3, DatesOf DEF PricedFit
      <3>. QED
        BY <3>1
    <2>. QED
      BY <1>3, <2>1, FS_Interval DEF PricedFit
  <1>7. \A night : PriceType(special[t], night) \in PriceTypes
    BY DEF PriceType, PriceTypes
  <1>8. /\ DOMAIN types = StayNights(t)
        /\ \A night \in DOMAIN types : types[night] \in PriceTypes
    BY <1>7
  <1>9. CanPrice(Slot(t, "rooms"), Guests(t))
    BY <1>3 DEF PricedFit
  <1>. HIDE DEF types
  <1>10. total \in Nat
    <2>. DEFINE rooms == Slot(t, "rooms")
                guests == Guests(t)
                pets == Slot(t, "pets")
                bbq == Slot(t, "bbq")
    <2>1. /\ rooms \in Nat /\ guests \in Nat /\ pets \in Nat /\ bbq \in Nat
          /\ CanPrice(rooms, guests)
      BY <1>4, <1>5, <1>9
    <2>2. IsFiniteSet(DOMAIN types) /\ DOMAIN types # {}
      BY <1>6, <1>8
    <2>. HIDE DEF rooms, guests, pets, bbq
    <2>3. Total(types, rooms, guests, pets, bbq) \in Nat
      BY <1>8, <2>1, <2>2, TotalIs
    <2>. QED
      BY <2>3 DEF rooms, guests, pets, bbq
  <1>. HIDE DEF total
  <1>. QED
    BY <1>1, <1>2, <1>10 DEF QTypes

LEMMA FinishTypes ==
    ASSUME QTypes, NEW t \in Thread, NEW kind \in Answers, Finish(t, kind)
    PROVE  answer'[t].kind \in Answers /\ answer'[t].total \in Nat
  <1>. DEFINE a == [NoAnswer EXCEPT !.kind = kind]
  <1>1. a.kind = kind /\ a.total = 0
    BY DEF NoAnswer
  <1>2. answer' = [answer EXCEPT ![t] = a]
    BY DEF Finish
  <1>. HIDE DEF a
  <1>. QED
    BY <1>1, <1>2 DEF QTypes

LEMMA AnswerTypesStep ==
    ASSUME QTypes, SoundRates, PricedFits, AnswerTypes, Next
    PROVE  AnswerTypes'
  <1>0. NoAnswer.kind \in Answers /\ NoAnswer.total \in Nat
    BY DEF NoAnswer, Answers
  <1>1. ASSUME NEW t \in Thread, Others(t), answer'[t].kind \in Answers, answer'[t].total \in Nat
        PROVE  AnswerTypes'
    BY <1>1 DEF AnswerTypes, Others
  <1>2. ASSUME UNCHANGED answer
        PROVE  AnswerTypes'
    BY <1>2 DEF AnswerTypes
  <1>Ends. ASSUME NEW t \in Thread, Ends(t)
         PROVE  AnswerTypes'
    <2>1. PICK kind \in Answers : Finish(t, kind)
      <3>1. GateOf(t) \in Answers \cup {"price"}
        BY DEF GateOf, Gate, RoomGate, StateRoomGate, Answers
      <3>. QED
        BY <1>Ends, <3>1 DEF Ends, AheadIsFull, AskForMore, RoomsDoNotFit, YearsMissing,
           YearsAtHand, PriceRaises, PriceRefused, CalendarIsFull, Answers
    <2>. QED
      BY <1>Ends, <1>1, <2>1, FinishTypes, EndsShape
  <1>GoesOn. ASSUME NEW t \in Thread, GoesOn(t)
         PROVE  AnswerTypes'
    BY <1>GoesOn, <1>2, GoesOnShape DEF world
  <1>Begin. ASSUME NEW t \in Thread, Begin(t)
         PROVE  AnswerTypes'
    BY <1>Begin, <1>2, BeginShape DEF world
  <1>RoomsFit. ASSUME NEW t \in Thread, RoomsFit(t)
         PROVE  AnswerTypes'
    BY <1>RoomsFit, <1>2, RoomsFitShape DEF world
  <1>Look. ASSUME NEW t \in Thread, YearIsCached(t) \/ YearIsLeftAlone(t)
         PROVE  AnswerTypes'
    BY <1>Look, <1>2, LookShape DEF world
  <1>Fetched. ASSUME NEW t \in Thread, FetchSucceeds(t)
         PROVE  AnswerTypes'
    BY <1>Fetched, <1>2, FetchedShape DEF world
  <1>Failed. ASSUME NEW t \in Thread, FetchFails(t)
         PROVE  AnswerTypes'
    BY <1>Failed, <1>2, FailedShape DEF world
  <1>Price. ASSUME NEW t \in Thread, PriceMade(t)
         PROVE  AnswerTypes'
    BY <1>Price, <1>2, PriceShape DEF world
  <1>Leave. ASSUME NEW t \in Thread, Leave(t)
         PROVE  AnswerTypes'
    <2>1. Others(t) /\ answer'[t] = NoAnswer
      BY <1>Leave, LeaveShape DEF Leave, QTypes
    <2>. QED
      BY <1>0, <1>1, <2>1
  <1>Quote. ASSUME NEW t \in Thread, QuoteIsFree(t) \/ QuoteUnverified(t)
         PROVE  AnswerTypes'
    BY <1>Quote, <1>1, QuoteShape, QuoteTypes
  <1>Book. CASE Book
    BY <1>Book, <1>2 DEF Book, own
  <1>Tick. CASE Tick
    BY <1>Tick, <1>2, TickShape DEF own
  <1>Restart. CASE Restart
    <2>1. \A t \in Thread : answer'[t] = NoAnswer
      BY <1>Restart DEF Restart
    <2>. QED
      BY <1>0, <2>1 DEF AnswerTypes
  <1>. QED
    BY StepIs, <1>Ends, <1>GoesOn, <1>Begin, <1>Leave, <1>RoomsFit, <1>Look, <1>Fetched,
       <1>Failed, <1>Price, <1>Quote, <1>Book, <1>Tick, <1>Restart DEF Next

-----------------------------------------------------------------------------
(* The theorems.                                                           *)

LEMMA InitQInv == Init => QInv
  <1>. SUFFICES ASSUME Init
                PROVE  QInv
    OBVIOUS
  <1>1. /\ \A t \in Thread : /\ at[t] \in {"years", "idle"} /\ job[t] = NoJob
                             /\ answer[t] = NoAnswer /\ taken[t] = {}
        /\ \A y \in Year : cache[y] = <<>> /\ backoff[y] = 0 /\ failures[y] = 0
    BY DEF Init
  <1>2. NoAnswer.kind = "none"
    BY DEF NoAnswer
  <1>3. QTypes
    BY QuotingAssumption DEF Init, QTypes, Labels
  <1>4. AnswersAtTheEnd /\ TakenStaysBooked /\ YearsAreSeenTo /\ QuoteHonoursBookings
    BY <1>1, <1>2 DEF AnswersAtTheEnd, TakenStaysBooked, YearsAreSeenTo, QuoteHonoursBookings
  <1>5. FailuresAreLeftAlone
    <2>1. \A y : Fetchers(y) = {}
      BY <1>1 DEF Fetchers
    <2>2. Cardinality({}) = 0 /\ Cardinality(Thread) \in Nat
      BY QuotingAssumption, FS_EmptySet, FS_CardinalityType
    <2>3. \A y \in Year : failures[y] = 0 /\ Cardinality(Fetchers(y)) = 0
      BY <1>1, <2>1, <2>2
    <2>. QED
      BY <2>2, <2>3 DEF FailuresAreLeftAlone
  <1>. QED
    BY <1>3, <1>4, <1>5 DEF QInv

LEMMA NextQInv == QInv /\ [Next]_vars => QInv'
  <1>. SUFFICES ASSUME QInv, [Next]_vars
                PROVE  QInv'
    OBVIOUS
  <1>1. CASE Next
    BY <1>1, TypesStep, AnswersStep, TakenStep, FailuresStep, YearsStep, HonoursStep DEF QInv
  <1>2. CASE UNCHANGED vars
    BY <1>2 DEF vars, own, QInv, QTypes, AnswersAtTheEnd, TakenStaysBooked, FailuresAreLeftAlone,
       Fetchers, FirstYear, YearsAreSeenTo, KnowsItsDates, Touched, Slots, Knows,
       QuoteHonoursBookings, StayNights
  <1>. QED
    BY <1>1, <1>2

\* The inductive invariant holds of every reachable state, whatever customers
\* ask, the owner marks and the calendar server sends.
THEOREM QuotesInvariance == Spec => []QInv
  BY InitQInv, NextQInv, PTL DEF Spec

\* No quote without a word of doubt for a night that was marked as taken when
\* the job began (the last look at the calendar is not before the first).
THEOREM QuotesHonourBookings == Spec => []QuoteHonoursBookings
  <1>1. QInv => QuoteHonoursBookings
    BY DEF QInv
  <1>. QED
    BY QuotesInvariance, <1>1, PTL

\* An outage costs a thread at most one failed fetch of a year until the year
\* may be tried again, with any number of threads and any back-off.
THEOREM TimeoutsAreFew == Spec => []FewTimeouts
  <1>1. QInv => FewTimeouts
    <2>. SUFFICES ASSUME QInv, NEW y \in Year
                  PROVE  failures[y] <= Cardinality(Thread)
      BY DEF FewTimeouts
    <2>1. Fetchers(y) \subseteq Thread /\ IsFiniteSet(Thread)
      BY QuotingAssumption DEF Fetchers
    <2>2. Cardinality(Fetchers(y)) \in Nat /\ Cardinality(Thread) \in Nat /\ failures[y] \in Nat
      BY <2>1, FS_Subset, FS_CardinalityType DEF QInv, QTypes
    <2>3. failures[y] + Cardinality(Fetchers(y)) <= Cardinality(Thread)
      BY DEF QInv, FailuresAreLeftAlone
    <2>. QED
      BY <2>2, <2>3
  <1>. QED
    BY QuotesInvariance, <1>1, PTL

\* If no customer asks for more than a year, each night is priced as what it
\* is by the whole of the government's calendar, wherever the holidays around
\* it stay within the years next to the stay: the years that ensure_years asked
\* for are all there by then, and derive_special_dates loses nothing by the
\* years that are not.
THEOREM NightsAreTrue ==
    ASSUME StaysWithinAYear
    PROVE  Spec => []NightsTrueInReach
  <1>. DEFINE I == QInv /\ DatesAreRight /\ NightsTrueInReach
  <1>1. Init => I
    <2>. SUFFICES ASSUME Init
                  PROVE  I
      OBVIOUS
    <2>1. \A t \in Thread : at[t] \in {"years", "idle"} /\ answer[t].kind = "none"
      BY DEF Init, NoAnswer
    <2>. QED
      BY <2>1, InitQInv DEF DatesAreRight, NightsTrueInReach, Priced
  <1>2. I /\ [Next]_vars => I'
    <2>. SUFFICES ASSUME I, [Next]_vars
                  PROVE  I'
      OBVIOUS
    <2>1. CASE Next
      BY <2>1, StaysWithinAYear, NextQInv, DatesStep, NightsStep DEF QInv
    <2>2. CASE UNCHANGED vars
      <3>1. UNCHANGED <<at, job, special, published, answer>>
        BY <2>2 DEF vars, own
      <3>2. DatesAreRight'
        BY <3>1, DatesStayRight DEF DatesAreRight
      <3>3. \A t \in Thread : NightsTrue(t)
        BY DEF NightsTrueInReach, NightsTrue
      <3>4. ASSUME NEW t \in Thread
            PROVE  NightsTrue(t)'
        BY <3>1, <3>3, NightsStayTrue
      <3>5. NightsTrueInReach'
        BY <3>4 DEF NightsTrueInReach, NightsTrue
      <3>. QED
        BY <2>2, <3>2, <3>5, NextQInv
    <2>. QED
      BY <2>1, <2>2
  <1>3. I => NightsTrueInReach
    OBVIOUS
  <1>. HIDE DEF I
  <1>. QED
    BY <1>1, <1>2, <1>3, PTL DEF Spec

\* If the room policy is sound, the gates and the price agree on every stay that
\* gets to them: what either _room_gate lets through calculate_price refuses only
\* for want of a rate for its tier, which no gate asks for, and the number of
\* rooms a customer is told to take is more than she asked for and gets her
\* through, whatever the rules and however many guests.
THEOREM GateAndPriceAgree ==
    ASSUME SoundPolicy
    PROVE  Spec => []GatesAgree
  <1>1. QInv => GatesAgree
    <2>. SUFFICES ASSUME QInv, NEW t \in Thread, Complete(t)
                  PROVE  GatesLeadToPrice(job[t].path, Slot(t, "rooms"), Guests(t))
      BY DEF GatesAgree
    <2>. DEFINE rooms == Slot(t, "rooms")
                guests == Guests(t)
    <2>1. rooms \in Nat /\ guests \in Nat /\ guests > 0
      BY StayIsNat DEF QInv
    <2>. HIDE DEF rooms, guests
    <2>2. Gate(job[t].path, rooms, guests) = RoomGate(rooms, guests)
      BY CopiesAgree DEF Gate
    <2>3. RoomGate(rooms, guests) = "price" => (CanPrice(rooms, guests) <=> HasRate(rooms))
      BY <2>1, SoundPolicy, LetThrough
    <2>4. RoomGate(rooms, guests) = "suggest" =>
             /\ Min(RoomsFor(guests)) > rooms
             /\ StateRoomGate(Min(RoomsFor(guests)), guests) = "price"
      BY <2>1, SoundPolicy, ToldRight, CopiesAgree
    <2>5. GatesLeadToPrice(job[t].path, rooms, guests)
      BY <2>2, <2>3, <2>4, CopiesAgree DEF GatesLeadToPrice
    <2>. QED
      BY <2>5 DEF rooms, guests
  <1>. QED
    BY QuotesInvariance, <1>1, PTL

\* If the calendar has the years of the stays and the rates are no less than
\* the discount, every variable has its type.  In particular each year in the
\* cache is whole, a fetch has a year to fetch, what is priced has a rule, and
\* no total is below zero, whatever the nights, the guests and the dogs.
THEOREM QuotesTypeCorrect ==
    ASSUME SoundRates, StaysInCalendar
    PROVE  Spec => []QuoteTypeOK
  <1>. DEFINE I == QInv /\ WorldTypes /\ ThreadTypes /\ AreFunctions /\ PricedFits /\ AnswerTypes
  <1>1. Init => I
    <2>. SUFFICES ASSUME Init
                  PROVE  I
      OBVIOUS
    <2>1. QInv
      BY InitQInv
    <2>2. WorldTypes
      BY QuotingAssumption DEF Init, WorldTypes
    <2>3. \A t \in Thread : /\ at[t] \in {"years", "idle"} /\ todo[t] \subseteq Warm
                            /\ missing[t] = {} /\ special[t] = NoDates /\ taken[t] = {}
                            /\ answer[t] = NoAnswer
      BY DEF Init
    <2>4. ThreadTypes /\ PricedFits
      BY <2>3, NoDatesAre, QuotingAssumption DEF ThreadTypes, Holds, PricedFits
    <2>5. AnswerTypes
      BY <2>3 DEF AnswerTypes, NoAnswer, Answers
    <2>6. AreFunctions
      BY DEF Init, AreFunctions
    <2>. QED
      BY <2>1, <2>2, <2>4, <2>5, <2>6
  <1>2. I /\ [Next]_vars => I'
    <2>. SUFFICES ASSUME I, [Next]_vars
                  PROVE  I'
      OBVIOUS
    <2>0. QTypes /\ YearsAreSeenTo
      BY DEF QInv
    <2>1. CASE Next
      BY <2>0, <2>1, SoundRates, StaysInCalendar, NextQInv, WorldStep, ThreadsStep, FitsStep,
         FunctionsStep, AnswerTypesStep
    <2>2. CASE UNCHANGED vars
      <3>1. WorldTypes' /\ ThreadTypes' /\ AreFunctions' /\ AnswerTypes'
        BY <2>2 DEF vars, own, WorldTypes, ThreadTypes, Holds, AreFunctions, AnswerTypes
      <3>2. PricedFits'
        BY <2>2, FitStays DEF vars, own, PricedFits
      <3>. QED
        BY <2>2, <3>1, <3>2, NextQInv
    <2>. QED
      BY <2>1, <2>2
  <1>3. I => QuoteTypeOK
    <2>. SUFFICES ASSUME I
                  PROVE  QuoteTypeOK
      OBVIOUS
    <2>1. QTypes
      BY DEF QInv
    <2>2. /\ todo \in [Thread -> SUBSET Year] /\ missing \in [Thread -> SUBSET Year]
          /\ special \in [Thread -> Dates] /\ taken \in [Thread -> SUBSET Day]
      <3>1. /\ todo = [t \in Thread |-> todo[t]] /\ missing = [t \in Thread |-> missing[t]]
            /\ special = [t \in Thread |-> special[t]] /\ taken = [t \in Thread |-> taken[t]]
        BY DEF AreFunctions
      <3>2. \A t \in Thread : /\ todo[t] \in SUBSET Year /\ missing[t] \in SUBSET Year
                              /\ special[t] \in Dates /\ taken[t] \in SUBSET Day
        BY DEF ThreadTypes, Holds
      <3>3. todo \in [Thread -> SUBSET Year] /\ missing \in [Thread -> SUBSET Year]
        BY <3>1, <3>2
      <3>4. special \in [Thread -> Dates] /\ taken \in [Thread -> SUBSET Day]
        BY <3>1, <3>2
      <3>. QED
        BY <3>3, <3>4
    <2>3. backoff \in [Year -> 0..Backoff]
      BY <2>1 DEF QTypes, WorldTypes
    <2>. QED
      BY <2>1, <2>2, <2>3 DEF QuoteTypeOK, QTypes, Labels, WorldTypes, AnswerTypes, Dates
  <1>. HIDE DEF I
  <1>. QED
    BY <1>1, <1>2, <1>3, PTL DEF Spec

=============================================================================
