# A model of the homestay night concierge

TLA+ modules, TLC configurations and TLAPS proofs for the LINE desk in `app/`:
a FastAPI process that receives a homestay's LINE messages, answers price
inquiries by rules while the owner is away, pushes the rest to her, and keeps
what nobody was told of for her to ask for.

    tlc -config Webhook.cfg MCWebhook        # one file per run, see "Runs"
    tlapm WebhookProofs.tla                  # the proofs; and the other *Proofs.tla

## The system

One process, SQLite, no durable queue. A webhook POST is answered 200 at once;
its events are worked through by a background task in Starlette's threadpool.
Beside it run the nightly digest loop and, at start, a prewarm of the holiday
calendar. Threads meet in the database and in the shared holiday service. Every
repository call is a transaction of its own, so others get in between any two.

| Component | State | Operations | Meets the others by | Hard about it | Correct when |
|---|---|---|---|---|---|
| **Customer pipeline** `api/line_webhook_routes.py`, `message_persistence_service` | rows of `processed_webhook_events` and `messages` | claim, handle, persist, push, reply with retries, correct the handled flag, roll back | `messages` (backlog), the composed reply, LINE | redelivery, batches, exceptions between two transactions, crashes, a push and a reply that fail separately | one run per event; the handled flag says what happened; nothing is lost without a fault |
| **Backlog and digest** the pending command, `run_nightly_digest_check` | the handled flag, `last_digest_sent_date` | list, show, close; count, push, mark | `messages`, while the pipeline writes it | read, send, write; lost marks; truncation | rows leave for a reason, each is shown in the end once the customers are silent, one digest a night |
| **Conversation memory** `conversation_state_service` and its repository | `conversation_states`, at most one active row per customer | expire, read, create, update, supersede, complete, clear the off flag | the pipeline threads of the same customer | lost updates, a row that ends under a thread, the unique index | what a reply is made from is what was said about this booking |
| **Mode and handoff** `operation_mode_service`, `conversation_handoff_service`, `operation_mode_resolver` | the override, the customer's hold, the schedule | read with clean-up, on, off, find a customer by name or number, pause, resume | every pipeline thread reads, owners write | check-then-act clean-ups, midnight, names that collide, lists that go stale | an order stands until its time; an answer was true at some time; a command reaches whom the owner meant |
| **Quoting** gates, room policy, price | none of its own | ask, suggest, refuse, quote | Google Calendar, the holiday cache | two copies of the gates, boundaries of capacity | gates and price agree; booked nights are not quoted |
| **Holiday calendar** service, gate, client | `holiday_calendar_cache`, the memory of failures | look up, fetch, back off, derive | shared by all threads | malformed years, outages, runs of days off over new year | a night is never priced as ordinary for want of data |
| **Turn** intent rules, LLM fallback, decision, gates of compose | the customer's row | take a message, decide, record, compose, deliver | all of the above | races of keywords, a dozen gates in an order, an LLM in the middle, a compose that raises, calls that fail | somebody hears of every message; off means silent; asking is remembered |
| **Stay dates** `domain/date_parser.py` | none; the row keeps the two ends | read a message's dates, merge them into the row | `Turn`'s and `ConversationState`'s slots | years nobody wrote, ranges with a label at one end, two messages on two days | a stay is the next one that fits, in the order the customer wrote it |
| Other parsers, templates, adapters, clients, repositories of tenants | none | pure functions, I/O | inputs and outcomes of the above | wording of free text | not modelled, see the end |

How one message travels: the pipeline claims the event, `InquiryService` asks the
mode (hold, then override and schedule), parses, may ask the LLM, and decides;
`persist` stores message and decision in one transaction; the conversation row is
read, merged or opened; compose picks a reply from decision and row, which may ask
the calendars; the push goes first, then the reply; the handled flag is corrected,
the row is completed.

## Modules

| Module | Models | Extends |
|---|---|---|
| `Webhook` | `_run_pipeline` and below, for customer events | |
| `MessagePromise` | abstract: what the desk promises for one message | |
| `Backlog` | the pending command and the digest loop, composed with the pipeline through `messages` | `Webhook` |
| `WebhookProofs` | theorems about `Webhook`, and that it implements `MessagePromise` | `Webhook` |
| `BacklogProofs` | theorems about `Backlog`, and that it implements `MessagePromise` | `Backlog`; instantiates `WebhookProofs` |
| `ConversationState` | `record`, `mark_completed`, `clear_accumulated_while_off`, by threads of a customer | |
| `StateProofs` | theorems about `ConversationState` | `ConversationState` |
| `Schedule` | the arithmetic of `operation_mode_resolver` and of the digest's date | |
| `OperationMode` | readers and writers of override and hold | `Schedule` |
| `ModeProofs` | theorems about `Schedule` and `OperationMode` | `OperationMode` |
| `Calendar` | payloads, special dates, years of a stay, price types | |
| `Rooms` | room policy, room gate, price | |
| `Quoting` | both quote paths on the shared holiday cache and the booking calendar | `Calendar`, `Rooms` |
| `QuotingProofs` | theorems about `Calendar` and `Quoting` | `Quoting` |
| `Turn` | from the words of a message to the plan the pipeline delivers, and what its delivery leaves | |
| `TurnProofs` | theorems about `Turn` | `Turn` |
| `Handoff` | whom the owner's `/<name>` and `/<name> <number>` stand for | |
| `HandoffProofs` | theorems about `Handoff` | `Handoff` |
| `Stays` | the dates of a stay: their roles, their years, the merge over messages | |
| `StaysProofs` | theorems about `Stays` | `Stays` |
| `MC*` | the small instances TLC checks | one each |

An operator marked FAULTY VARIANT is a plausible bug kept next to the definition it
would break; no specification uses it. Substituting it makes the property it is
listed with in `PROJECT.json` fail, which shows that the property depends on that
code. A history variable records what happened for the sake of a property and no
guard reads it.

### Webhook

`pc[t]` is where a thread is, `run[t]` the local variables of its event. A step is
the code between two points where a thread, LINE or a crash can get in:

| Action | Code |
|---|---|
| `Receive` | a POST, answered 200, becomes a background task |
| `Claim`, `SkipDuplicate`, `DedupeRaises` | `_should_process_event`; the raise is outside the `try`, so the batch dies |
| `Persist`, `HandlerRaises` | `handle_message` and `persist`, one transaction; on an exception the failure notice, and the dedupe row stays |
| `PushSucceeds`, `PushFails`, `OwnerLookupRaises` | `_send_owner_push` inside `_resolve_customer_text`, which swaps the text when the push failed |
| `ReplySucceeds`, `ReplyFails`, `ReplyImpossible` | `_send_reply_with_retry`, no reply token included |
| `Settle`, `SettleUnsent`, `Rollback`, `RollbackRaises` | `_correct_handled_if_silent_drop` and the rollback of the dedupe row |
| `Crash` | tasks are lost, tables stay |

What the reply says is chosen (`Plans`), except what delivery tells apart: no text, a
text, a text that claims a notification; a push or none; the decision live, off or
paused.

`MessagePromise` has one variable, the fate of each event: unseen, working, told,
pending, cut. A told message stays told, and nothing is cut without a fault.
`KeepsPromise` and `DeskKeepsPromise` map tables and threads to it and are checked as
properties; a message the owner saw on her screen counts as told in the second.

### Backlog

An owner's thread reads the table (`AskPending`), sends (`AnswerSucceeds`,
`AnswerFails`), closes what it showed (`ClosePending`, `CloseRaises`). The digest loop
looks at the window and the date (`CheckDigest`), counts (`CountPending`), pushes
(`DigestSucceeds`, `DigestFails`) and records (`MarkDigest`, `MarkRaises`). Which rows
fit into a reply is chosen: any suffix of the oldest `Limit`, one at least. So the
newest of the page is always shown and its oldest row may not be; an answer closes
what it showed, and the next page reaches further.

### ConversationState

Each SQL statement is a step: expire, read, then insert, update or supersede (the
two statements of which are one transaction). `hand[t]` is the row the thread merged
in Python, `stated` records the messages of each row, in order, and which of them
were said while off and not shown to the customer since. Between the steps other
threads, `TimeOut` and `Crash` get in. What a bare number answers (rooms or pets) is
among the message's fields.

### Schedule and OperationMode

Time is in ticks, `Day` of them a day. The clean-up of an expired override or hold
is the second transaction of a read and deletes by tenant or by customer, as in
the code. `order` remembers the last command an owner gave, `witness` what was true
since a reader began. Each writer thread carries out one command; nothing in the
service calls the operations that change the schedule, so it is fixed, and every
schedule is an initial state. The record command does not ask for the schedule: its
window (`RecordWindow`) is computed from the constant `NightWindow`, as the code's is
from 23:00 and 08:00.

### Calendar, Rooms, Quoting

Days are numbered through the years. `FetchSucceeds` takes any payload the server
may have for the year, with any day well formed, missing or twice, and caches only a
complete one. A job is a stay, and its path: `message` for `_handle_quote_relevant`,
`state` for compose, which order the gates differently. `missing` is what the gate
found absent, `special` what it read, `answer` how the job ended. `RoomGate` and
`StateRoomGate` are the two copies of the room gate; like the code's they find the
rule of a number of rooms without its rate, which only `CanPrice` asks for. The memory of
failed fetches belongs to the process and is shared, unlocked. `taken` is what the
owner's calendar marked when the job began.

### Turn

A message is what the parsers find: the keyword lists it matches, FAQ topics in the
order of the whitelist, slots, whether it is a form, hints at a date, is urgent. A
turn is three steps.

| Action | Code |
|---|---|
| `TakeTurn` | the rule race (`FirstOf`), the LLM (`Trigger`, `Consult`, the merges), the decision, the row (open, merge, supersede, off flag), the gates of compose, the off-topic override. compose may raise (`Raised`): then the text of the decision goes out and its push is dropped |
| `Deliver` | push, wording (`_resolve_customer_text`), reply, the correction of the handled flag; if the reply went out the row is completed or its off flag cleared |
| `TurnEnds` | the task goes on |
| `Switch`, `MinutesPass`, `Expire` | between turns: the mode, the 20 minutes, the end of the row |

The LLM is two providers one after the other. A call fails (`Failed`), or gives an
answer the schema lets through; what a failure means differs by caller: the rules
stand after a failed parse, a message counts as part of the booking after a failed
judgment (`Continues`).

Turns are sequential here; overlapping ones are `ConversationState`'s subject, and
calls of the database that raise `Webhook`'s. `sent` is what became of a plan, so
that a property can speak of the words that went out and of the flag that stayed.
Off stands for paused too: both decide `do_nothing`.

### Handoff

`rows` is who wrote under which name, the last first, as the query of the repository
orders them, and `fresh` how many of them wrote within 48 hours. A name is a sequence
of words and is stored as it is; what the owner writes is looked up in its normal form
(`Normal`, for `normalize_for_parsing`). `Write` is the owner's command, unless it reads
as one of the fixed ones (`Fixed`), which are other components' subject; `LookUpExact` tries the words as a whole name, `LookUp` the name
without its number; `ToggleAndReply` and `ReplyList` end it. Between any two of
these a customer writes (`Message`), changes her name (`Rename`), or a message turns
48 hours old (`Lapse`). What the toggle does to the hold is `OperationMode`'s subject.
`listed` and `stirred` remember the list the owner saw, and whether anything has moved
in it. A list is the places of a name's bearers, counted from the front.

### Stays

Days are numbered through years of one length. `Reading` is `parse_stay_dates`: the
year words (`Dated`), the labels and ranges (`Roles`, `RepairPair`), the shift of the years
(`Reconcile`: the first of the `Candidates` that is `Good`). The ranges are repaired one
after the other (`Repaired`), as the loop in the code does. `Today` lies beyond the
first of all years, so that last year is a year too and no date is `NoDate`. `Say` reads a message on the day it was sent and merges it into the
row as the UPDATE does; `Midnight` lets days pass between messages, `RowEnds` completes
or expires the row.

## Runs

| Run | Instance | Question |
|---|---|---|
| `Webhook` | an event with an id, one without; two threads; POSTs of one event and of both; two deliveries; two reply attempts; a crash; every fault | delivery is honest and implements the promise |
| `Backlog` | one event, two deliveries, two owners, one night, crash, lost close and mark | the owner's side is honest and implements the promise |
| `BacklogLive` | two events, POSTs of one and of both, two deliveries of each, one thread, one owner, two reply attempts; raising handler, dedupe INSERT and rollback, a crash; fairness | every delivered message comes to rest, and the backlog is emptied once the customers are silent |
| `ConversationState` | two threads, seven kinds of message, three runs, a timeout, a crash | the memory under overlapping messages |
| `OperationMode` | days of three ticks, all nine schedules and a night for the record from tick 2 to tick 1, from tick 3 to tick 6, one reader, three commands | orders, answers and the arithmetic |
| `Quoting` | two years of five days, two threads, ten kinds of stay, a room rule whose tier has no rate, one marked night at a time out of three | prices tell the truth and the gates agree |
| `Turn` | 117 kinds of message, three LLM readings, any two providers | who hears of a message, what is remembered |
| `Handoff` | three customers; a name, the same with a number and in full-width letters, and one that is a fixed command; one customer who changes hers; every command of a name with or without a number | whom a command reaches, at once and after others wrote |
| `Stays` | years of six days, stays of two nights at most, one or two dates with every label and link and most combinations of year words, 216 messages with three dates, on every day of a year, then one date at a time | what stay is read |
| `TurnPromise`, `HandoffNumber`, `StaysLong` | the instances of `Turn`, `Handoff`, `Stays` | the first three disagreements below: these runs end in a counterexample |

`Webhook` and `ConversationState` stop when deliveries and runs are used up, so these
do not check deadlock. The others do: owners can always ask, customers can always
write, stays can always be asked about, and a thread never waits for another one.

**Bounds.** They are constants or parts of an instance, and named BOUND in the
modules. *Deliveries, crashes, runs, timeouts*: each fault needs to meet each step of
another thread once; two deliveries give a run and its redelivery in all
interleavings, a crash leaves one of each kind of residue. *Attempts* is 3 in the
code and 2 here: a first one, and a last one. *Limit* is 50 in the code and 2 here.
In `BacklogLive` up to four rows are pending (a redelivery whose first run was rolled
back stores its message again), so that the page leaves rows out and truncation
leaves out more. *Day* is three ticks, so that windows can be
inside a day, wrap, be empty, or be all of it but one tick; ticks 3 to 6 pass midnight.
*A year* is five days: a run of days off can touch new year, or stop short of it by
a day. *Rules and rates* are those of `data/tenants/zhen123-house/config.json`, and one
rule more, whose tier has no rate.
`Turn` has no bound but its set of messages, and reaches all its states. *Three
customers* are a list of two and somebody whose name is on its way into it or looks
like its number; *Profile* says which names each of them may have. *Six days and two nights* leave, as 365 and 31 do, room for a stay
that is too long without being a year, for one over new year, and for a departure
that has passed when its arrival has not. A customer begins with any message, and
goes on (*Follow*) with one date at a time, which is what a correction is.

**Symmetry** is used for threads, tasks and owners, in runs without liveness: no definition names one of them.

**Fairness.** Only `BacklogLive` assumes any. Weak fairness of each task's and each
owner thread's steps: a thread of the pool that can go on does, and no step of the
code waits for another thread. Strong fairness of `AnswerSucceeds`: an owner who
keeps asking gets a reply through in the end. Nothing is assumed of replies to
customers, pushes or redelivery, and LINE may refuse all of them.

### What the properties say

* *Delivery.* `ExclusiveRun`: two deliveries of an event are never at work at once.
  `HandledIffReached`: the flag persist sets too early is right when the run is over.
  `StoredOrCasualty`: only a fault loses a message. `NotifiedIsTrue`: "notified" is
  said after a push. `RepliedIsFinal`: an answered event is never processed again.
* *Desk.* `BacklogIsHonest`, `ClosedStaysClosed`: the flag has two writers that do
  not undo each other. `DigestOncePerFault`. `PendingIsShown`: once the
  customers fall silent every row is shown and closed. It says no more, since the code
  does no more, see below. `EventuallyAccounted`: every delivered message comes to rest.
* *Memory.* `HandIsRow`: Python's merge and SQL's agree unless raced, from the read to
  the completion or clearing by id. `RowIsItsMessages`: a slot is the last word of the
  messages recorded in its row, so no update is lost, raced or not.
  `DueNudgeIsFlagged`: what was said while off stays flagged until it was shown again.
  `RefusedOnlyInRace`, `EndedStaysEnded`.
* *Mode.* `ScheduleAgrees`: mode, holds and digest speak of the same windows, and the
  record of the last hard-coded night.
  `CommandStandsUnlessRaced`, `AnswerWasTrue`.
* *Quotes.* `NightsTrueInReach`: a night is what the government says, given the years
  the gate asks for. `QuoteHonoursBookings`, `FewTimeouts`. `GatesAgree`: what either
  gate lets through is refused by the price for want of a rate only, rooms that are
  suggested are more and get through, and the two copies say the same.
* *Turn.* `QuietUnlessOn`: nothing in compose or the LLM gets past the mode.
  `SomebodyHears`: a message is meant for somebody, and after its delivery somebody
  was told or the backlog has it. `FaqYieldsToBooking`, `StaleIsReconfirmed`,
  `AskingIsRemembered`: the gates and the row agree over many turns.
* *Handoff.* `FreshAreReachable`: no recent customer is hidden behind a name, a number
  or a fixed command, if her name is its own normal form. `NumberPicksUnlessStirred`: a number means whom the owner saw at it.
* *Dates.* `NextStay`: five candidate shifts find what a search through all years
  finds. `RangeIsRead`: the repair of labels loses no end. `StayIsAhead`: two
  messages do not make up a stay that was over.

Where a property exempts something (stranded rows, casualties, raced threads, nights
out of reach, labelled departures, detours, a compose that raised, a tier without a
rate, a place on the list that is somebody's name, a name that is not its own normal
form), the exemption is what the code does not guarantee, and is
itself a history variable or a condition on the state.

## What disagrees with the documents

Shown by a run of their own:

1. **A promise nobody heard** (`TurnPromise`). Of the texts that promise staff only the
   deferral of a FAQ is worded down when the push failed; "manual review" and "full
   house" go out as they are, and so does the text of a decision whose compose
   raised. The message counts as handled, against `app/domain/reply_text.py:102`.
2. **A number picks another customer than the list showed** (`HandoffNumber`). The list
   is computed again, in the order of the last messages, against
   `docs/architecture.md:89`.
3. **A stay of most of a year** (`StaysLong`). An arrival and a departure said in two
   messages are never reconciled with each other, against
   `app/domain/date_parser.py:204`. In the run the departure comes first: on the second
   day of a year the customer leaves "on the first", which is read as next year's, and
   then arrives "today".

Exempted by name in a property, which fails without the exemption, or (7) a step of
its own, or (12) a constant of its own:

4. **Off mode pushes** (`plan.detour` in `QuietUnlessOn`). `_maybe_override_for_off_topic`
   does not look at the mode, against `docs/operation_modes.md:14`.
5. **A clean-up deletes a command** (`raced` in `CommandStandsUnlessRaced`). The override
   cleared is not necessarily the one found expired, against
   `docs/operation_modes.md:51`.
6. **A night near new year is priced as ordinary** (`InReach` in `NightsTrueInReach`).
   `_years_touched` looks one day ahead, a run of days off may be longer.
7. **Children without adults raise** (`PriceRaises` in `Quoting`). `calculate_price`
   compares `None < 0`; what follows is `Raised` in `Turn`.
8. **"10/5 checkout" reaches nobody** (`plan.labelled` in `SomebodyHears`). compose drops
   the push because a FAQ topic matched that no gate claims.
9. **A rule without a rate passes the room gates** (`HasRate` in `GatesLeadToPrice`). They
   call `resolve_room_pricing_rule` and `minimum_rooms_for_guest_count` without the
   prices, so that the check of the tier at `app/domain/room_policy.py:34` runs in
   `calculate_price` alone: the customer is let through, or even told to take such
   rooms, and then refused as for an invalid room policy.
10. **A full-width name cannot be handed over** (`Normal` in `FreshAreReachable`). The
   owner's command is normalized (`normalize_for_parsing`), the display name is stored
   raw and compared by `=`: no command finds "Ｗｅｎｄｙ", and "/Ｗｅｎｄｙ" toggles a "Wendy",
   if there is one, against `docs/architecture.md:89`. A name that is a fixed command
   ("狀態") is found only with a number behind it.
11. **The oldest row may never be shown** (`CustomersFallSilent` in `PendingIsShown`). The
   reply keeps the most recent of the oldest fifty that fit; while as many new rows
   come as are shown, its first ones are left out of every reply.
12. **The record's night is not the tenant's** (`NightWindow` in `ScheduleAgrees`). The
   record command passes 23:00 and 08:00 (`app/api/line_webhook_routes.py:148`, 550),
   whatever schedule mode, holds and digest go by. `docs/operation_modes.md:56` says
   that all tenants are at the default, and then the windows are one.

Met while modelling, and not stated by a property:

* `_years_touched` (`app/domain/holiday_gate.py:70`) promises "every year needed to
  classify this stay's nights" and names the years of four days: the day before, the
  arrival, the last night, the departure. A stay of more than a year may pass over one
  of which it asks nothing, and its holidays are priced as ordinary. Nothing refuses
  such a stay once it is in a row. It came up in the proof of `NightsAreTrue`, which
  excludes it by a hypothesis; with three years of three days and a stay from day 2
  to day 8, TLC finds the holidays of the second year priced as ordinary.
* `messages.reply_text` is never written, so the record and the backlog show every
  message as not answered, whatever was sent.
* Where two recent customers are both called "Wendy 1", the command "/Wendy 1" finds
  two and goes on to the first "Wendy", though a comment in the route says the
  number counts only "when no customer is actually named that".
* Once only one bearer of a name wrote within 48 hours, a number behind the name is
  ignored, and she is toggled whatever the number was.
* On 5/13, "5/12-14" is read as next year's and "5/12-5/14" as this year's. And
  "5/12 arrival, departure 5/14 this year" on that day moves the departure, though
  a comment says a year the customer gave is never picked again.

## What is proved

### The pipeline

`WebhookProofs` proves about `Webhook`, for every set of events, batches and tasks,
every number of attempts, any faults and any bounds, from `WebhookAssumption` alone:

| Theorem | States |
|---|---|
| `Invariance` | `IInv` holds always |
| `TypeCorrect` | `TypeOK` |
| `OneRunPerEvent` | `ExclusiveRun` |
| `FlagTellsTruth` | `HandledIffReached` |
| `NotifiedTellsTruth` | `NotifiedIsTrue` |
| `AnsweredStaysAnswered` | `RepliedIsFinal` |

None of the three invariants is inductive alone. Exclusion needs that whoever works
on an identified event holds its dedupe row (`ClaimHeld`), since that row is what
keeps the others out, and that only the holder deletes it, as its last step. The
flag's truth at the end of a run needs what is true of it on the way, for each place
a task can be (`FlagWhileRunning`, `RunFacts`: set by persist for a live decision, the
push's outcome agrees with `told`, nothing replied before the reply), and that two
tasks do not share a row (`OwnRow`), or a neighbour's correction would falsify it;
`RunShape` says which tasks have a row. Finality needs that a replied event's dedupe
row is never deleted (`RepliedHeld`). `IInv` is the conjunction; the proof goes action by
action, and the action property follows from `IInv` and the guard of `Claim`.

### The turn

`TurnProofs` proves all six invariants of the run `Turn`, for every set of messages,
whatever the LLM may read out of a text, and conversations of any length, from
`TurnAssumption` alone:

| Theorem | States |
|---|---|
| `Quiet` | `QuietUnlessOn` |
| `Yields` | `FaqYieldsToBooking` |
| `Hears` | `SomebodyHears` |
| `Remembered` | `AskingIsRemembered` |
| `Reconfirmed` | `StaleIsReconfirmed` |
| `Typed` | `TurnTypeOK` |

The code is a sequence of races, in which the first condition that holds decides.
`FirstWins` takes a race apart once and for all; the lemmas named `...Cases` say for
each race which entry won and what is then known (`ComposeCases`, `DecisionCases`,
`RecordedCases`, `ReplyCases`). *Quiet*, *Yields* and *Hears* speak of the plan alone and need
no more than these and, for *Hears*, that a delivery which reached nobody leaves the
flag unset (`DeliveryIsHonest`). *Yields* needs that the three FAQ gates and
`_has_resolved_booking_context` exclude each other on a committed message
(`CommittedIsNotClaimed`).

The other three are about the row, and not inductive alone. *Remembered* rests on
`RowShape` (the row is a record of its three fields) and on `RequestOpens`: whatever may be
asked for more opens a row. *Reconfirmed* rests on the link between history and mark, `Marked`: slots in
doubt belong to an open row that is marked, stale if they are old; `TurnMarks` shows
it of a turn, whatever is recorded. *Typed* follows the slots from the schema of the
LLM's answer through each merge (`ParsesShape`, `DecisionSays`) to the row
(`RecordedType`).

### The promise

`WebhookProofs` goes on, from the same assumption:

| Theorem | States |
|---|---|
| `TracedInvariance` | `IInv /\ Traced` holds always |
| `NothingLost` | `StoredOrCasualty` |
| `PipelineKeepsPromise` | `KeepsPromise`: `Webhook` implements `MessagePromise` |

That nothing is lost hangs on the dedupe rows, which keep a redelivery out: `Traced`
says that behind each of them there is a row of the message, a fault, or a run that is
still to store one (`ProcessedLeftTrace`). The refinement takes every step through the
map from tables and threads to fates: a redelivery that finds its event told must not
make it work again (`RepliedHeld` again), and a run that leaves the pipeline must leave
its message told, pending or cut.

### The desk

`BacklogProofs` proves all safety of the runs on `Backlog`, for any owners, page limit,
nights and faults, from `WebhookAssumption` and `BacklogAssumption`:

| Theorem | States |
|---|---|
| `DeskInvariance` | `DeskIInv` holds always |
| `DeskTypesHold` | `DeskTypeOK` |
| `BacklogTellsTruth` | `BacklogIsHonest` |
| `DigestIsRare` | `DigestOncePerFault` |
| `ClosedRowsStay` | `ClosedStaysClosed` |
| `DeskKeepsItsPromise` | `DeskKeepsPromise` |

Nothing about the pipeline is proved again. The rows as they would be without
`mark_many_handled` (`LeftRows`) behave as the rows of `Webhook`: each step of the desk is
a step of the pipeline on them or leaves them alone, so `WebhookProofs`, instantiated
with them, gives its invariants for free. What is left is that owners close only rows
they were shown, which the pipeline had left on the backlog (`ShownIsBacklog`), and the
bookkeeping of the digest loop (`LoopShape`, `DigestCount`).

### The conversation

`StateProofs` proves all six properties of the run `ConversationState`, for any
messages, threads, numbers of rows, timeouts and crashes, from
`ConversationAssumption` alone:

| Theorem | States |
|---|---|
| `Invariance` | `IInv` holds always |
| `StateTypesHold` | `StateTypeOK` |
| `HandStaysRow` | `HandIsRow` |
| `RefusalsAreRaces` | `RefusedOnlyInRace` |
| `RowsAreTheirMessages` | `RowIsItsMessages` |
| `EndedConversationsStay` | `EndedStaysEnded` |
| `DueNudgesAreFlagged` | `DueNudgeIsFlagged` |

The heart is `Undisturbed`: what a thread that was not raced has in hand is what the
table has, at every place between its read and its end, or there is no open row.
For that, one open row per customer (`OneOpen`, the unique index) has to be invariant
with it, and every step of a neighbour that touches the thread's row has to count as
a race (`TouchRaces`). That a row is its messages goes by the last of them: an update adds
one, what it does not state stays as it was, and what it states is the last word of
it (`Merged`). A due nudge stays flagged since an update never takes a flag away, and
since a thread that was not raced clears the flag of just the messages its nudge has
shown: a message recorded in between would have raced it.

### The mode

`ModeProofs` proves all four invariants of the run `OperationMode`, for any readers and
writers, a day of any number of ticks, every schedule, and for as long as the clock
runs:

| Theorem | States |
|---|---|
| `ModeInvariance` | `IInv` holds always |
| `ModeTypesHold` | `ModeTypeOK` |
| `ScheduleIsRight` | `ScheduleAgrees` |
| `CommandsStand` | `CommandStandsUnlessRaced` |
| `AnswersWereTrue` | `AnswerWasTrue` |

`ScheduleIsRight` is arithmetic. `TwoDays` says when the schedule is on within a day of
midnight, and `NextBoundaryIs`, `NextWindowEndIs`, `DigestIs`, `RecordIs` compare each
computation with the definition of what it looks for; the last is about the hard-coded
night, which is any schedule to the proof (`RecentIs`). Its assumption is that a day has
a tick.

The other two are about time passing under a thread. An override is set until the
next boundary of its time, and stays that of the present until it passes it
(`BoundaryStays`, `EndsAreTimely`); a reader that finds it expired therefore goes by the same
schedule whoever cleans up. A command stands because no thread with an expired row in
hand is anywhere near a delete, unless raced (`OverrideIsSafe`, `HoldIsSafe`). An answer
is true because at each place the reader has a witness for what it goes by
(`HoldWitnessed`, `ModeWitnessed`).

### The quotes

`QuotingProofs` proves of `Quoting`, for any threads, stays, payloads and government
calendars, years of any length, bookings and back-off, from the assumptions of `Calendar`,
`Rooms` and `Quoting` (finitely many threads; numbers for what is known of a stay; a
back-off that is not zero, `_FAILURE_BACKOFF`):

| Theorem | States |
|---|---|
| `QuotesInvariance` | `QInv` holds always |
| `QuotesHonourBookings` | `QuoteHonoursBookings` |
| `TimeoutsAreFew` | `FewTimeouts` |
| `NightsAreTrue` | `NightsTrueInReach`, if `StaysWithinAYear` |
| `GateAndPriceAgree` | `GatesAgree`, if `SoundPolicy` |
| `QuotesTypeCorrect` | `QuoteTypeOK`, if `SoundRates` and `StaysInCalendar` |

`FewTimeouts` is an account: failures of a year and the threads that fetch it at the moment
are together never more than the threads (`FailuresAreLeftAlone`), since nobody turns to a
year that failed before its back-off is over, when the failures are forgotten.
`NightsAreTrue` goes in three parts. Until the price is made, each year the stay
touches is in the cache, still to look up, or known to be missing (`YearsAreSeenTo`); a
cached year is complete. A stay of at most a year touches all the years between its
ends (`AllYearsTouched`); that is why the theorem needs `StaysWithinAYear`, see above. And
`PartOfCalendar`: the special dates derived from part of a calendar are right for a
night whose whole run of days off is in that part, whichever other years are there or
not.

The last two speak of the tenant's configuration, and say of it what they need.
`SoundPolicy`: no rule is for more rooms than the house has, an extra bed only in the
whole house, no rule exceeds the guest limit, and, extra beds
aside, more rooms hold no fewer guests. It gives no tier a rate: that is the gates' and
the price's difference, and the theorem says that it is the only one.
Without it the gate may let through
what no rate could price, or send a customer to rooms that refuse her. `SoundRates`: a night
costs no less than what a night of a long stay is cheaper by. `MCQuoting` assumes these
three and `StaysWithinAYear`, so that TLC finds them true of the instance, whose policy and rates
are those of the configuration in `data/`, with a rule more.

*GateAndPriceAgree* is about the two readings of one table. Each gate goes by
the first rule of a number of rooms (`StandardIs`) and by the largest party of any of them,
the price by the rules themselves; `CapacityIs` and `MaxCapacityIs` relate the three.
`LetThrough`: what a gate lets through has a price if its tier has a rate. `ToldRight`: a
customer who takes the number of rooms she is told is let through. `CopiesAgree`: the
gates are two definitions, compared here.
*QuotesTypeCorrect* needs, beyond `QInv`, that what is priced has a rule (`PricedFits`)
and that the sum of some nights is at least as many times the cheapest of them
(`SumBounds`, by induction over their number), which the discount cannot outweigh.

### The handoff

`HandoffProofs` proves both invariants of the run `Handoff`, for any customers, names,
commands, normal forms of words and fixed commands, from `HandoffAssumption` (numbers are
their own normal form, and no fixed command ends in one):

| Theorem | States |
|---|---|
| `NumberPicksTheListedUnlessStirred` | `NumberPicksUnlessStirred` |
| `FreshCanBeHandedOver` | `FreshAreReachable`, if `WritesAnything` |

The invariant is `HInv`: the tables have one row per customer and name (`HTypes`), and a
list the owner saw, or is about to see, is the one a look-up of its name would make
now, unless stirred (`ListIsTrue`). The step that matters is a message of somebody
else. It moves the rows in front of hers by one place, and so the places of the
name's bearers by a function that keeps their order; `Moved` shows once and for all
that then the k-th stays the k-th. That a message turns 48 hours old moves nobody,
but may end the collision of another name (`OthersLapse`).

*FreshCanBeHandedOver* is about one state, and a name that is its own normal form: her
name alone leads to a customer whose name nobody else used lately and that is no fixed
command (`OnlyRecentIsFirst`), and otherwise the name with her place does, which is in
normal form and no fixed command (`NumberedIs`, `NumberLeads`), unless that is a name. Its
hypothesis, that the owner may write any name and number, is assumed by `MCHandoff`.

### The dates

`StaysProofs` proves all three invariants of the run `Stays`, for years and limits of any
length, messages of any number of dates, and conversations of any length, from
`StaysAssumption` alone:

| Theorem | States |
|---|---|
| `ReadsTheNextStay` | `NextStay` |
| `ReadsTheRange` | `RangeIsRead` |
| `RowStaysAhead` | `StayIsAhead` |

*ReadsTheNextStay* is the reason why five candidates are enough. A date without a year
is read as the next of its day, less than a year ahead (`YearAhead`). Then a plausible
placement exists only if the two ends as read are plausible, or with the arrival a
year before, and none ends before them (`NothingSooner`). If none is plausible, no
placement is, and the collapse puts both ends in one year. *ReadsTheRange* follows the
roles of two dates through the labels and the repair of the range (`RolesOfRange`), and
the days, not the years, through the shifts (`ReconcileKeepsDays`).

*RowStaysAhead* is the only one about more than one message. Its invariant `SInv` says
that what was said was read as `Reading` says (`SaidIsRead`), and that a departure was
not over when it was said, or lies at or before the arrival, so that nobody can price
the stay (`RowIsAhead`). The second case is what makes it inductive: an arrival said
later may overtake the departure, and a reading that contradicts itself is recorded
as it is. `SayKeeps` merges a reading into such a row.

### Model-checked only

Every invariant and every action property of the passing runs is stated by a theorem.
What TLC alone shows:

* `PendingIsShown` and `EventuallyAccounted`: liveness under fairness, and ENABLED, are out
  of TLAPS's reach.
* The three disagreements with a run of their own, which are counterexamples.
* That the hypotheses named above hold of the instances, and what a mutant of the
  code does to each property.

Where an induction is needed, it is over a set of numbers (`NatInduct`, from the least
number outside of it), and for each recursive definition there is a lemma that a function
with its equation exists (`RepairExists`, `SumExists`).

## What is not modelled

* The regular expressions of intent, FAQ and dates, and the parsers of head counts,
  rooms, pets, barbecue, numbers and urgency: what they find is an input. Faults
  there are wrong readings of a sentence; `tests/` and `eval/` have tables of them.
* The prompts and the HTTP of the LLM providers; what they answer is chosen.
* Wording, but for what a text promises.
* Signature check, JSON, LINE, Messenger and Google clients, beyond success or failure.
* Tenants, channels, owners and configuration: one tenant, fixed.
* The rows of the record command, which change nothing; the window they come from is
  in `Schedule`, their truncation in `Backlog`.
* The question for the number of pets, in `Turn`.
* 29 February, and the rates of the summer months.
* Health routes, `eval/`, `scripts/`.

## Plan

Done: the pipeline with its refinement, the backlog, the conversation memory, the
mode, quoting, the turn with its delivery, the handoff command, the dates; proofs of
all safety properties of the passing runs. Next, in this order:

1. **An abstract conversation** (one booking at a time, slots stated in order) that
   `ConversationState` implements when nobody races.
2. **The plans of `Turn` as the `Plans` of `Webhook`**, so that the two need no common
   reading of what a plan may be.
3. **What a row of `Stays` means to `Quoting`**: the jobs of `Quoting` as the stays that
   `Stays` can put together, so that `StaysInCalendar` is a theorem and the stay of most
   of a year (`StaysLong`) shows at the price.
