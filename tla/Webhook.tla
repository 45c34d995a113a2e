------------------------------ MODULE Webhook ------------------------------
(***************************************************************************)
(* The customer pipeline of app/api/line_webhook_routes.py: a webhook POST *)
(* is answered 200 at once and its events are worked through by a          *)
(* background task of the same process (Starlette's threadpool), one       *)
(* thread per POST.  A step of this module is the code between two points  *)
(* at which another thread, LINE or a crash can get in: a SQLite           *)
(* transaction or a call to LINE.                                          *)
(*                                                                         *)
(* Durable: the dedupe table and the messages table.  Lost in a crash: the *)
(* tasks.  LINE may deliver an event more than once; it never does so      *)
(* because of a 500, since every POST is answered 200 before any work.     *)
(*                                                                         *)
(* Abstracted: what a message says.  Only what the delivery code tells     *)
(* apart is kept, in Decision (how handle_message classed the message) and *)
(* Plan (what the composed reply asks the route to send).                  *)
(***************************************************************************)
EXTENDS Naturals, Sequences, FiniteSets

CONSTANTS
    Event,          \* customer text events LINE may deliver
    Anonymous,      \* those LINE sends without a webhookEventId
    Batch,          \* the event lists a POST may carry
    Task,           \* background tasks the threadpool can run at a time
    Attempts,       \* reply attempts: 1 + Len(_REPLY_RETRY_DELAYS_SECONDS)
    Faults,         \* what may go wrong besides the calls to LINE
    MaxDeliveries,  \* BOUND: POSTs that carry the same event
    MaxCrashes      \* BOUND: crashes of the process

\* "crash"     the process dies
\* "dedupe"    the dedupe INSERT raises (line 1054 is outside the try)
\* "handler"   handle_message or persist raises
\* "lookup"    the tenant_owners SELECT of a push raises
\* "correct"   the UPDATE that marks a row unhandled raises
\* "rollback"  the DELETE of the dedupe row raises
FaultKind == {"crash", "dedupe", "handler", "lookup", "correct", "rollback"}

ASSUME WebhookAssumption ==
    /\ Anonymous \subseteq Event
    /\ Batch \subseteq Seq(Event) \ {<<>>}
    /\ Attempts \in Nat \ {0}
    /\ Faults \subseteq FaultKind
    /\ MaxDeliveries \in Nat
    /\ MaxCrashes \in Nat

\* off, paused: action_type do_nothing; live: every other action_type.
Decision == {"live", "off", "paused"}

\* The customer text: none, one that stands by itself, one that claims the
\* owner was notified (the only kind that has a push_failed_text).
Text == {"none", "plain", "notified"}

Plan == [text : Text, push : BOOLEAN]

VARIABLES
    deliveries, \* [Event -> Nat] POSTs LINE made so far
    processed,  \* rows of processed_webhook_events
    rows,       \* rows of messages, the id of a row is its position
    pc,         \* where each task is
    todo,       \* the events a task still has to work through, its own first
    run,        \* the local variables of a task's current event
    replied,    \* history: rows whose customer reply LINE acknowledged
    told,       \* history: rows whose owner push LINE acknowledged
    stranded,   \* history: rows whose run was cut short by a fault
    casualty,   \* history: events whose delivery a fault cut short
    crashes

history == <<replied, told, stranded, casualty>>

vars == <<deliveries, processed, rows, pc, todo, run, history, crashes>>

-----------------------------------------------------------------------------

Row == [event : Event, decision : Decision, handled : BOOLEAN]

\* row: message_id, 0 before persist.  pushed: owner_push_ok.  tries: reply
\* attempts made.
Run == [row : Nat, decision : Decision, text : Text, push : BOOLEAN,
        pushed : BOOLEAN, tries : Nat]

NoRun == [row |-> 0, decision |-> "live", text |-> "none", push |-> FALSE,
          pushed |-> FALSE, tries |-> 0]

\* The points of _run_pipeline and _process_pipeline_event a task can be at.
Working == {"handle", "push", "reply", "settle", "unsent", "rollback"}
Label == {"idle", "dedupe"} \cup Working

Current(t) == Head(todo[t])
Identified == Event \ Anonymous
EventsOf(seq) == {seq[i] : i \in DOMAIN seq}

TypeOK ==
    /\ deliveries \in [Event -> Nat]
    /\ processed \subseteq Identified
    /\ rows \in Seq(Row)
    /\ pc \in [Task -> Label]
    /\ todo \in [Task -> Seq(Event)]
    /\ run \in [Task -> Run]
    /\ replied \subseteq DOMAIN rows
    /\ told \subseteq DOMAIN rows
    /\ stranded \subseteq DOMAIN rows
    /\ casualty \subseteq Event
    /\ crashes \in Nat

Init ==
    /\ deliveries = [e \in Event |-> 0]
    /\ processed = {}
    /\ rows = <<>>
    /\ pc = [t \in Task |-> "idle"]
    /\ todo = [t \in Task |-> <<>>]
    /\ run = [t \in Task |-> NoRun]
    /\ replied = {}
    /\ told = {}
    /\ stranded = {}
    /\ casualty = {}
    /\ crashes = 0

Goto(t, label) == pc' = [pc EXCEPT ![t] = label]

\* The end of one turn of the for loop of _run_pipeline.
NextEvent(t) ==
    /\ todo' = [todo EXCEPT ![t] = Tail(@)]
    /\ Goto(t, IF Len(todo[t]) = 1 THEN "idle" ELSE "dedupe")
    /\ run' = [run EXCEPT ![t] = NoRun]

\* _handle_pipeline_failure: log, try to push a notice without content to the
\* owner, go on with the next event.  The dedupe row stays.
PipelineFails(t) ==
    /\ NextEvent(t)
    /\ casualty' = casualty \cup {Current(t)}
    /\ stranded' = stranded \cup ({run[t].row} \ {0})
    /\ UNCHANGED <<deliveries, processed, rows, replied, told, crashes>>

-----------------------------------------------------------------------------
(* The POST and the dedupe check.                                          *)

\* line_webhook: 200, and a background task for the events of the body.
Receive(t) ==
    /\ pc[t] = "idle"
    /\ \E batch \in Batch :
        /\ \A e \in EventsOf(batch) : deliveries[e] < MaxDeliveries
        /\ deliveries' = [e \in Event |->
              IF e \in EventsOf(batch) THEN deliveries[e] + 1 ELSE deliveries[e]]
        /\ todo' = [todo EXCEPT ![t] = batch]
    /\ Goto(t, "dedupe")
    /\ UNCHANGED <<processed, rows, run, history, crashes>>

\* FAULTY VARIANT of Claim: events without an id are recorded as well.
ClaimAnonymous(t) ==
    /\ pc[t] = "dedupe"
    /\ Current(t) \notin processed
    /\ processed' = processed \cup {Current(t)}
    /\ Goto(t, "handle")
    /\ UNCHANGED <<deliveries, rows, todo, run, history, crashes>>

\* FAULTY VARIANT of Claim: the whole batch is recorded with its first event.
ClaimBatch(t) ==
    /\ pc[t] = "dedupe"
    /\ Current(t) \notin processed
    /\ processed' = processed \cup (EventsOf(todo[t]) \ Anonymous)
    /\ Goto(t, "handle")
    /\ UNCHANGED <<deliveries, rows, todo, run, history, crashes>>

\* _should_process_event for an event that is new, or that has no id.
Claim(t) ==
    /\ pc[t] = "dedupe"
    /\ Current(t) \notin processed
    /\ processed' = processed \cup ({Current(t)} \ Anonymous)
    /\ Goto(t, "handle")
    /\ UNCHANGED <<deliveries, rows, todo, run, history, crashes>>

\* _should_process_event for a duplicate.
SkipDuplicate(t) ==
    /\ pc[t] = "dedupe"
    /\ Current(t) \in processed
    /\ NextEvent(t)
    /\ UNCHANGED <<deliveries, processed, rows, history, crashes>>

\* The INSERT raises: no handler up to the top of the task, which dies with
\* the rest of its events.
DedupeRaises(t) ==
    /\ "dedupe" \in Faults
    /\ pc[t] = "dedupe"
    /\ Current(t) \in Identified
    /\ casualty' = casualty \cup EventsOf(todo[t])
    /\ todo' = [todo EXCEPT ![t] = <<>>]
    /\ Goto(t, "idle")
    /\ UNCHANGED <<deliveries, processed, rows, run, replied, told, stranded, crashes>>

-----------------------------------------------------------------------------
(* _process_pipeline_event.                                                *)

\* What compose (or the off-topic override, or the fallback taken when compose
\* raises) may ask for.  Off and paused decisions carry no text; the off-topic
\* override turns them into a push all the same.
Plans(decision) ==
    IF decision = "live" THEN {p \in Plan : p.text = "notified" => p.push}
    ELSE {p \in Plan : p.text = "none"}

\* handle_message, persist, _record_state and the choice of the reply.  The
\* mapper stores handled = (action_type # do_nothing).  Recording the state
\* and composing cannot fail as far as this module goes: both are swallowed.
Persist(t) ==
    /\ pc[t] = "handle"
    /\ \E d \in Decision : \E p \in Plans(d) :
        /\ rows' = Append(rows, [event |-> Current(t), decision |-> d,
                                 handled |-> d = "live"])
        /\ run' = [run EXCEPT ![t] =
              [row |-> Len(rows) + 1, decision |-> d, text |-> p.text,
               push |-> p.push, pushed |-> FALSE, tries |-> 0]]
        /\ Goto(t, IF p.push THEN "push"
                   ELSE IF p.text = "none" THEN "settle" ELSE "reply")
    /\ UNCHANGED <<deliveries, processed, todo, history, crashes>>

HandlerRaises(t) ==
    /\ "handler" \in Faults
    /\ pc[t] = "handle"
    /\ PipelineFails(t)

AfterPush(t) == IF run[t].text = "none" THEN "settle" ELSE "reply"

\* _resolve_customer_text, some owner's push was acknowledged.
PushSucceeds(t) ==
    /\ pc[t] = "push"
    /\ run' = [run EXCEPT ![t].pushed = TRUE]
    /\ told' = told \cup {run[t].row}
    /\ Goto(t, AfterPush(t))
    /\ UNCHANGED <<deliveries, processed, rows, todo, replied, stranded,
                   casualty, crashes>>

\* FAULTY VARIANT of PushFails: the customer is told "notified" regardless.
PushFailsUnnoticed(t) ==
    /\ pc[t] = "push"
    /\ Goto(t, AfterPush(t))
    /\ UNCHANGED <<deliveries, processed, rows, todo, run, history, crashes>>

\* _resolve_customer_text, no push was acknowledged (refused, timed out, no
\* owner, no access token): the text that claims one gives way to
\* push_failed_text.
PushFails(t) ==
    /\ pc[t] = "push"
    /\ run' = [run EXCEPT ![t].text = IF @ = "notified" THEN "plain" ELSE @]
    /\ Goto(t, AfterPush(t))
    /\ UNCHANGED <<deliveries, processed, rows, todo, history, crashes>>

\* _owner_user_ids is read outside the try of _send_owner_push.
OwnerLookupRaises(t) ==
    /\ "lookup" \in Faults
    /\ pc[t] = "push"
    /\ PipelineFails(t)

\* One attempt of _send_reply_with_retry is acknowledged.
ReplySucceeds(t) ==
    /\ pc[t] = "reply"
    /\ replied' = replied \cup {run[t].row}
    /\ Goto(t, "settle")
    /\ UNCHANGED <<deliveries, processed, rows, todo, run, told, stranded,
                   casualty, crashes>>

\* FAULTY VARIANT of ReplyFails: the attempts are never used up.
ReplyFailsForever(t) ==
    /\ pc[t] = "reply"
    /\ run' = [run EXCEPT ![t].tries = (@ + 1) % Attempts]
    /\ UNCHANGED <<deliveries, processed, rows, pc, todo, history, crashes>>

\* One attempt fails; after the last the reply counts as not sent.
ReplyFails(t) ==
    /\ pc[t] = "reply"
    /\ run' = [run EXCEPT ![t].tries = @ + 1]
    /\ Goto(t, IF run[t].tries + 1 = Attempts THEN "unsent" ELSE "reply")
    /\ UNCHANGED <<deliveries, processed, rows, todo, history, crashes>>

\* No reply token or no access token: not sent, without an attempt.
ReplyImpossible(t) ==
    /\ pc[t] = "reply"
    /\ run[t].tries = 0
    /\ Goto(t, "unsent")
    /\ UNCHANGED <<deliveries, processed, rows, todo, run, history, crashes>>

-----------------------------------------------------------------------------
(* _correct_handled_if_silent_drop and what follows it.                    *)

\* FAULTY VARIANT of SilentDrop: do_nothing rows are corrected as well.
SilentDropAny(t, reached) == ~reached

\* Its guard: a decision that promised something, and nobody informed.
SilentDrop(t, reached) == ~reached /\ run[t].decision = "live"

\* mark_unhandled; an exception is swallowed, and the flag stays as it was.
Correct(t, reached) ==
    \/ /\ SilentDrop(t, reached)
       /\ rows' = [rows EXCEPT ![run[t].row].handled = FALSE]
       /\ UNCHANGED stranded
    \/ /\ SilentDrop(t, reached)
       /\ "correct" \in Faults
       /\ stranded' = stranded \cup {run[t].row}
       /\ UNCHANGED rows
    \/ /\ ~SilentDrop(t, reached)
       /\ UNCHANGED <<rows, stranded>>

\* FAULTY VARIANT of Settle: a run without a reply counts as a silent drop,
\* the push is forgotten.
SettleForgetsPush(t) ==
    /\ pc[t] = "settle"
    /\ Correct(t, run[t].text # "none")
    /\ NextEvent(t)
    /\ UNCHANGED <<deliveries, processed, replied, told, casualty, crashes>>

\* FAULTY VARIANT of Settle: the flag is not corrected.
SettleUncorrected(t) ==
    /\ pc[t] = "settle"
    /\ NextEvent(t)
    /\ UNCHANGED <<deliveries, processed, rows, history, crashes>>

\* FAULTY VARIANT of Settle: the dedupe row is given up after every run.
SettleAndRollBack(t) ==
    /\ pc[t] = "settle"
    /\ Correct(t, run[t].text # "none" \/ run[t].pushed)
    /\ processed' = processed \ {Current(t)}
    /\ NextEvent(t)
    /\ UNCHANGED <<deliveries, replied, told, casualty, crashes>>

\* The reply went out or there was none to send.
Settle(t) ==
    /\ pc[t] = "settle"
    /\ Correct(t, run[t].text # "none" \/ run[t].pushed)
    /\ NextEvent(t)
    /\ UNCHANGED <<deliveries, processed, replied, told, casualty, crashes>>

\* FAULTY VARIANT of SettleUnsent: the dedupe row goes first, while the run is
\* still at work.
SettleUnsentLate(t) ==
    /\ pc[t] = "unsent"
    /\ Correct(t, run[t].pushed)
    /\ processed' = processed \ {Current(t)}
    /\ Goto(t, "rollback")
    /\ UNCHANGED <<deliveries, todo, run, replied, told, casualty, crashes>>

\* The reply could not be sent: correct the flag, then roll back the dedupe.
SettleUnsent(t) ==
    /\ pc[t] = "unsent"
    /\ Correct(t, run[t].pushed)
    /\ Goto(t, "rollback")
    /\ UNCHANGED <<deliveries, processed, todo, run, replied, told, casualty, crashes>>

\* _rollback_processed_event: a later delivery is processed anew.
Rollback(t) ==
    /\ pc[t] = "rollback"
    /\ processed' = processed \ {Current(t)}
    /\ NextEvent(t)
    /\ UNCHANGED <<deliveries, rows, history, crashes>>

RollbackRaises(t) ==
    /\ "rollback" \in Faults
    /\ pc[t] = "rollback"
    /\ Current(t) \in Identified
    /\ PipelineFails(t)

\* The process dies and restarts: SQLite keeps what was committed.
Crash ==
    /\ "crash" \in Faults
    /\ crashes < MaxCrashes
    /\ crashes' = crashes + 1
    /\ casualty' = casualty \cup UNION {EventsOf(todo[t]) : t \in Task}
    /\ stranded' = stranded \cup ({run[t].row : t \in Task} \ {0})
    /\ pc' = [t \in Task |-> "idle"]
    /\ todo' = [t \in Task |-> <<>>]
    /\ run' = [t \in Task |-> NoRun]
    /\ UNCHANGED <<deliveries, processed, rows, replied, told>>

-----------------------------------------------------------------------------

\* What the thread of task t does by itself, LINE and SQLite answering.
Step(t) ==
    \/ Claim(t) \/ SkipDuplicate(t) \/ DedupeRaises(t)
    \/ Persist(t) \/ HandlerRaises(t)
    \/ PushSucceeds(t) \/ PushFails(t) \/ OwnerLookupRaises(t)
    \/ ReplySucceeds(t) \/ ReplyFails(t) \/ ReplyImpossible(t)
    \/ Settle(t) \/ SettleUnsent(t) \/ Rollback(t) \/ RollbackRaises(t)

Next ==
    \/ \E t \in Task : Receive(t) \/ Step(t)
    \/ Crash

Spec == Init /\ [][Next]_vars

-----------------------------------------------------------------------------
(* What the pipeline guarantees.                                           *)

InRun(t, e) == pc[t] \in Working /\ Current(t) = e

\* No task still works on the row.
AtRest(i) == \A t \in Task : run[t].row # i

Reached == replied \cup told

\* Two deliveries of an event with an id are never worked on at a time,
\* whatever fails and whenever the process restarts: mark_if_new admits one,
\* and only that one takes the dedupe row away, as the last thing it does.
ExclusiveRun ==
    \A e \in Identified : \A t, u \in Task : InRun(t, e) /\ InRun(u, e) => t = u

\* The handled flag tells the truth about every live row no task works on:
\* it is set exactly when a reply or a push of that run was acknowledged.
\* Only a crash, an exception after persist or a failed correction excuses a
\* row (decision_to_db_mapper sets it too early,
\* _correct_handled_if_silent_drop takes it back).
HandledIffReached ==
    \A i \in DOMAIN rows :
        rows[i].decision = "live" /\ AtRest(i) /\ i \notin stranded
            => (rows[i].handled <=> i \in Reached)

\* An event that was delivered, and that no task holds, is in the messages
\* table unless a fault cut one of its deliveries short: skipping duplicates,
\* rolling back and the batches lose nothing by themselves.
StoredOrCasualty ==
    \A e \in Event :
        \/ deliveries[e] = 0
        \/ \E t \in Task : e \in EventsOf(todo[t])
        \/ \E i \in DOMAIN rows : rows[i].event = e
        \/ e \in casualty

\* The dedupe row outlives the answer: once a customer's message has had an
\* acknowledged reply, no later delivery of it is processed again.
RepliedIsFinal ==
    [][\A e \in Identified :
         (\E i \in replied : rows[i].event = e)
            => \A j \in DOMAIN rows' \ DOMAIN rows : rows'[j].event # e]_vars

\* "Notified" is only ever said to a customer after an owner's push was
\* acknowledged (ComposedReply, _resolve_customer_text).
NotifiedIsTrue ==
    \A t \in Task :
        pc[t] = "reply" /\ run[t].text = "notified" => run[t].row \in told

-----------------------------------------------------------------------------
(* The inductive invariant behind ExclusiveRun, HandledIffReached and      *)
(* RepliedIsFinal (WebhookProofs).                                         *)

\* A task that is at work has an event; only between persist and the end of
\* the run has it a row, which is its own.
HasRow == {"push", "reply", "settle", "unsent", "rollback"}

RunShape ==
    \A t \in Task :
        /\ pc[t] # "idle" => todo[t] # <<>>
        /\ pc[t] \in HasRow => /\ run[t].row \in DOMAIN rows
                              /\ rows[run[t].row].event = Current(t)
                              /\ rows[run[t].row].decision = run[t].decision
        /\ pc[t] \notin HasRow => run[t].row = 0

OwnRow ==
    \A t, u \in Task : run[t].row = run[u].row /\ run[t].row # 0 => t = u

\* Work on an event with an id holds its dedupe row.
ClaimHeld ==
    \A t \in Task : pc[t] \in Working /\ Current(t) \in Identified
        => Current(t) \in processed

\* What is known of a run and its row, at each point of the run.
RunFacts(t) ==
    /\ pc[t] # "rollback" =>
          (rows[run[t].row].handled <=> run[t].decision = "live")
    /\ pc[t] = "rollback" /\ run[t].decision = "live"
          => \/ rows[run[t].row].handled <=> run[t].pushed
             \/ run[t].row \in stranded
    /\ run[t].pushed <=> run[t].row \in told
    /\ run[t].row \in replied <=> pc[t] = "settle" /\ run[t].text # "none"
    /\ pc[t] = "reply" => run[t].text # "none"
    /\ pc[t] = "reply" /\ run[t].text = "notified" => run[t].pushed

FlagWhileRunning == \A t \in Task : pc[t] \in HasRow => RunFacts(t)

\* A replied event keeps its dedupe row, and only the run that got the reply
\* may still be finishing.
RepliedHeld ==
    \A i \in replied : rows[i].event \in Identified =>
        /\ rows[i].event \in processed
        /\ \A t \in Task : InRun(t, rows[i].event) => run[t].row = i

IInv ==
    /\ TypeOK
    /\ RunShape
    /\ OwnRow
    /\ ClaimHeld
    /\ ExclusiveRun
    /\ FlagWhileRunning
    /\ HandledIffReached
    /\ RepliedHeld

-----------------------------------------------------------------------------
(* The abstract specification.                                             *)

\* The fate of an event, read off the tables and the tasks.
FateOf(e) ==
    IF \E i \in Reached : rows[i].event = e THEN "told"
    ELSE IF \E t \in Task : e \in EventsOf(todo[t]) THEN "working"
    ELSE IF \E i \in DOMAIN rows : rows[i].event = e /\ ~rows[i].handled
         THEN "pending"
    ELSE IF e \in casualty \/ \E i \in stranded : rows[i].event = e THEN "cut"
    ELSE "unseen"

Promise == INSTANCE MessagePromise WITH
    fate <- [e \in Event |-> FateOf(e)], Faulty <- Faults # {}

\* The pipeline keeps the promise of MessagePromise: in particular a message
\* that reached someone never goes back, and with Faults = {} every message
\* that was taken up ends told or pending.
KeepsPromise == Promise!Spec

=============================================================================
