------------------------------ MODULE Backlog ------------------------------
(***************************************************************************)
(* The owner's side of app/api/line_webhook_routes.py, composed with the   *)
(* customer pipeline through the messages table: the pending command, which*)
(* shows the owner the messages nobody was told of and closes the ones it  *)
(* showed, and the nightly digest loop of app/main.py, which tells her how *)
(* many there are.                                                         *)
(*                                                                         *)
(* A thread that answers an owner reads the table, calls LINE, and writes  *)
(* the table, with other threads at work in between.  The digest loop is   *)
(* one thread.  last_digest_sent_date is durable, the rest of its state is *)
(* lost in a crash.                                                        *)
(*                                                                         *)
(* Abstracted: how much text fits into a reply.  The code keeps the most   *)
(* recent entries that fit, at least one; here any number of them may.     *)
(***************************************************************************)
EXTENDS Webhook

CONSTANTS
    Owner,      \* threads that answer an owner's pending command
    Limit,      \* _DIGEST_UNHANDLED_LIMIT
    DeskFaults, \* "close", "mark": the UPDATE of _close_pending_rows or
                \* mark_digest_sent raises
    Nights      \* BOUND: auto-on windows

ASSUME BacklogAssumption ==
    /\ Limit \in Nat \ {0}
    /\ DeskFaults \subseteq {"close", "mark"}
    /\ Nights \in Nat

VARIABLES
    ask,        \* where each owner's thread is
    showing,    \* the rows its reply shows
    window,     \* _digest_window_start_date: the night that is on, 0 for none
    night,      \* the last night that began
    sentDate,   \* last_digest_sent_date, 0 for NULL
    digest,     \* where the digest loop is, and the window date it read
    shown,      \* history: rows shown in an acknowledged reply
    digests,    \* history: acknowledged digest pushes per night
    marksLost   \* history: digests that went out and were not recorded

owners == <<ask, showing, shown>>
clock == <<window, night>>
loop == <<sentDate, digest, digests, marksLost>>
deskVars == <<vars, owners, clock, loop>>

Idle == [at |-> "idle", date |-> 0]

DeskTypeOK ==
    /\ TypeOK
    /\ ask \in [Owner -> {"idle", "reply", "close"}]
    /\ showing \in [Owner -> SUBSET DOMAIN rows]
    /\ night \in 0..Nights
    /\ window \in {0, night}
    /\ sentDate \in 0..night
    /\ digest \in [at : {"idle", "read", "push", "mark"}, date : 0..night]
    /\ shown \subseteq DOMAIN rows
    /\ digests \in [1..Nights -> Nat]
    /\ marksLost \in SUBSET (1..Nights)

DeskInit ==
    /\ Init
    /\ ask = [o \in Owner |-> "idle"]
    /\ showing = [o \in Owner |-> {}]
    /\ window = 0
    /\ night = 0
    /\ sentDate = 0
    /\ digest = Idle
    /\ shown = {}
    /\ digests = [n \in 1..Nights |-> 0]
    /\ marksLost = {}

-----------------------------------------------------------------------------
(* The pending command.                                                    *)

\* list_unhandled: not handled and not under a hold, the oldest Limit.
Pending == {i \in DOMAIN rows : ~rows[i].handled /\ rows[i].decision # "paused"}
Oldest(S) == {i \in S : Cardinality({j \in S : j < i}) < Limit}
ListUnhandled == Oldest(Pending)

\* _truncate_rows_to_char_limit: the most recent ones that fit.
Truncations(S) == IF S = {} THEN {{}} ELSE {{i \in S : i >= first} : first \in S}

\* _pending_rows and _format_owner_pending_reply.
AskPending(o) ==
    /\ ask[o] = "idle"
    /\ \E kept \in Truncations(ListUnhandled) :
          showing' = [showing EXCEPT ![o] = kept]
    /\ ask' = [ask EXCEPT ![o] = "reply"]
    /\ UNCHANGED <<vars, shown, clock, loop>>

\* FAULTY VARIANT of AnswerSucceeds: the rows are not closed.
AnswerClosesNothing(o) ==
    /\ ask[o] = "reply"
    /\ shown' = shown \cup showing[o]
    /\ ask' = [ask EXCEPT ![o] = "idle"]
    /\ UNCHANGED <<vars, showing, clock, loop>>

\* _send_reply is acknowledged; an empty list is not closed.
AnswerSucceeds(o) ==
    /\ ask[o] = "reply"
    /\ shown' = shown \cup showing[o]
    /\ ask' = [ask EXCEPT ![o] = IF showing[o] = {} THEN "idle" ELSE "close"]
    /\ UNCHANGED <<vars, showing, clock, loop>>

\* FAULTY VARIANT of AnswerFails: the result of the send is ignored.
AnswerFailsUnnoticed(o) ==
    /\ ask[o] = "reply"
    /\ ask' = [ask EXCEPT ![o] = "close"]
    /\ UNCHANGED <<vars, showing, shown, clock, loop>>

\* _send_reply fails: nothing is closed.
AnswerFails(o) ==
    /\ ask[o] = "reply"
    /\ ask' = [ask EXCEPT ![o] = "idle"]
    /\ showing' = [showing EXCEPT ![o] = {}]
    /\ UNCHANGED <<vars, shown, clock, loop>>

\* FAULTY VARIANT of ClosePending: whatever is pending by now is closed.
CloseAllPending(o) ==
    /\ ask[o] = "close"
    /\ rows' = [i \in DOMAIN rows |->
          IF i \in Pending THEN [rows[i] EXCEPT !.handled = TRUE] ELSE rows[i]]
    /\ ask' = [ask EXCEPT ![o] = "idle"]
    /\ showing' = [showing EXCEPT ![o] = {}]
    /\ UNCHANGED <<deliveries, processed, pc, todo, run, history, crashes,
                   shown, clock, loop>>

\* mark_many_handled for the rows the reply showed.
ClosePending(o) ==
    /\ ask[o] = "close"
    /\ rows' = [i \in DOMAIN rows |->
          IF i \in showing[o] THEN [rows[i] EXCEPT !.handled = TRUE] ELSE rows[i]]
    /\ ask' = [ask EXCEPT ![o] = "idle"]
    /\ showing' = [showing EXCEPT ![o] = {}]
    /\ UNCHANGED <<deliveries, processed, pc, todo, run, history, crashes,
                   shown, clock, loop>>

\* The UPDATE raises, the exception is swallowed.
CloseRaises(o) ==
    /\ "close" \in DeskFaults
    /\ ask[o] = "close"
    /\ ask' = [ask EXCEPT ![o] = "idle"]
    /\ showing' = [showing EXCEPT ![o] = {}]
    /\ UNCHANGED <<vars, shown, clock, loop>>

OwnerStep(o) ==
    AskPending(o) \/ AnswerSucceeds(o) \/ AnswerFails(o) \/ ClosePending(o) \/ CloseRaises(o)

-----------------------------------------------------------------------------
(* The nightly digest.                                                     *)

WindowOpens ==
    /\ window = 0
    /\ night < Nights
    /\ night' = night + 1
    /\ window' = night + 1
    /\ UNCHANGED <<vars, owners, loop>>

WindowCloses ==
    /\ window # 0
    /\ window' = 0
    /\ UNCHANGED <<vars, owners, night, loop>>

\* FAULTY VARIANT of CheckDigest: last_digest_sent_date is not looked at.
CheckDigestAlways ==
    /\ digest = Idle
    /\ window # 0
    /\ digest' = [at |-> "read", date |-> window]
    /\ UNCHANGED <<vars, owners, clock, sentDate, digests, marksLost>>

\* FAULTY VARIANT of CheckDigest: after midnight the night is misdated.
CheckDigestTomorrow ==
    /\ digest = Idle
    /\ window \notin {0, sentDate}
    /\ digest' = [at |-> "read", date |-> window + 1]
    /\ UNCHANGED <<vars, owners, clock, sentDate, digests, marksLost>>

\* A tick of _nightly_digest_loop reads the state and the clock, and goes on
\* inside a window whose digest is not recorded.
CheckDigest ==
    /\ digest = Idle
    /\ window \notin {0, sentDate}
    /\ digest' = [at |-> "read", date |-> window]
    /\ UNCHANGED <<vars, owners, clock, sentDate, digests, marksLost>>

\* _pending_rows: with nothing pending the night counts as reported.
CountPending ==
    /\ digest.at = "read"
    /\ IF ListUnhandled = {}
       THEN /\ sentDate' = digest.date
            /\ digest' = Idle
       ELSE /\ digest' = [digest EXCEPT !.at = "push"]
            /\ UNCHANGED sentDate
    /\ UNCHANGED <<vars, owners, clock, digests, marksLost>>

\* _send_owner_push is acknowledged by LINE for some owner.
DigestSucceeds ==
    /\ digest.at = "push"
    /\ digests' = [digests EXCEPT ![digest.date] = @ + 1]
    /\ digest' = [digest EXCEPT !.at = "mark"]
    /\ UNCHANGED <<vars, owners, clock, sentDate, marksLost>>

\* It is not: the next tick tries again.
DigestFails ==
    /\ digest.at = "push"
    /\ digest' = Idle
    /\ UNCHANGED <<vars, owners, clock, sentDate, digests, marksLost>>

\* mark_digest_sent.
MarkDigest ==
    /\ digest.at = "mark"
    /\ sentDate' = digest.date
    /\ digest' = Idle
    /\ UNCHANGED <<vars, owners, clock, digests, marksLost>>

\* It raises: logged, the next tick starts over.  BOUND: once per night.
MarkRaises ==
    /\ "mark" \in DeskFaults
    /\ digest.at = "mark"
    /\ digest.date \notin marksLost
    /\ marksLost' = marksLost \cup {digest.date}
    /\ digest' = Idle
    /\ UNCHANGED <<vars, owners, clock, sentDate, digests>>

DigestStep ==
    \/ CheckDigest \/ CountPending \/ DigestSucceeds \/ DigestFails
    \/ MarkDigest \/ MarkRaises

-----------------------------------------------------------------------------

\* The process dies: the owners' threads and the digest loop go with it.
DeskCrash ==
    /\ Crash
    /\ ask' = [o \in Owner |-> "idle"]
    /\ showing' = [o \in Owner |-> {}]
    /\ digest' = Idle
    /\ UNCHANGED <<shown, clock, sentDate, digests, marksLost>>

Pipeline(t) == (Receive(t) \/ Step(t)) /\ UNCHANGED <<owners, clock, loop>>

DeskNext ==
    \/ \E t \in Task : Pipeline(t)
    \/ \E o \in Owner : OwnerStep(o)
    \/ WindowOpens \/ WindowCloses
    \/ DigestStep
    \/ DeskCrash

DeskSpec == DeskInit /\ [][DeskNext]_deskVars

\* Threads go on: no step waits for another thread, and calls to LINE time
\* out.  The owner asks again and again, and LINE does not refuse every answer
\* to her.  That LINE delivers anything else is not assumed.
DeskFairness ==
    /\ \A t \in Task : WF_deskVars(Step(t) /\ UNCHANGED <<owners, clock, loop>>)
    /\ \A o \in Owner : WF_deskVars(OwnerStep(o)) /\ SF_deskVars(AnswerSucceeds(o))

FairDeskSpec == DeskSpec /\ DeskFairness

-----------------------------------------------------------------------------
(* What the desk guarantees.                                               *)

\* A row is off the backlog only if the customer was answered, an owner's
\* push went through, or an acknowledged reply showed it to an owner; a live
\* row that reached someone is not on it, and one under a hold is never shown.
\* Rows whose run a fault cut short are exempt.
BacklogIsHonest ==
    \A i \in DOMAIN rows : AtRest(i) /\ i \notin stranded =>
        /\ rows[i].handled => i \in Reached \cup shown
        /\ rows[i].decision = "live" /\ ~rows[i].handled => i \notin Reached
        /\ rows[i].decision = "paused" => ~rows[i].handled /\ i \notin shown

\* The digest goes out at most once a night, plus once for every time the
\* process died or the record of it was lost.
DigestOncePerFault ==
    \A n \in 1..Nights :
        digests[n] <= 1 + crashes + (IF n \in marksLost THEN 1 ELSE 0)

\* A closed message was on an owner's screen, and what left the backlog never
\* comes back: mark_unhandled and mark_many_handled never fight over a row.
ClosedStaysClosed ==
    [][\A i \in shown : rows[i].handled => rows'[i].handled]_deskVars

\* An owner who keeps asking empties the backlog once the customers fall
\* silent: an answer closes what it shows, so that the page of the oldest,
\* cut down to the most recent that fit, gets to the oldest in the end.
\* Nothing of the kind holds while they keep writing: the page is of the
\* oldest, but within it each new message may take the place of an old one,
\* which is then never shown.
CustomersFallSilent == <>[][Len(rows') = Len(rows)]_deskVars
PendingIsShown == CustomersFallSilent => <>[](Pending = {})

\* Every message LINE delivered comes to rest: no thread holds it any more,
\* and somebody was told, or it stays in the table for the owner, unless a
\* fault cut its delivery short.
Accounted(e) ==
    /\ \A t \in Task : e \notin EventsOf(todo[t])
    /\ \/ e \in casualty
       \/ \E i \in DOMAIN rows :
             /\ rows[i].event = e
             /\ i \in Reached \cup shown \cup stranded \/ ~rows[i].handled

EventuallyAccounted == \A e \in Event : deliveries[e] > 0 ~> Accounted(e)

\* The fate of a message once the owner's screen counts.
DeskFateOf(e) ==
    IF \E i \in Reached \cup shown : rows[i].event = e THEN "told" ELSE FateOf(e)

DeskPromise == INSTANCE MessagePromise WITH
    fate <- [e \in Event |-> DeskFateOf(e)], Faulty <- Faults # {}

\* The desk as a whole keeps the promise: a pending message stays pending
\* until an owner reads it, and told after that.
DeskKeepsPromise == DeskPromise!Spec

=============================================================================
