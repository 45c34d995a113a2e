--------------------------- MODULE OperationMode ---------------------------
(***************************************************************************)
(* Who answers the customer: the on/off override of                        *)
(* services/operation_mode_service.py over the tenant's schedule, and the  *)
(* hold on one customer of services/conversation_handoff_service.py.       *)
(*                                                                         *)
(* Readers are pipeline threads that ask _system_state of InquiryService   *)
(* (hold first, then override and schedule); writers are threads that carry*)
(* out an owner's command.  A row is read in one transaction, the clock is *)
(* looked at after it, and a row found expired is cleared in a transaction *)
(* of its own: others get in between.  All rows are durable and the threads*)
(* keep nothing, so a crash is a thread that never goes on.                *)
(***************************************************************************)
EXTENDS Schedule

CONSTANTS
    Reader,   \* pipeline threads with a message of the customer
    Writer,   \* threads with one command of an owner each
    MaxNow    \* BOUND: the last tick

VARIABLES
    schedule,  \* auto_on_start_time and auto_on_end_time
    now,
    override,  \* manual_mode and manual_valid_until, mode "none" for NULL
    hold,      \* paused_until of the customer's hold row, 0 for no row
    at,        \* where each thread is
    seen,      \* the row it read: an override, a hold, or the command's mode
    answer,    \* what a reader's _system_state returns in this step
    order,     \* history: the last command and the last hold of an owner
    raced,     \* history: which of them a cleanup may have taken with it
    witness    \* history: what was so at some time since a reader began

vars == <<schedule, now, override, hold, at, seen, answer, order, raced, witness>>

Thread == Reader \cup Writer

NoOverride == [mode |-> "none", until |-> 0]
Overrides == {NoOverride} \cup [mode : {"on", "off"}, until : Nat \ {0}]

ModeTypeOK ==
    /\ schedule \in Schedules
    /\ now \in Nat
    /\ override \in Overrides
    /\ hold \in Nat
    /\ at \in [Thread -> {"idle", "done", "hold", "unhold", "mode", "unmode", "decide",
                          "load", "unload", "set", "toggle", "retoggle", "pause", "resume"}]
    /\ seen \in [Thread -> [override : Overrides, hold : Nat, command : {"none", "on", "off"},
                            time : Nat]]
    /\ answer \in [Reader -> {"none", "on", "off", "paused"}]
    /\ order \in [override : Overrides, hold : Nat]
    /\ raced \subseteq {"override", "hold"}
    /\ witness \in [Reader -> SUBSET {"on", "off", "free", "paused", "raced"}]

NoAnswer == [r \in Reader |-> "none"]
NothingSeen == [override |-> NoOverride, hold |-> 0, command |-> "none", time |-> 0]

Init ==
    /\ schedule \in Schedules
    /\ now = Day
    /\ override = NoOverride
    /\ hold = 0
    /\ at = [t \in Thread |-> "idle"]
    /\ seen = [t \in Thread |-> NothingSeen]
    /\ answer = NoAnswer
    /\ order = [override |-> NoOverride, hold |-> 0]
    /\ raced = {}
    /\ witness = [r \in Reader |-> {}]

Goto(t, label) == at' = [at EXCEPT ![t] = label]

\* A thread at rest remembers nothing.
Done(t) ==
    /\ Goto(t, IF t \in Reader THEN "idle" ELSE "done")
    /\ seen' = [seen EXCEPT ![t] = NothingSeen]

rows == <<override, hold>>
ghosts == <<order, raced>>

\* The override with its expiry, over the schedule: resolve_effective_mode.
EffectiveMode(o, time) ==
    IF o.mode # "none" /\ time < o.until THEN o.mode
    ELSE IF ScheduleOn(schedule, time) THEN "on" ELSE "off"

Expired(o, time) == o.mode # "none" /\ time >= o.until

-----------------------------------------------------------------------------
(* _system_state, asked by the pipeline for a customer's message.          *)

\* is_paused reads the hold.
AskHold(r) ==
    /\ at[r] = "idle"
    /\ seen' = [seen EXCEPT ![r].hold = hold]
    /\ Goto(r, "hold")
    /\ UNCHANGED <<schedule, now, rows, ghosts>>

\* It is on: the customer is the owner's.
AnswerPaused(r) ==
    /\ at[r] = "hold"
    /\ now < seen[r].hold
    /\ answer' = [NoAnswer EXCEPT ![r] = "paused"]
    /\ Done(r)
    /\ UNCHANGED <<schedule, now, rows, ghosts>>

\* FAULTY VARIANT of HoldIsOver: the hold is cleared when there was none, too.
HoldIsOverClearsAlways(r) ==
    /\ at[r] = "hold"
    /\ now >= seen[r].hold
    /\ Goto(r, "unhold")
    /\ UNCHANGED <<schedule, now, rows, seen, ghosts>>

\* There is none, or it expired: an expired one is cleared first.
HoldIsOver(r) ==
    /\ at[r] = "hold"
    /\ now >= seen[r].hold
    /\ Goto(r, IF seen[r].hold = 0 THEN "mode" ELSE "unhold")
    /\ UNCHANGED <<schedule, now, rows, seen, ghosts>>

ClearHold(r) ==
    /\ at[r] = "unhold"
    /\ hold' = 0
    /\ Goto(r, "mode")
    /\ UNCHANGED <<schedule, now, override, seen, ghosts>>

\* is_system_active reads the override.
AskMode(r) ==
    /\ at[r] = "mode"
    /\ seen' = [seen EXCEPT ![r].override = override]
    /\ Goto(r, "decide")
    /\ UNCHANGED <<schedule, now, rows, ghosts>>

\* FAULTY VARIANT of DecideMode: an expired override counts once more.
DecideModeWithoutExpiry(r) ==
    /\ at[r] = "decide"
    /\ answer' = [NoAnswer EXCEPT ![r] =
          IF seen[r].override # NoOverride THEN seen[r].override.mode
          ELSE EffectiveMode(NoOverride, now)]
    /\ IF Expired(seen[r].override, now)
       THEN Goto(r, "unmode") /\ UNCHANGED seen
       ELSE Done(r)
    /\ UNCHANGED <<schedule, now, rows, ghosts>>

\* An expired override is cleared, here and in the row (unmode).
DecideMode(r) ==
    /\ at[r] = "decide"
    /\ answer' = [NoAnswer EXCEPT ![r] = EffectiveMode(seen[r].override, now)]
    /\ IF Expired(seen[r].override, now)
       THEN Goto(r, "unmode") /\ UNCHANGED seen
       ELSE Done(r)
    /\ UNCHANGED <<schedule, now, rows, ghosts>>

\* FAULTY VARIANT of ClearOverride: the end of the override stays behind.
ClearModeOnly(r) ==
    /\ at[r] = "unmode"
    /\ override' = [override EXCEPT !.mode = "none"]
    /\ Done(r)
    /\ UNCHANGED <<schedule, now, hold, ghosts>>

\* clear_manual_override.
ClearOverride(r) ==
    /\ at[r] = "unmode"
    /\ override' = NoOverride
    /\ Done(r)
    /\ UNCHANGED <<schedule, now, hold, ghosts>>

Answer(r) == AnswerPaused(r) \/ DecideMode(r)
Read(r) == AskHold(r) \/ HoldIsOver(r) \/ ClearHold(r) \/ AskMode(r) \/ ClearOverride(r)

-----------------------------------------------------------------------------
(* The owners' commands.                                                   *)

\* turn_on or turn_off: load the row, look at the clock.
LoadOverride(w) ==
    /\ at[w] = "idle"
    /\ \E mode \in {"on", "off"} :
          seen' = [seen EXCEPT ![w].override = override, ![w].command = mode]
    /\ Goto(w, "load")
    /\ UNCHANGED <<schedule, now, rows, ghosts>>

LookAtClock(w) ==
    /\ at[w] = "load"
    /\ seen' = [seen EXCEPT ![w].time = now]
    /\ Goto(w, IF Expired(seen[w].override, now) THEN "unload" ELSE "set")
    /\ UNCHANGED <<schedule, now, rows, ghosts>>

CleanUpFirst(w) ==
    /\ at[w] = "unload"
    /\ override' = NoOverride
    /\ Goto(w, "set")
    /\ UNCHANGED <<schedule, now, hold, seen, ghosts>>

\* Other threads that hold an expired override in hand, and will clear
\* whatever is in the row by then.
LateClearsOverride(w) ==
    \E t \in Thread \ {w} :
        \/ at[t] \in {"unmode", "unload"}
        \/ at[t] \in {"decide", "load"} /\ seen[t].override.mode # "none"

LateClearsHold(w) ==
    \E t \in Thread \ {w} :
        \/ at[t] \in {"unhold", "retoggle", "resume"}
        \/ at[t] \in {"hold", "toggle"} /\ seen[t].hold # 0

\* set_manual_override, up to the boundary after the time that was read.
SetOverride(w) ==
    /\ at[w] = "set"
    /\ override' = [mode |-> seen[w].command, until |-> NextBoundary(schedule, seen[w].time)]
    /\ order' = [order EXCEPT !.override = override']
    /\ raced' = IF LateClearsOverride(w) THEN raced \cup {"override"}
                ELSE raced \ {"override"}
    /\ Done(w)
    /\ UNCHANGED <<schedule, now, hold>>

\* toggle: is_paused reads the hold.
AskToggle(w) ==
    /\ at[w] = "idle"
    /\ seen' = [seen EXCEPT ![w].hold = hold]
    /\ Goto(w, "toggle")
    /\ UNCHANGED <<schedule, now, rows, ghosts>>

DecideToggle(w) ==
    /\ at[w] = "toggle"
    /\ Goto(w, IF now < seen[w].hold THEN "resume"
               ELSE IF seen[w].hold = 0 THEN "pause" ELSE "retoggle")
    /\ UNCHANGED <<schedule, now, rows, seen, ghosts>>

\* is_paused clears the expired hold.
ClearOldHold(w) ==
    /\ at[w] = "retoggle"
    /\ hold' = 0
    /\ Goto(w, "pause")
    /\ UNCHANGED <<schedule, now, override, seen, ghosts>>

\* Resume: the hold is deleted, and the owner is told so.
Resume(w) ==
    /\ at[w] = "resume"
    /\ hold' = 0
    /\ order' = [order EXCEPT !.hold = 0]
    /\ raced' = raced \ {"hold"}
    /\ Done(w)
    /\ UNCHANGED <<schedule, now, override>>

\* upsert_pause, to the end of the window that is on or comes next.
Pause(w) ==
    /\ at[w] = "pause"
    /\ hold' = NextWindowEnd(schedule, now)
    /\ order' = [order EXCEPT !.hold = hold']
    /\ raced' = IF LateClearsHold(w) THEN raced \cup {"hold"} ELSE raced \ {"hold"}
    /\ Done(w)
    /\ UNCHANGED <<schedule, now, override>>

Write(w) ==
    \/ LoadOverride(w) \/ LookAtClock(w) \/ CleanUpFirst(w) \/ SetOverride(w)
    \/ AskToggle(w) \/ DecideToggle(w) \/ ClearOldHold(w) \/ Resume(w) \/ Pause(w)

Tick ==
    /\ now < MaxNow
    /\ now' = now + 1
    /\ UNCHANGED <<schedule, rows, at, seen, ghosts>>

-----------------------------------------------------------------------------

\* What is so by the owners' orders and the clock, whatever the rows say, as
\* long as no command was given in a race.
Orders ==
    {EffectiveMode(order.override, now)}
        \cup {IF now < order.hold THEN "paused" ELSE "free"}
        \cup {"raced" : race \in raced}

\* History: what was so from a reader's first read to its answer.
Observe ==
    witness' = [r \in Reader |->
        CASE at[r] = "idle" /\ at'[r] = "hold" -> Orders
          [] at[r] \in {"hold", "unhold", "mode", "decide"} -> witness[r] \cup Orders'
          [] OTHER -> {}]

Next ==
    /\ \/ \E r \in Reader : Answer(r)
       \/ (\E r \in Reader : Read(r)) /\ answer' = NoAnswer
       \/ (\E w \in Writer : Write(w)) /\ answer' = NoAnswer
       \/ Tick /\ answer' = NoAnswer
    /\ Observe

Spec == Init /\ [][Next]_vars

-----------------------------------------------------------------------------
(* What the modes guarantee.                                               *)

\* The clock arithmetic does what it is for, at every time and for every
\* schedule: boundaries are the next flip, a hold covers the window, the
\* digest has one date per window.  The record, which does not ask for the
\* schedule, covers the last of its hard-coded nights.
ScheduleAgrees ==
    /\ BoundaryIsNextFlip(schedule, now)
    /\ HoldCoversWindow(schedule, now)
    /\ DigestIsPerWindow(schedule, now)
    /\ RecordIsLastWindow(now)

\* An owner's command stands until its time is up or the next command, unless
\* a thread had the expired row in hand when it was given: nothing else takes
\* a fresh override or a fresh hold away.
CommandStandsUnlessRaced ==
    /\ now < order.override.until /\ "override" \notin raced => override = order.override
    /\ now < order.hold /\ "hold" \notin raced => hold = order.hold

\* What a reader answers was so at some time while it read, by the orders of
\* the owners and the schedule: a customer under a hold is left alone, an
\* override is obeyed, and neither outlives its time.
AnswerWasTrue ==
    \A r \in Reader : "raced" \notin witness[r] =>
        /\ answer[r] \in {"on", "off"} => {answer[r], "free"} \subseteq witness[r]
        /\ answer[r] = "paused" => "paused" \in witness[r]

=============================================================================
