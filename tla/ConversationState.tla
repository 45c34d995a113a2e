------------------------- MODULE ConversationState -------------------------
(***************************************************************************)
(* The memory of one customer's conversation                               *)
(* (services/conversation_state_service.py on top of                       *)
(* repositories/conversation_state_repository.py), as the pipeline threads *)
(* of the same customer use it: each reads the active row, merges the slots*)
(* of its message, replies from the row it holds in hand, and then marks   *)
(* the row completed or clears its off flag.                               *)
(*                                                                         *)
(* Every SQL statement is a transaction of its own, except the two of      *)
(* supersede; between them other threads of the customer get in.  Rows of  *)
(* other customers are never touched: every statement names the user or    *)
(* the id of a row read under that name.                                   *)
(*                                                                         *)
(* A row holds the slots that were stated so far, as a function on their   *)
(* names: a slot is NULL when it is not in the domain.  What the parsers   *)
(* and the LLM read out of a text is given with the message, or chosen.    *)
(***************************************************************************)
EXTENDS Naturals, Sequences, FiniteSets

CONSTANTS
    Thread,      \* pipeline threads that handle the customer's messages
    Message,     \* what the customer may write
    MaxRuns,     \* BOUND: messages handled
    MaxTimeouts, \* BOUND: rows that reach their expires_at
    MaxCrashes   \* BOUND: crashes of the process

\* _SLOT_KEYS: dates stands for the full range, adults for the guest counts,
\* pet for has_pet.  intent is stored with them but does not count as a slot.
SlotKeys == {"dates", "adults", "rooms", "pet", "pets"}
Columns == SlotKeys \cup {"intent"}

\* slots: log_payload_to_state_slots.  routed: the message was confidently
\* classed as something else, or the LLM rejected a booking intent.  off:
\* was_system_off.  bare: it talks of rooms and has no labelled headcount.
\* several: it has more than one room figure.  asRooms, asPets: what it may be
\* read as when it answers the room or the pet question.
MessageFields == {"slots", "routed", "off", "bare", "several", "asRooms", "asPets"}

ASSUME ConversationAssumption ==
    /\ \A m \in Message : /\ DOMAIN m = MessageFields
                          /\ DOMAIN m.slots \subseteq Columns
                          /\ "intent" \in DOMAIN m.slots
                          /\ {m.routed, m.off, m.bare, m.several} \subseteq BOOLEAN
    /\ MaxRuns \in Nat /\ MaxTimeouts \in Nat /\ MaxCrashes \in Nat

VARIABLES
    rows,     \* conversation_states of the customer
    at,       \* where each thread is
    msg,      \* its message
    hand,     \* the row it holds in hand, row 0 for None
    raced,    \* history: the rows changed under the thread since it began
    stated,   \* history: for each row, what was recorded in it, in order, and
              \* whether a nudge about it is due
    runs, timeouts, crashes

vars == <<rows, at, msg, hand, raced, stated, runs, timeouts, crashes>>

-----------------------------------------------------------------------------
(* Rows and slots.                                                         *)

\* current: expires_at > now.  off: accumulated_while_off.
Row(status, slots, off) ==
    [status |-> status, slots |-> slots, off |-> off, current |-> TRUE]

NoHand == [row |-> 0, slots |-> <<>>, off |-> FALSE]

\* COALESCE in SQL, _merge_row in Python: what is stated overwrites.
Merge(old, new) ==
    [k \in DOMAIN old \cup DOMAIN new |-> IF k \in DOMAIN new THEN new[k] ELSE old[k]]

Without(slots, keys) == [k \in DOMAIN slots \ keys |-> slots[k]]

HasSlot(slots) == DOMAIN slots \cap SlotKeys # {}

QuoteRelevant(slots) == "intent" \in DOMAIN slots /\ slots["intent"] = "quote"

Open(i) == rows[i].status = "in_progress"

\* _should_open.
ShouldOpen(m) ==
    QuoteRelevant(m.slots) \/ (~m.routed /\ "dates" \in DOMAIN m.slots)

\* _is_fresh_full_date_range: both the dates and the headcount differ.
FreshRange(slots, active) ==
    /\ {"dates", "adults"} \subseteq DOMAIN slots \cap DOMAIN active
    /\ slots["dates"] # active["dates"]
    /\ slots["adults"] # active["adults"]

\* compute_missing_fields.
Missing(slots) ==
    ({"dates", "adults"} \ DOMAIN slots)
        \cup (IF "pet" \in DOMAIN slots /\ slots["pet"] = "yes" THEN {"pets"} \ DOMAIN slots
              ELSE {})

WaitingForRooms(active) == "rooms" \notin DOMAIN active /\ Missing(active) = {}
WaitingForPets(active) == Missing(active) = {"pets"}

\* _fill_contextual_room_count: an answer to the room question is read by the
\* rules or the LLM; without either, several figures are nobody's answer.
RoomReadings(m, active) ==
    LET own == IF m.bare THEN Without(m.slots, {"adults"}) ELSE m.slots
    IN  IF ~WaitingForRooms(active) THEN {m.slots}
        ELSE {Merge(own, [rooms |-> n]) : n \in m.asRooms}
                \cup {IF m.several THEN Without(own, {"rooms"}) ELSE own}

\* _fill_contextual_pet_count.
PetReadings(m, slots, active) ==
    IF "pets" \in DOMAIN slots \/ ~WaitingForPets(active) \/ m.asPets = {} THEN {slots}
    ELSE {Merge(slots, [pets |-> n]) : n \in m.asPets}

\* _guard_intent_downgrade.
GuardIntent(slots, active) ==
    IF QuoteRelevant(active) /\ ~QuoteRelevant(slots) THEN Without(slots, {"intent"})
    ELSE slots

Readings(m, active) ==
    {GuardIntent(s, active) :
        s \in UNION {PetReadings(m, r, active) : r \in RoomReadings(m, active)}}

-----------------------------------------------------------------------------

StateTypeOK ==
    /\ \A i \in DOMAIN rows :
          /\ rows[i].status \in {"in_progress", "completed", "expired"}
          /\ DOMAIN rows[i].slots \subseteq Columns
    /\ \A i, j \in DOMAIN rows : Open(i) /\ Open(j) => i = j
    /\ at \in [Thread -> {"idle", "read", "write", "reply", "lost", "complete", "clear"}]
    /\ \A t \in Thread : hand[t].row \in 0..Len(rows)
    /\ raced \in [Thread -> BOOLEAN]
    /\ DOMAIN stated = DOMAIN rows

Init ==
    /\ rows = <<>>
    /\ at = [t \in Thread |-> "idle"]
    /\ msg \in [Thread -> {CHOOSE m \in Message : TRUE}]
    /\ hand = [t \in Thread |-> NoHand]
    /\ raced = [t \in Thread |-> FALSE]
    /\ stated = <<>>
    /\ runs = 0
    /\ timeouts = 0
    /\ crashes = 0

\* What the history keeps of a message: the text, what was stored of it, and
\* that the customer was not yet shown it again if it was said while off.
Record(t, slots) == [msg |-> msg[t], slots |-> slots, due |-> msg[t].off]

NoneDue(i) == [stated EXCEPT ![i] = [n \in DOMAIN @ |-> [@[n] EXCEPT !.due = FALSE]]]

Goto(t, label) == at' = [at EXCEPT ![t] = label]
Hold(t, row) == hand' = [hand EXCEPT ![t] = row]

\* A write to the rows, which races with every other thread at work: be the
\* slots the same, it renews updated_at.
Touch(t, new) ==
    /\ rows' = new
    /\ raced' = [u \in Thread |-> raced[u] \/ (u # t /\ at[u] # "idle")]

-----------------------------------------------------------------------------
(* record.                                                                 *)

\* FAULTY VARIANT of Begin: stale rows are not expired first.
BeginWithoutExpiry(t) ==
    /\ at[t] = "idle"
    /\ runs < MaxRuns
    /\ \E m \in Message : msg' = [msg EXCEPT ![t] = m]
    /\ raced' = [raced EXCEPT ![t] = FALSE]
    /\ runs' = runs + 1
    /\ Goto(t, "read")
    /\ UNCHANGED <<rows, hand, stated, timeouts, crashes>>

\* A message of the customer is taken up; expire_stale_for_user.
Begin(t) ==
    /\ at[t] = "idle"
    /\ runs < MaxRuns
    /\ \E m \in Message : msg' = [msg EXCEPT ![t] = m]
    /\ rows' = [i \in DOMAIN rows |->
          IF Open(i) /\ ~rows[i].current THEN [rows[i] EXCEPT !.status = "expired"]
          ELSE rows[i]]
    /\ raced' = [u \in Thread |-> u # t /\ (raced[u] \/ (at[u] # "idle" /\ rows' # rows))]
    /\ runs' = runs + 1
    /\ Goto(t, "read")
    /\ UNCHANGED <<hand, stated, timeouts, crashes>>

\* get_active_for_user.
ReadActive(t) ==
    /\ at[t] = "read"
    /\ \/ \E i \in DOMAIN rows :
            /\ Open(i) /\ rows[i].current
            /\ Hold(t, [row |-> i, slots |-> rows[i].slots, off |-> rows[i].off])
       \/ /\ ~\E i \in DOMAIN rows : Open(i) /\ rows[i].current
          /\ Hold(t, NoHand)
    /\ Goto(t, "write")
    /\ UNCHANGED <<rows, msg, raced, stated, runs, timeouts, crashes>>

\* create, when no other row is open (idx_conv_states_one_active).
Create(t) ==
    /\ at[t] = "write"
    /\ hand[t].row = 0
    /\ ShouldOpen(msg[t])
    /\ \A i \in DOMAIN rows : ~Open(i)
    /\ Touch(t, Append(rows, Row("in_progress", msg[t].slots, msg[t].off)))
    /\ stated' = Append(stated, <<Record(t, msg[t].slots)>>)
    /\ Hold(t, [row |-> Len(rows) + 1, slots |-> msg[t].slots, off |-> msg[t].off])
    /\ Goto(t, "reply")
    /\ UNCHANGED <<msg, runs, timeouts, crashes>>

\* FAULTY VARIANT of Supersede: the old row stays open.
SupersedeLeavesOld(t) ==
    /\ at[t] = "write"
    /\ hand[t].row # 0
    /\ FreshRange(msg[t].slots, hand[t].slots)
    /\ \A i \in DOMAIN rows : Open(i) => i = hand[t].row
    /\ Touch(t, Append(rows, Row("in_progress", msg[t].slots, msg[t].off)))
    /\ stated' = Append(stated, <<Record(t, msg[t].slots)>>)
    /\ Hold(t, [row |-> Len(rows) + 1, slots |-> msg[t].slots, off |-> msg[t].off])
    /\ Goto(t, "reply")
    /\ UNCHANGED <<msg, runs, timeouts, crashes>>

\* supersede: the old row expires and the new one is inserted, or neither.
Supersede(t) ==
    /\ at[t] = "write"
    /\ hand[t].row # 0
    /\ FreshRange(msg[t].slots, hand[t].slots)
    /\ \A i \in DOMAIN rows : Open(i) => i = hand[t].row
    /\ Touch(t, Append([rows EXCEPT ![hand[t].row].status = "expired"],
                       Row("in_progress", msg[t].slots, msg[t].off)))
    /\ stated' = Append(stated, <<Record(t, msg[t].slots)>>)
    /\ Hold(t, [row |-> Len(rows) + 1, slots |-> msg[t].slots, off |-> msg[t].off])
    /\ Goto(t, "reply")
    /\ UNCHANGED <<msg, runs, timeouts, crashes>>

\* The unique index refuses the insert of create or supersede; _record_state
\* swallows the exception, and the message is answered by itself.
InsertRefused(t) ==
    /\ at[t] = "write"
    /\ \/ hand[t].row = 0 /\ ShouldOpen(msg[t])
       \/ hand[t].row # 0 /\ FreshRange(msg[t].slots, hand[t].slots)
    /\ \E i \in DOMAIN rows : Open(i) /\ i # hand[t].row
    /\ Hold(t, NoHand)
    /\ Goto(t, "lost")
    /\ UNCHANGED <<rows, msg, raced, stated, runs, timeouts, crashes>>

\* FAULTY VARIANT of Update: the off flag is not merged into the row in hand.
UpdateHandWithoutOff(t) ==
    /\ at[t] = "write"
    /\ hand[t].row # 0
    /\ ~FreshRange(msg[t].slots, hand[t].slots)
    /\ LET r == hand[t].row
       IN  \E slots \in Readings(msg[t], hand[t].slots) :
             /\ HasSlot(slots)
             /\ Touch(t, [rows EXCEPT
                    ![r].slots = Merge(@, slots),
                    ![r].off = @ \/ msg[t].off,
                    ![r].current = TRUE])
             /\ stated' = [stated EXCEPT ![r] = Append(@, Record(t, slots))]
             /\ Hold(t, [row |-> r, slots |-> Merge(hand[t].slots, slots),
                         off |-> hand[t].off])
    /\ Goto(t, "reply")
    /\ UNCHANGED <<msg, runs, timeouts, crashes>>

\* FAULTY VARIANT of Update: what was merged in Python is written.
UpdateFromHand(t) ==
    /\ at[t] = "write"
    /\ hand[t].row # 0
    /\ ~FreshRange(msg[t].slots, hand[t].slots)
    /\ LET r == hand[t].row
       IN  \E slots \in Readings(msg[t], hand[t].slots) :
             /\ HasSlot(slots)
             /\ Touch(t, [rows EXCEPT
                    ![r].slots = Merge(hand[t].slots, slots),
                    ![r].off = @ \/ msg[t].off,
                    ![r].current = TRUE])
             /\ stated' = [stated EXCEPT ![r] = Append(@, Record(t, slots))]
             /\ Hold(t, [row |-> r, slots |-> Merge(hand[t].slots, slots),
                         off |-> hand[t].off \/ msg[t].off])
    /\ Goto(t, "reply")
    /\ UNCHANGED <<msg, runs, timeouts, crashes>>

\* FAULTY VARIANT of Update: an update opens the row again.
UpdateReopens(t) ==
    /\ at[t] = "write"
    /\ hand[t].row # 0
    /\ ~FreshRange(msg[t].slots, hand[t].slots)
    /\ LET r == hand[t].row
       IN  \E slots \in Readings(msg[t], hand[t].slots) :
             /\ HasSlot(slots)
             /\ Touch(t, [rows EXCEPT
                    ![r].slots = Merge(@, slots),
                    ![r].status = "in_progress",
                    ![r].off = @ \/ msg[t].off,
                    ![r].current = TRUE])
             /\ stated' = [stated EXCEPT ![r] = Append(@, Record(t, slots))]
             /\ Hold(t, [row |-> r, slots |-> Merge(hand[t].slots, slots),
                         off |-> hand[t].off \/ msg[t].off])
    /\ Goto(t, "reply")
    /\ UNCHANGED <<msg, runs, timeouts, crashes>>

\* _update_active: update_slots by the id in hand, whatever the status of the
\* row is by now.
Update(t) ==
    /\ at[t] = "write"
    /\ hand[t].row # 0
    /\ ~FreshRange(msg[t].slots, hand[t].slots)
    /\ LET r == hand[t].row
       IN  \E slots \in Readings(msg[t], hand[t].slots) :
             /\ HasSlot(slots)
             /\ Touch(t, [rows EXCEPT
                    ![r].slots = Merge(@, slots),
                    ![r].off = @ \/ msg[t].off,
                    ![r].current = TRUE])
             /\ stated' = [stated EXCEPT ![r] = Append(@, Record(t, slots))]
             /\ Hold(t, [row |-> r, slots |-> Merge(hand[t].slots, slots),
                         off |-> hand[t].off \/ msg[t].off])
    /\ Goto(t, "reply")
    /\ UNCHANGED <<msg, runs, timeouts, crashes>>

\* The message carries no slot, or there is nothing to open.
RecordNothing(t) ==
    /\ at[t] = "write"
    /\ \/ hand[t].row = 0 /\ ~ShouldOpen(msg[t])
       \/ /\ hand[t].row # 0
          /\ ~FreshRange(msg[t].slots, hand[t].slots)
          /\ \E slots \in Readings(msg[t], hand[t].slots) : ~HasSlot(slots)
    /\ Goto(t, "reply")
    /\ UNCHANGED <<rows, msg, hand, raced, stated, runs, timeouts, crashes>>

-----------------------------------------------------------------------------
(* The reply and what follows it.                                          *)

\* The reply is not sent, or asks for nothing of the row.
ReplyOnly(t) ==
    /\ at[t] \in {"reply", "lost"}
    /\ Goto(t, "idle")
    /\ Hold(t, NoHand)
    /\ UNCHANGED <<rows, msg, raced, stated, runs, timeouts, crashes>>

\* completed_state_id: a quote, a full house or a hand-over was sent.
ReplyCompletes(t) ==
    /\ at[t] = "reply"
    /\ hand[t].row # 0
    /\ ~msg[t].off
    /\ Goto(t, "complete")
    /\ UNCHANGED <<rows, msg, hand, raced, stated, runs, timeouts, crashes>>

\* FAULTY VARIANT of ReplyNudges: the flag is cleared though the reply failed.
ReplyNudgesUnsent(t) ==
    /\ at[t] = "reply"
    /\ hand[t].row # 0
    /\ ~msg[t].off
    /\ hand[t].off
    /\ Goto(t, "clear")
    /\ UNCHANGED <<rows, msg, hand, raced, stated, runs, timeouts, crashes>>

\* reconfirm_shown_state_id: the slots were collected while off, and the last
\* of them more than _STALE_RECONFIRM_MINUTES ago.  The nudge shows the row in
\* hand; to a thread that was raced that is not the row in the table.
ReplyNudges(t) ==
    /\ at[t] = "reply"
    /\ hand[t].row # 0
    /\ ~msg[t].off
    /\ hand[t].off
    /\ stated' = IF raced[t] THEN stated ELSE NoneDue(hand[t].row)
    /\ Goto(t, "clear")
    /\ UNCHANGED <<rows, msg, hand, raced, runs, timeouts, crashes>>

\* mark_completed, by the id in hand.
MarkCompleted(t) ==
    /\ at[t] = "complete"
    /\ Touch(t, [rows EXCEPT ![hand[t].row].status = "completed"])
    /\ Goto(t, "idle")
    /\ Hold(t, NoHand)
    /\ UNCHANGED <<msg, stated, runs, timeouts, crashes>>

\* clear_accumulated_while_off, by the id in hand.  The history writes off
\* what a thread clears that was raced.
ClearOff(t) ==
    /\ at[t] = "clear"
    /\ Touch(t, [rows EXCEPT ![hand[t].row].off = FALSE])
    /\ stated' = IF raced[t] THEN NoneDue(hand[t].row) ELSE stated
    /\ Goto(t, "idle")
    /\ Hold(t, NoHand)
    /\ UNCHANGED <<msg, runs, timeouts, crashes>>

\* Either of them raises, and the exception is swallowed.
AfterReplyRaises(t) ==
    /\ at[t] \in {"complete", "clear"}
    /\ Goto(t, "idle")
    /\ Hold(t, NoHand)
    /\ UNCHANGED <<rows, msg, raced, stated, runs, timeouts, crashes>>

-----------------------------------------------------------------------------

\* A row reaches its expires_at, whoever holds it in hand.
TimeOut ==
    /\ timeouts < MaxTimeouts
    /\ \E i \in DOMAIN rows :
          /\ Open(i) /\ rows[i].current
          /\ rows' = [rows EXCEPT ![i].current = FALSE]
    /\ raced' = [t \in Thread |-> raced[t] \/ at[t] # "idle"]
    /\ timeouts' = timeouts + 1
    /\ UNCHANGED <<at, msg, hand, stated, runs, crashes>>

Crash ==
    /\ crashes < MaxCrashes
    /\ crashes' = crashes + 1
    /\ at' = [t \in Thread |-> "idle"]
    /\ hand' = [t \in Thread |-> NoHand]
    /\ UNCHANGED <<rows, msg, raced, stated, runs, timeouts>>

Step(t) ==
    \/ Begin(t) \/ ReadActive(t)
    \/ Create(t) \/ Supersede(t) \/ InsertRefused(t) \/ Update(t) \/ RecordNothing(t)
    \/ ReplyOnly(t) \/ ReplyCompletes(t) \/ ReplyNudges(t)
    \/ MarkCompleted(t) \/ ClearOff(t) \/ AfterReplyRaises(t)

Next == (\E t \in Thread : Step(t)) \/ TimeOut \/ Crash

Spec == Init /\ [][Next]_vars

-----------------------------------------------------------------------------
(* What the memory guarantees.                                             *)

\* The row in hand is the row in the table, unless another thread or the clock
\* got in since the thread began: _merge_row in Python and COALESCE in SQL
\* come to the same, and what is completed or cleared by its id after the
\* reply is still what the reply was made from.
HandIsRow ==
    \A t \in Thread :
        at[t] \in {"reply", "complete", "clear"} /\ hand[t].row # 0 /\ ~raced[t] =>
            /\ hand[t].slots = rows[hand[t].row].slots
            /\ hand[t].off = rows[hand[t].row].off
            /\ Open(hand[t].row)

\* The one-active index refuses an insert, and drops what a message said from
\* the memory, only to a thread that was raced: expiring first and reading
\* next leaves a thread that is alone nothing to collide with.
RefusedOnlyInRace == \A t \in Thread : at[t] = "lost" => raced[t]

\* A row is about one booking, and no update of it is lost: each slot is what
\* the last of the messages recorded in that very row that state the slot
\* says, and every slot one of them states is there, however the threads
\* interleave and whatever ends the row.
LastWord(i, k, n) ==
    /\ k \in DOMAIN stated[i][n].slots
    /\ stated[i][n].slots[k] = rows[i].slots[k]
    /\ \A m \in DOMAIN stated[i] : m > n => k \notin DOMAIN stated[i][m].slots
RowIsItsMessages ==
    \A i \in DOMAIN rows :
        /\ \A k \in DOMAIN rows[i].slots : \E n \in DOMAIN stated[i] : LastWord(i, k, n)
        /\ \A n \in DOMAIN stated[i] : DOMAIN stated[i][n].slots \subseteq DOMAIN rows[i].slots

\* A conversation that ended is never taken up again, although update_slots
\* writes by id, without asking for the status.
EndedStaysEnded ==
    [][\A i \in DOMAIN rows : ~Open(i) => rows'[i].status # "in_progress"]_vars

\* What was said while off keeps the row flagged until a nudge has shown it:
\* a row that is refilled after the nudge is flagged again, and neither an
\* update while on nor the clearing of a flag takes away the question that is
\* still due.  Exempt is a flag cleared by a thread that was raced, since it
\* clears by id whatever was recorded after its nudge.
DueNudgeIsFlagged ==
    \A i \in DOMAIN rows :
        (\E n \in DOMAIN stated[i] : stated[i][n].due) => rows[i].off

=============================================================================
