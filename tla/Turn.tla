-------------------------------- MODULE Turn --------------------------------
(***************************************************************************)
(* What one message of a customer leads to, from its words to the plan the *)
(* pipeline delivers: the race of the keyword rules                        *)
(* (domain/inquiry_intent.py), the second opinion of the LLM               *)
(* (domain/llm_fallback.py), the decision (services/inquiry_service.py),   *)
(* the open conversation row (services/conversation_state_service.py) and  *)
(* the gates that pick the reply                                           *)
(* (services/conversation_reply_composer.py).                              *)
(*                                                                         *)
(* One customer sends messages one after the other.  A turn is two steps,  *)
(* the plan and its delivery, in which compose may raise, the push to the  *)
(* owner may fail and every attempt to reply may fail (Webhook and         *)
(* ConversationState model turns that overlap, and faults of the tables).  *)
(* Between turns the owner changes the mode and time passes.               *)
(*                                                                         *)
(* A message is what the parsers find in it.  Their regular expressions    *)
(* are not modelled: the combinations they can produce are in Message.     *)
(* What the LLM answers, what the calendar says and what the room and      *)
(* price rules make of a complete stay are chosen.                         *)
(***************************************************************************)
EXTENDS Naturals, Sequences

CONSTANTS
    Message,  \* what the customer may write
    Reads     \* the sets of slots the LLM may read out of a text

\* words: the keyword lists that match.  topics: match_all_faq_topics, in the
\* order of the whitelist.  says: the slots the rules parse; extra stands for
\* pets and barbecue.  form: it has the lines of a filled-in form.  hint: it
\* has a pattern of a date.
MessageFields == {"words", "topics", "says", "form", "hint", "urgent"}
Words == {"command", "price", "vacancy", "book", "question", "ask", "stay_in"}
Dates == {"in", "out"}
Stay == Dates \cup {"guests"}
Slots == Stay \cup {"rooms", "extra"}

ASSUME TurnAssumption ==
    /\ \A m \in Message : /\ DOMAIN m = MessageFields
                          /\ m.words \subseteq Words
                          /\ m.says \subseteq Slots
                          /\ {m.form, m.hint, m.urgent} \subseteq BOOLEAN
    /\ Reads \subseteq SUBSET Slots

VARIABLES
    mode,   \* _system_state; off stands for paused_by_owner too
    row,    \* the active row of conversation_states
    doubt,  \* history: the slots last stated while off, and whether long ago
    plan,   \* the ComposedReply that is delivered, and what led to it
    sent    \* what became of the plan: the text that went out, the push, and the
            \* handled flag

vars == <<mode, row, doubt, plan, sent>>

-----------------------------------------------------------------------------
(* The rules.  Several of them are races: the first that matches wins.     *)

FirstOf(race) ==
    race[CHOOSE i \in DOMAIN race : race[i][1] /\ \A j \in 1..(i - 1) : ~race[j][1]][2]

QuoteIntents == {"price", "availability", "booking_question"}

NonPriceable == {"breakfast", "bbq"}
BookingEquivalent == {"whole_house"}

Topics(m) == {m.topics[i] : i \in DOMAIN m.topics}
FirstTopic(m) == IF m.topics = <<>> THEN "none" ELSE Head(m.topics)

HasDate(says) == says \cap Dates # {}
HasSignal(m) == HasDate(m.says) \/ "guests" \in m.says

\* looks_like_structured_form_reply.
FormReply(m) == m.form /\ m.says \cap {"in", "guests"} # {}

\* parse_inquiry_intent.  "unclassified" is an inquiry of unknown type.
RuleIntent(m) ==
    LET asksFaq == m.topics # <<>> /\ ~(FirstTopic(m) = "checkout" /\ HasDate(m.says))
        product == HasSignal(m) /\ Topics(m) \cap BookingEquivalent # {}
    IN  FirstOf(<<
            <<"command" \in m.words, "non_inquiry">>,
            <<"price" \in m.words, "price">>,
            <<"vacancy" \in m.words, "availability">>,
            <<"book" \in m.words, "booking_question">>,
            <<FormReply(m), "booking_question">>,
            <<asksFaq /\ product, "availability">>,
            <<asksFaq, "faq">>,
            <<"question" \in m.words /\ HasSignal(m), "availability">>,
            <<"question" \in m.words, "faq">>,
            <<"ask" \in m.words, "unclassified">>,
            <<"stay_in" \in m.words /\ "checkout" \in Topics(m) /\ Dates \subseteq m.says,
              "booking_question">>,
            <<TRUE, "unknown">>>>)

RuleParse(m) ==
    [intent |-> RuleIntent(m), says |-> m.says, clarify |-> FALSE, rejected |-> FALSE]

-----------------------------------------------------------------------------
(* The LLM.                                                                *)

\* _has_faq_booking_collision.
Collision(m) ==
    /\ HasSignal(m)
    /\ IF HasDate(m.says) THEN Topics(m) \ {"checkout"} # {} ELSE m.topics # <<>>

\* _select_trigger.
Trigger(m) ==
    FirstOf(<<
        <<Collision(m), "collision">>,
        <<~(Dates \subseteq m.says) /\ m.hint, "dates">>,
        <<Dates \subseteq m.says /\ RuleIntent(m) \notin QuoteIntents, "intent">>,
        <<"bbq" \in Topics(m) /\ "extra" \notin m.says, "bbq">>,
        <<RuleIntent(m) = "unclassified", "unclassified">>,
        <<TRUE, "none">>>>)

\* booking: is_booking_intent.  A field that breaks the schema is unsaid.
Answers == [booking : {"yes", "no", "unsaid"}, intent : QuoteIntents \cup {"faq", "unsaid"},
            clarify : BOOLEAN, reads : Reads]

\* A provider that cannot be reached, is too slow or does not write an object.
Failed == [failed |-> TRUE]
Calls == Answers \cup {Failed}

\* FallbackLLMProvider.parse: a second provider is asked if the first one failed.
Consult(first, second) == IF first # Failed THEN first ELSE second

Consultations == {Consult(first, second) : first \in Calls, second \in Calls}

MergeSlots(p, a) == [p EXCEPT !.says = @ \cup a.reads]

\* _maybe_upgrade_intent.
Upgrade(p, a) ==
    IF a.intent \in QuoteIntents THEN [p EXCEPT !.intent = a.intent]
    ELSE IF a.booking = "yes" THEN [p EXCEPT !.intent = "booking_question"]
    ELSE p

\* _reject_booking_intent: only an intent for a quote is taken back.
Reject(p) ==
    [p EXCEPT !.rejected = TRUE,
              !.intent = IF @ \in QuoteIntents THEN "unknown" ELSE @]

\* _merge_collision_judgment.
MergeCollision(p, a) ==
    LET merged == MergeSlots(p, a)
        booking == a.booking = "yes" \/ (a.booking = "unsaid" /\ a.intent \in QuoteIntents)
        faq == a.booking = "no" \/ (a.booking = "unsaid" /\ a.intent = "faq")
    IN  FirstOf(<<
            <<booking, [merged EXCEPT !.intent = IF a.intent \in QuoteIntents THEN a.intent
                                                 ELSE "availability"]>>,
            <<faq, [merged EXCEPT !.intent = "faq"]>>,
            <<TRUE, merged>>>>)

\* _merge_llm_into_inquiry.
MergeAnswer(m, a) ==
    LET t == Trigger(m)
        p == IF t = "bbq" THEN [RuleParse(m) EXCEPT !.says = @ \cup (a.reads \cap {"extra"})]
             ELSE RuleParse(m)
    IN  FirstOf(<<
            <<t = "collision", MergeCollision(p, a)>>,
            <<t = "unclassified" /\ a.intent = "faq",
              [MergeSlots(p, a) EXCEPT !.intent = "faq", !.rejected = (a.booking = "no")]>>,
            <<a.booking = "no", Reject(p)>>,
            <<a.clarify, [Upgrade(p, a) EXCEPT !.clarify = TRUE]>>,
            <<TRUE, Upgrade(MergeSlots(p, a), a)>>>>)

\* llm_fallback_parse: without a trigger or an answer the rules stand.
Parses ==
    [m \in Message |->
        IF Trigger(m) = "none" THEN {RuleParse(m)}
        ELSE {IF a = Failed THEN RuleParse(m) ELSE MergeAnswer(m, a) : a \in Consultations}]

\* judge_state_continuation: what the LLM may make of a message that has nothing
\* to do with the open row at first sight.
Continues(a) == a = Failed \/ a.booking # "no"
Judgments == {Continues(a) : a \in Consultations}

-----------------------------------------------------------------------------
(* The decision on the message alone (InquiryService.handle_message).      *)

Decision(p, text, push) ==
    [intent |-> p.intent, says |-> p.says, rejected |-> p.rejected,
     text |-> text, push |-> push, off |-> FALSE, urgent |-> FALSE]

\* What ends a conversation: a price or a refusal ("quote"; the owner is pushed
\* when the availability could not be verified), or the word that the staff
\* will see to it (full house, manual review, no holiday calendar).
Finals == {<<"quote", FALSE>>, <<"quote", TRUE>>, <<"staff", TRUE>>}
Final(text) == text \in {"quote", "staff"}

\* _handle_quote_relevant.  An arrival without a departure probes one night;
\* "ask" is also the suggestion of more rooms.
QuoteDecisions(p) ==
    LET probed == IF "in" \in p.says /\ "out" \notin p.says
                  THEN {Decision(p, "staff", TRUE)} ELSE {}
    IN  FirstOf(<<
            <<p.clarify \/ ~(Stay \subseteq p.says), probed \cup {Decision(p, "ask", FALSE)}>>,
            <<"rooms" \notin p.says, {Decision(p, "ask", FALSE)}>>,
            <<TRUE, {Decision(p, "ask", FALSE)} \cup {Decision(p, f[1], f[2]) : f \in Finals}>>>>)

DecisionsOn ==
    [m \in Message |->
        UNION {IF p.intent \in QuoteIntents THEN QuoteDecisions(p)
               ELSE {Decision(p, "none", TRUE)} : p \in Parses[m]}]

Decisions(m) ==
    FirstOf(<<
        <<m.urgent, {[Decision(RuleParse(m), "none", TRUE) EXCEPT !.urgent = TRUE]}>>,
        <<mode # "on", {[Decision(RuleParse(m), "none", FALSE) EXCEPT !.off = TRUE]}>>,
        <<TRUE, DecisionsOn[m]>>>>)

-----------------------------------------------------------------------------
(* The row (ConversationStateService.record).                              *)

NoRow == [open |-> FALSE, slots |-> {}, off |-> "no"]

\* FAULTY VARIANT of ShouldOpen: a request without a slot opens nothing.
ShouldOpenWithSlots(d) == ~d.urgent /\ d.says # {} /\ d.intent \in QuoteIntents

\* _should_open.
ShouldOpen(d) ==
    /\ ~d.urgent
    /\ \/ d.intent \in QuoteIntents
       \/ /\ d.intent \in {"unknown", "unclassified"}
          /\ ~d.rejected
          /\ Dates \subseteq d.says

\* FAULTY VARIANT of OffFlag: a message while on writes False instead of nothing.
OffFlagOverwritten(d, old) == IF d.off THEN "recent" ELSE "no"

\* _off_flag_kwargs.
OffFlag(d, old) == IF d.off THEN "recent" ELSE old

NewRow(d) == [open |-> TRUE, slots |-> d.says, off |-> OffFlag(d, "no")]

\* _fill_contextual_room_count: a row that waits for a room count may find one
\* in any words, and may refuse the one the parser found.
Readings(d) ==
    IF Stay \subseteq row.slots /\ "rooms" \notin row.slots
    THEN {d.says, d.says \cup {"rooms"}, d.says \ {"rooms"}}
    ELSE {d.says}

Update(d, slots) ==
    IF slots = {} THEN row
    ELSE [row EXCEPT !.slots = @ \cup slots, !.off = OffFlag(d, @)]

\* record: other dates for another party are another booking.
Recorded(d) ==
    FirstOf(<<
        <<~row.open, {IF ShouldOpen(d) THEN NewRow(d) ELSE NoRow}>>,
        <<TRUE, {Update(d, slots) : slots \in Readings(d)}
                    \cup IF Stay \subseteq d.says \cap row.slots THEN {NewRow(d)}
                         ELSE {}>>>>)

-----------------------------------------------------------------------------
(* The reply (ConversationReplyComposer.compose), for the row r.           *)

Reply(text, push) == [text |-> text, push |-> push, raised |-> FALSE]

\* _is_booking_equivalent_quote.
ProductQuote(m, d) == Topics(m) \cap BookingEquivalent # {} /\ d.intent \in QuoteIntents

\* FAULTY VARIANT of ResolvedBooking: a price question with one date is always
\* about a policy.
ResolvedUnlessPrice(m, d) ==
    /\ d.intent \in QuoteIntents
    /\ HasDate(d.says)
    /\ Dates \subseteq d.says \/ d.intent # "price"

\* _has_resolved_booking_context.
ResolvedBooking(m, d) ==
    /\ d.intent \in QuoteIntents
    /\ HasDate(d.says)
    /\ \/ Dates \subseteq d.says
       \/ d.intent # "price"
       \/ "guests" \in d.says
       \/ "book" \in m.words

\* _is_bare_checkout_faq.
BareCheckout(d, r) == d.intent \notin QuoteIntents /\ ~HasDate(d.says) /\ ~r.open

\* _should_answer_gate3_faq.
AnswersTopic(m, d, r) ==
    /\ ~ProductQuote(m, d)
    /\ ~ResolvedBooking(m, d)
    /\ IF FirstTopic(m) = "checkout" THEN BareCheckout(d, r) ELSE d.intent # "price"

\* The three gates in front of the row: a topic that has no price, a topic that
\* is asked for alone, and what the classifier calls a question.
FaqClaims(m, d, r) ==
    /\ ~FormReply(m)
    /\ \/ FirstTopic(m) \in NonPriceable /\ ~ProductQuote(m, d) /\ ~ResolvedBooking(m, d)
       \/ m.topics # <<>> /\ AnswersTopic(m, d, r)
       \/ d.intent = "faq" /\ ~(r.open /\ FirstTopic(m) = "checkout" /\ "out" \in d.says)

\* _compose_faq: a question outside the whitelist is deferred to the owner.
FaqReply(m) == IF m.topics = <<>> THEN Reply("defer", TRUE) ELSE Reply("faq", FALSE)

\* Without a row the decision speaks for itself; when it has only a push, the
\* push is kept unless a topic matched.
RowlessReply(m, d) ==
    Reply(d.text, d.push /\ d.text = "none" /\ (m.topics = <<>> \/ FormReply(m)))

\* _early_availability_gate, _missing_for_state, _room_gate, _quote_for_state.
RowReplies(d, r) ==
    LET full == IF Dates \subseteq r.slots /\ HasDate(d.says)
                THEN {Reply("staff", TRUE)} ELSE {}
    IN  full \cup {Reply("ask", FALSE)} \cup
            IF Stay \cup {"rooms"} \subseteq r.slots
            THEN {Reply(f[1], f[2]) : f \in Finals} ELSE {}

\* FAULTY VARIANT of Compose: the gates for questions come before the mode.
ComposeFaqFirst(m, d, r) ==
    FirstOf(<<
        <<FaqClaims(m, d, r), {FaqReply(m)}>>,
        <<d.urgent, {Reply("none", TRUE)}>>,
        <<d.off, {Reply("none", FALSE)}>>,
        <<TRUE, {Reply(d.text, d.push)}>>>>)

Compose(m, d, r) ==
    FirstOf(<<
        <<d.urgent, {Reply("none", TRUE)}>>,
        <<d.off, {Reply("none", FALSE)}>>,
        <<FaqClaims(m, d, r), {FaqReply(m)}>>,
        <<Final(d.text), {Reply(d.text, d.push)}>>,
        <<~r.open, {RowlessReply(m, d)}>>,
        <<r.off = "stale", {Reply("nudge", FALSE)}>>,
        <<TRUE, RowReplies(d, r)>>>>)

\* _looks_off_topic_against_open_state: then the LLM is asked whether the
\* message still belongs to the booking.
OffTopic(d, r) ==
    r.open /\ ~Final(d.text) /\ d.intent \notin QuoteIntents /\ d.says = {}

\* _maybe_override_for_off_topic.
Detour == Reply("none", TRUE)

\* _compose_reply: past the mode, compose may raise (a loader, the price, a row
\* it cannot read).  Then the decision's text goes out and its push is dropped.
Raised(d) ==
    IF d.urgent \/ d.off THEN {} ELSE {[Reply(d.text, FALSE) EXCEPT !.raised = TRUE]}

Replies(m, d, r) ==
    Compose(m, d, r) \cup Raised(d) \cup
        IF OffTopic(d, r) /\ FALSE \in Judgments THEN {Detour} ELSE {}

-----------------------------------------------------------------------------
(* The history.                                                            *)

NoDoubt == [slots |-> {}, old |-> FALSE]

\* A message while off puts its slots in doubt, and those of before again
\* recently; what is said while on is not, and a new row forgets the rest.
DoubtAfter(d, r) ==
    LET said == d.says \cup (r.slots \ row.slots)
    IN  IF ~d.off THEN [doubt EXCEPT !.slots = (@ \ said) \cap r.slots]
        ELSE IF said = {} THEN doubt
        ELSE [slots |-> (doubt.slots \cup said) \cap r.slots, old |-> FALSE]

\* committed: a request for a quote with dates, or a date and a headcount.
\* labelled: a departure date, and no request, in words that also are a topic.
\* fromRow: the decision on the message alone was not final.  kept: the row
\* has what the message said, but for a count of rooms that was refused.
\* detour: the LLM found the message off the open booking.
Planned(m, d, r, reply) ==
    LET quote == ~d.urgent /\ ~d.off /\ d.intent \in QuoteIntents
    IN  [text |-> reply.text, push |-> reply.push, raised |-> reply.raised,
         mode |-> mode, urgent |-> m.urgent,
         committed |-> /\ quote
                       /\ Dates \subseteq d.says \/ (HasDate(d.says) /\ "guests" \in d.says),
         labelled |-> /\ FirstTopic(m) = "checkout" /\ HasDate(d.says) /\ ~FormReply(m)
                      /\ ~quote /\ ~r.open,
         fromRow |-> ~Final(d.text),
         kept |-> r.open /\ d.says \ {"rooms"} \subseteq r.slots,
         detour |-> OffTopic(d, r) /\ reply = Detour]

NoPlan == [text |-> "none", push |-> FALSE, raised |-> FALSE, mode |-> "off",
           urgent |-> FALSE, committed |-> FALSE, labelled |-> FALSE, fromRow |-> FALSE,
           kept |-> FALSE, detour |-> FALSE]

Heard == plan.mode = "on" \/ plan.urgent

-----------------------------------------------------------------------------
(* The delivery (_process_pipeline_event, from the plan on).               *)

\* The handled flag of the row that persist wrote: only do_nothing is not.
Persisted == Heard

\* _resolve_customer_text: push first; a deferral has a softer wording for when
\* the push failed, the other promises of staff have not.
Wording(pushed) == IF plan.text = "defer" /\ ~pushed THEN "soft" ELSE plan.text

\* FAULTY VARIANT of Settled: a reply of nothing counts as delivered.
SettledBySend(pushed, replied) == Persisted /\ (pushed \/ replied)

\* _correct_handled_if_silent_drop: a reply of nothing reaches nobody.
Settled(pushed, replied) ==
    Persisted /\ (pushed \/ (replied /\ plan.text # "none"))

\* FAULTY VARIANT of AfterDelivery: a completed row is closed and nothing else.
AfterDeliveryKeepsSlots ==
    IF Final(plan.text) THEN [row EXCEPT !.open = FALSE]
    ELSE IF plan.text = "nudge" THEN [row EXCEPT !.off = "no"]
    ELSE row

\* _mark_if_complete, _clear_reconfirm_if_shown.
AfterDelivery ==
    IF Final(plan.text) /\ ~plan.raised THEN NoRow
    ELSE IF plan.text = "nudge" THEN [row EXCEPT !.off = "no"]
    ELSE row

NotSent == [plan |-> NoPlan, text |-> "none", pushed |-> FALSE, handled |-> FALSE]

-----------------------------------------------------------------------------

TurnTypeOK ==
    /\ mode \in {"on", "off"}
    /\ row \in [open : BOOLEAN, slots : SUBSET Slots, off : {"no", "recent", "stale"}]
    /\ ~row.open => row = NoRow
    /\ doubt.slots \subseteq row.slots
    /\ plan.text \in {"none", "faq", "defer", "ask", "nudge", "quote", "staff"}

Init ==
    /\ mode = "off"
    /\ row = NoRow
    /\ doubt = NoDoubt
    /\ plan = NoPlan
    /\ sent = NotSent

AtRest == plan = NoPlan /\ sent = NotSent

\* _process_pipeline_event, up to the plan.
TakeTurn(m) ==
    /\ AtRest
    /\ \E d \in Decisions(m) : \E r \in Recorded(d) : \E reply \in Replies(m, d, r) :
          /\ row' = r
          /\ doubt' = DoubtAfter(d, r)
          /\ plan' = Planned(m, d, r, reply)
    /\ UNCHANGED <<mode, sent>>

\* The rest of it: the push, the reply, the correction of the handled flag,
\* and, if the reply went out, the row is marked.
Deliver ==
    /\ plan # NoPlan
    /\ \E pushed \in IF plan.push THEN BOOLEAN ELSE {FALSE},
          replied \in IF plan.text = "none" THEN {TRUE} ELSE BOOLEAN :
          /\ row' = IF replied THEN AfterDelivery ELSE row
          /\ doubt' = IF row' # row THEN NoDoubt ELSE doubt
          /\ sent' = [plan |-> plan,
                      text |-> IF replied THEN Wording(pushed) ELSE "none",
                      pushed |-> pushed,
                      handled |-> Settled(pushed, replied)]
    /\ plan' = NoPlan
    /\ UNCHANGED mode

\* The task goes on to the next event.
TurnEnds ==
    /\ sent # NotSent
    /\ sent' = NotSent
    /\ UNCHANGED <<mode, row, doubt, plan>>

\* The owner, by /on, /off or by taking the customer over, or the schedule.
Switch ==
    /\ AtRest
    /\ mode' = IF mode = "on" THEN "off" ELSE "on"
    /\ UNCHANGED <<row, doubt, plan, sent>>

\* _is_stale_off_accumulation: more than _STALE_RECONFIRM_MINUTES go by.
MinutesPass ==
    /\ AtRest
    /\ row.off = "recent" \/ (doubt.slots # {} /\ ~doubt.old)
    /\ row' = [row EXCEPT !.off = IF @ = "recent" THEN "stale" ELSE @]
    /\ doubt' = [doubt EXCEPT !.old = TRUE]
    /\ UNCHANGED <<mode, plan, sent>>

\* expire_stale_for_user, at the next message: the row's time is over.
Expire ==
    /\ AtRest
    /\ row.open
    /\ row' = NoRow
    /\ doubt' = NoDoubt
    /\ UNCHANGED <<mode, plan, sent>>

Next ==
    \/ \E m \in Message : TakeTurn(m)
    \/ Deliver
    \/ TurnEnds
    \/ Switch
    \/ MinutesPass
    \/ Expire

Spec == Init /\ [][Next]_vars

-----------------------------------------------------------------------------
(* Properties.                                                             *)

\* While the desk is off or the owner has taken the customer over, and on an
\* urgent message at any time, the customer is not answered, whatever row is
\* open and whatever the gates of compose would say; and while off the owner is
\* not pushed, but for an urgent message and for one that the LLM takes out of
\* an open booking.
QuietUnlessOn ==
    /\ (plan.mode # "on" \/ plan.urgent) => plan.text = "none"
    /\ ~Heard => ~plan.push \/ plan.detour

\* An urgent message, and every message while the desk is on, is meant for
\* somebody: an answer to the customer or a push to the owner.  The exceptions
\* are a message whose reply could not be composed, and a departure date
\* without a request ("10/5 checkout") from a customer without a row: the word
\* is a FAQ topic, no gate claims it, and compose drops the push because a
\* topic matched.  Whatever was meant and whichever call failed, once the turn
\* is over somebody was told or the message is in the backlog.
SomebodyHears ==
    /\ Heard /\ ~plan.labelled /\ ~plan.raised => plan.text # "none" \/ plan.push
    /\ sent.plan # NoPlan => sent.text # "none" \/ sent.pushed \/ ~sent.handled

\* A customer who asks for a quote and commits to dates, or to a date and a
\* headcount, is never sent off with the answer to a FAQ, whatever words the
\* message has and whatever the LLM makes of them.
FaqYieldsToBooking == plan.committed => plan.text \notin {"faq", "defer"}

\* An answer made from the row uses nothing that the customer last said while
\* the desk was off and more than 20 minutes ago, unless she was asked to
\* confirm it (_is_stale_off_accumulation) in a message that went out.
StaleIsReconfirmed ==
    Final(plan.text) /\ plan.fromRow => ~doubt.old \/ doubt.slots = {}

\* A customer who is asked for more has an open row, and it holds what her
\* message said: the dates and the headcount are not asked for again.
AskingIsRemembered == plan.text \in {"ask", "nudge"} => plan.kept

-----------------------------------------------------------------------------
(* What the documents and texts say and the code does not do.              *)

\* domain/reply_text.py: the staff will see to it and answer later.  Then an
\* owner was pushed, or the message is in her backlog.
StaffPromiseIsKept ==
    sent.text \in {"defer", "soft", "staff"} => sent.pushed \/ ~sent.handled
=============================================================================
