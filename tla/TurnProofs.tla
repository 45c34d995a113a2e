----------------------------- MODULE TurnProofs -----------------------------
(***************************************************************************)
(* Proofs about Turn, for every set of messages, every reading of the LLM  *)
(* and conversations of any length.  Three of the properties speak of the  *)
(* plan alone and follow from how it is made; the two about the row need   *)
(* the shape of the row (RowShape), and the one about what is old the link *)
(* between the slots in doubt and the mark of the row (Marked).  The types *)
(* come last: they follow the slots from the schema of the LLM's answer    *)
(* through every merge to the row.                                         *)
(*                                                                         *)
(* The races of the code (the first gate that matches wins) are taken      *)
(* apart once, in FirstWins; each race then has a lemma of its cases.      *)
(***************************************************************************)
EXTENDS Turn, TLAPS

\* A race is won by the first entry whose condition holds.
LEMMA FirstWins ==
    ASSUME NEW race, NEW n \in Nat, DOMAIN race = 1..n,
           NEW k \in 1..n, race[k][1], \A j \in 1..(k - 1) : ~race[j][1]
    PROVE  FirstOf(race) = race[k][2]
  <1>. DEFINE Wins(i) == race[i][1] /\ \A j \in 1..(i - 1) : ~race[j][1]
  <1>1. k \in DOMAIN race /\ Wins(k)
    OBVIOUS
  <1>2. ASSUME NEW i \in DOMAIN race, Wins(i)
        PROVE  i = k
    <2>1. i \in Nat /\ k \in Nat /\ i >= 1 /\ k >= 1
      OBVIOUS
    <2>2. ~(i < k)
      <3>. SUFFICES ASSUME i < k PROVE FALSE
        OBVIOUS
      <3>1. i \in 1..(k - 1)
        BY <2>1
      <3>. QED
        BY <1>2, <3>1
    <2>3. ~(k < i)
      <3>. SUFFICES ASSUME k < i PROVE FALSE
        OBVIOUS
      <3>1. k \in 1..(i - 1)
        BY <2>1
      <3>. QED
        BY <1>2, <3>1
    <2>. QED
      BY <2>1, <2>2, <2>3
  <1>. HIDE DEF Wins
  <1>3. (CHOOSE i \in DOMAIN race : Wins(i)) = k
    BY <1>1, <1>2
  <1>. QED
    BY <1>3 DEF FirstOf, Wins

\* The gates of ConversationReplyComposer.compose, one by one: which of them
\* made the reply, and what is known when it did.
LEMMA ComposeCases ==
    ASSUME NEW m, NEW d, NEW r, NEW reply \in Compose(m, d, r)
    PROVE  \/ d.urgent /\ reply = Reply("none", TRUE)
           \/ ~d.urgent /\ d.off /\ reply = Reply("none", FALSE)
           \/ /\ ~d.urgent /\ ~d.off
              /\ \/ FaqClaims(m, d, r) /\ reply = FaqReply(m)
                 \/ ~FaqClaims(m, d, r) /\ Final(d.text) /\ reply = Reply(d.text, d.push)
                 \/ ~FaqClaims(m, d, r) /\ ~r.open /\ reply = RowlessReply(m, d)
                 \/ r.open /\ reply = Reply("nudge", FALSE)
                 \/ r.open /\ r.off # "stale" /\ reply \in RowReplies(d, r)
  <1>. DEFINE race == <<
        <<d.urgent, {Reply("none", TRUE)}>>,
        <<d.off, {Reply("none", FALSE)}>>,
        <<FaqClaims(m, d, r), {FaqReply(m)}>>,
        <<Final(d.text), {Reply(d.text, d.push)}>>,
        <<~r.open, {RowlessReply(m, d)}>>,
        <<r.off = "stale", {Reply("nudge", FALSE)}>>,
        <<TRUE, RowReplies(d, r)>>>>
  <1>1. DOMAIN race = 1..7
    OBVIOUS
  <1>2. reply \in FirstOf(race)
    BY Zenon DEF Compose
  <1>3. /\ race[1][1] <=> d.urgent
        /\ race[2][1] <=> d.off
        /\ race[3][1] <=> FaqClaims(m, d, r)
        /\ race[4][1] <=> Final(d.text)
        /\ race[5][1] <=> ~r.open
        /\ race[6][1] <=> r.off = "stale"
        /\ race[7][1]
    BY Zenon
  <1>4. /\ race[1][2] = {Reply("none", TRUE)}
        /\ race[2][2] = {Reply("none", FALSE)}
        /\ race[3][2] = {FaqReply(m)}
        /\ race[4][2] = {Reply(d.text, d.push)}
        /\ race[5][2] = {RowlessReply(m, d)}
        /\ race[6][2] = {Reply("nudge", FALSE)}
        /\ race[7][2] = RowReplies(d, r)
    BY Zenon
  <1>. HIDE DEF race
  <1>5. PICK k \in 1..7 : race[k][1] /\ \A j \in 1..(k - 1) : ~race[j][1]
    BY <1>3, Z3
  <1>6. reply \in race[k][2]
    BY <1>1, <1>2, <1>5, FirstWins
  <1>7. \A j \in 1..7 : j < k => ~race[j][1]
    BY <1>5
  <1>8. \/ k = 1 /\ d.urgent
        \/ k = 2 /\ ~d.urgent /\ d.off
        \/ /\ ~d.urgent /\ ~d.off
           /\ \/ k = 3 /\ FaqClaims(m, d, r)
              \/ k = 4 /\ ~FaqClaims(m, d, r) /\ Final(d.text)
              \/ k = 5 /\ ~FaqClaims(m, d, r) /\ ~r.open
              \/ k = 6 /\ r.open
              \/ k = 7 /\ r.open /\ r.off # "stale"
    BY <1>3, <1>5, <1>7
  <1>9. /\ k = 1 => reply = Reply("none", TRUE)
        /\ k = 2 => reply = Reply("none", FALSE)
        /\ k = 3 => reply = FaqReply(m)
        /\ k = 4 => reply = Reply(d.text, d.push)
        /\ k = 5 => reply = RowlessReply(m, d)
        /\ k = 6 => reply = Reply("nudge", FALSE)
        /\ k = 7 => reply \in RowReplies(d, r)
    BY <1>4, <1>6, Zenon
  <1>. QED
    BY <1>8, <1>9, Zenon

\* Every final answer is a quote or the word of the staff.
LEMMA FinalsAnswer ==
    ASSUME NEW f \in Finals
    PROVE  f[1] = "quote" \/ f[1] = "staff"
  <1>1. f = <<"quote", FALSE>> \/ f = <<"quote", TRUE>> \/ f = <<"staff", TRUE>>
    BY Zenon DEF Finals
  <1>2. /\ <<"quote", FALSE>>[1] = "quote"
        /\ <<"quote", TRUE>>[1] = "quote"
        /\ <<"staff", TRUE>>[1] = "staff"
    BY Zenon
  <1>. QED
    BY <1>1, <1>2, Zenon

\* A request for a quote, decided on the message alone, is answered with a
\* question, a quote or the word of the staff (_handle_quote_relevant).
LEMMA QuoteDecisionsAnswer ==
    ASSUME NEW p, NEW d \in QuoteDecisions(p)
    PROVE  /\ ~d.urgent /\ ~d.off
           /\ d.text \in {"ask", "quote", "staff"}
           /\ d.intent = p.intent /\ d.says = p.says
  <1>. DEFINE probed == IF "in" \in p.says /\ "out" \notin p.says
                        THEN {Decision(p, "staff", TRUE)} ELSE {}
              race == <<
        <<p.clarify \/ ~(Stay \subseteq p.says), probed \cup {Decision(p, "ask", FALSE)}>>,
        <<"rooms" \notin p.says, {Decision(p, "ask", FALSE)}>>,
        <<TRUE, {Decision(p, "ask", FALSE)} \cup {Decision(p, f[1], f[2]) : f \in Finals}>>>>
  <1>1. DOMAIN race = 1..3
    BY Zenon, Z3
  <1>2. d \in FirstOf(race)
    BY Zenon DEF QuoteDecisions
  <1>3. race[3][1]
    BY Zenon
  <1>4. /\ race[1][2] = probed \cup {Decision(p, "ask", FALSE)}
        /\ race[2][2] = {Decision(p, "ask", FALSE)}
        /\ race[3][2] = {Decision(p, "ask", FALSE)} \cup {Decision(p, f[1], f[2]) : f \in Finals}
    BY Zenon
  <1>. HIDE DEF race
  <1>5. PICK k \in 1..3 : race[k][1] /\ \A j \in 1..(k - 1) : ~race[j][1]
    BY <1>3, Z3
  <1>6. d \in race[k][2]
    BY <1>1, <1>2, <1>5, FirstWins
  <1>7. \/ d = Decision(p, "ask", FALSE)
        \/ d = Decision(p, "staff", TRUE)
        \/ \E f \in Finals : d = Decision(p, f[1], f[2])
    <2>1. k = 1 \/ k = 2 \/ k = 3
      OBVIOUS
    <2>2. k = 1 => d \in probed \cup {Decision(p, "ask", FALSE)}
      BY <1>4, <1>6, Zenon
    <2>3. k = 2 => d \in {Decision(p, "ask", FALSE)}
      BY <1>4, <1>6, Zenon
    <2>4. k = 3 => d \in {Decision(p, "ask", FALSE)} \cup {Decision(p, f[1], f[2]) : f \in Finals}
      BY <1>4, <1>6, Zenon
    <2>5. d \in probed => d = Decision(p, "staff", TRUE)
      BY Zenon
    <2>. HIDE DEF probed
    <2>6. k = 1 => d = Decision(p, "staff", TRUE) \/ d = Decision(p, "ask", FALSE)
      BY <2>2, <2>5, Zenon
    <2>7. k = 2 => d = Decision(p, "ask", FALSE)
      BY <2>3, Zenon
    <2>8. k = 3 => \/ d = Decision(p, "ask", FALSE)
                   \/ \E f \in Finals : d = Decision(p, f[1], f[2])
      BY <2>4, Zenon
    <2>9. CASE k = 1
      BY <2>6, <2>9, Zenon
    <2>10. CASE k = 2
      BY <2>7, <2>10, Zenon
    <2>11. CASE k = 3
      BY <2>8, <2>11, Zenon
    <2>. QED
      BY <2>1, <2>9, <2>10, <2>11, Zenon
  <1>8. CASE \E f \in Finals : d = Decision(p, f[1], f[2])
    <2>1. PICK f \in Finals : d = Decision(p, f[1], f[2])
      BY <1>8
    <2>2. f[1] = "quote" \/ f[1] = "staff"
      BY FinalsAnswer
    <2>. QED
      BY <2>1, <2>2 DEF Decision
  <1>. QED
    BY <1>7, <1>8 DEF Decision

\* What InquiryService.handle_message decides: nothing but a push for an urgent
\* message, nothing while the desk is off, and else a push for what is no
\* request and a text for what is one.
LEMMA DecisionCases ==
    ASSUME NEW m \in Message, NEW d \in Decisions(m)
    PROVE  \/ m.urgent /\ d.urgent /\ d.text = "none"
           \/ ~m.urgent /\ mode # "on" /\ ~d.urgent /\ d.off /\ d.text = "none"
           \/ /\ ~m.urgent /\ mode = "on" /\ ~d.urgent /\ ~d.off
              /\ \/ d.text = "none" /\ d.push /\ d.intent \notin QuoteIntents
                 \/ d.text \in {"ask", "quote", "staff"} /\ d.intent \in QuoteIntents
  <1>. DEFINE race == <<
        <<m.urgent, {[Decision(RuleParse(m), "none", TRUE) EXCEPT !.urgent = TRUE]}>>,
        <<mode # "on", {[Decision(RuleParse(m), "none", FALSE) EXCEPT !.off = TRUE]}>>,
        <<TRUE, DecisionsOn[m]>>>>
  <1>1. DOMAIN race = 1..3
    OBVIOUS
  <1>2. d \in FirstOf(race)
    BY Zenon DEF Decisions
  <1>3. /\ race[1][1] <=> m.urgent
        /\ race[2][1] <=> mode # "on"
        /\ race[3][1]
    BY Zenon
  <1>4. /\ race[1][2] = {[Decision(RuleParse(m), "none", TRUE) EXCEPT !.urgent = TRUE]}
        /\ race[2][2] = {[Decision(RuleParse(m), "none", FALSE) EXCEPT !.off = TRUE]}
        /\ race[3][2] = DecisionsOn[m]
    BY Zenon
  <1>. HIDE DEF race
  <1>5. PICK k \in 1..3 : race[k][1] /\ \A j \in 1..(k - 1) : ~race[j][1]
    BY <1>3, Z3
  <1>6. d \in race[k][2]
    BY <1>1, <1>2, <1>5, FirstWins
  <1>7. \/ k = 1 /\ m.urgent
        \/ k = 2 /\ ~m.urgent /\ mode # "on"
        \/ k = 3 /\ ~m.urgent /\ mode = "on"
    BY <1>3, <1>5
  <1>8. CASE k = 1 /\ m.urgent
    <2>1. d = [Decision(RuleParse(m), "none", TRUE) EXCEPT !.urgent = TRUE]
      BY <1>4, <1>6, <1>8, Zenon
    <2>. QED
      BY <1>8, <2>1 DEF Decision
  <1>9. CASE k = 2 /\ ~m.urgent /\ mode # "on"
    <2>1. d = [Decision(RuleParse(m), "none", FALSE) EXCEPT !.off = TRUE]
      BY <1>4, <1>6, <1>9, Zenon
    <2>. QED
      BY <1>9, <2>1 DEF Decision
  <1>10. CASE k = 3 /\ ~m.urgent /\ mode = "on"
    <2>1. d \in UNION {IF p.intent \in QuoteIntents THEN QuoteDecisions(p)
                       ELSE {Decision(p, "none", TRUE)} : p \in Parses[m]}
      BY <1>4, <1>6, <1>10, Zenon DEF DecisionsOn
    <2>2. PICK p \in Parses[m] : d \in IF p.intent \in QuoteIntents THEN QuoteDecisions(p)
                                       ELSE {Decision(p, "none", TRUE)}
      BY <2>1, Zenon
    <2>3. CASE p.intent \in QuoteIntents
      BY <1>10, <2>2, <2>3, QuoteDecisionsAnswer
    <2>4. CASE p.intent \notin QuoteIntents
      BY <1>10, <2>2, <2>4 DEF Decision
    <2>. QED
      BY <2>3, <2>4
  <1>. QED
    BY <1>7, <1>8, <1>9, <1>10

\* A decision that is withheld, or left to the owner, has no text.
LEMMA WithheldSaysNothing ==
    ASSUME NEW m \in Message, NEW d \in Decisions(m), d.urgent \/ d.off
    PROVE  d.text = "none"
  BY DecisionCases

\* A reply is composed, or compose raised, or the LLM took the message out of
\* the open booking.
LEMMA ReplyCases ==
    ASSUME NEW m, NEW d, NEW r, NEW reply \in Replies(m, d, r)
    PROVE  \/ reply \in Compose(m, d, r)
           \/ reply \in Raised(d)
           \/ OffTopic(d, r) /\ reply = Detour
  BY Zenon DEF Replies

\* The fall-back for a compose that raised says what the decision said.
LEMMA RaisedCase ==
    ASSUME NEW d, NEW reply \in Raised(d)
    PROVE  /\ ~d.urgent /\ ~d.off
           /\ reply.text = d.text /\ reply.raised
  <1>1. ~d.urgent /\ ~d.off
    BY Zenon DEF Raised
  <1>2. reply = [Reply(d.text, FALSE) EXCEPT !.raised = TRUE]
    BY <1>1, Zenon DEF Raised
  <1>. QED
    BY <1>1, <1>2 DEF Reply

-----------------------------------------------------------------------------

\* The replies that are for the owner only.
LEMMA NothingIsSaid ==
    /\ Reply("none", TRUE).text = "none"
    /\ Reply("none", FALSE).text = "none"
    /\ ~Reply("none", FALSE).push
    /\ Detour.text = "none"
  BY Zenon DEF Reply, Detour

\* A turn leaves the plan of one of the replies.
LEMMA TurnIsPlanned ==
    ASSUME NEW m \in Message, TakeTurn(m)
    PROVE  \E d \in Decisions(m) : \E r : \E reply \in Replies(m, d, r) :
              plan' = Planned(m, d, r, reply)
  BY Zenon DEF TakeTurn

\* The plan of a turn is quiet.
LEMMA PlanIsQuiet ==
    ASSUME NEW m \in Message, NEW d \in Decisions(m), NEW r,
           NEW reply \in Replies(m, d, r)
    PROVE  /\ mode # "on" \/ m.urgent => reply.text = "none"
           /\ mode # "on" /\ ~m.urgent =>
                ~reply.push \/ (OffTopic(d, r) /\ reply = Detour)
  <1>1. CASE m.urgent
    <2>1. d.urgent
      BY <1>1, DecisionCases
    <2>2. reply \in Compose(m, d, r) => reply = Reply("none", TRUE)
      BY <2>1, ComposeCases
    <2>3. reply \in Compose(m, d, r) \/ reply = Detour
      BY <2>1, ReplyCases, RaisedCase
    <2>4. reply.text = "none"
      BY <2>2, <2>3, NothingIsSaid, Zenon
    <2>. QED
      BY <1>1, <2>4, Zenon
  <1>2. CASE ~m.urgent /\ mode # "on"
    <2>1. ~d.urgent /\ d.off
      BY <1>2, DecisionCases
    <2>2. reply \in Compose(m, d, r) => reply = Reply("none", FALSE)
      BY <2>1, ComposeCases
    <2>3. reply \in Compose(m, d, r) \/ (OffTopic(d, r) /\ reply = Detour)
      BY <2>1, ReplyCases, RaisedCase
    <2>. QED
      BY <2>2, <2>3, NothingIsSaid, Zenon
  <1>. QED
    BY <1>1, <1>2, Zenon

\* While the desk is off, and on urgent messages, the customer is not answered;
\* while off the owner is pushed for nothing but an urgent message and one that
\* the LLM takes out of an open booking: of the gates of compose only the first
\* two can fire, and compose cannot raise before them.
THEOREM Quiet == Spec => []QuietUnlessOn
  <1>1. Init => QuietUnlessOn
    BY DEF Init, QuietUnlessOn, NoPlan, Heard
  <1>2. QuietUnlessOn /\ [Next]_vars => QuietUnlessOn'
    <2>. SUFFICES ASSUME QuietUnlessOn, [Next]_vars
                  PROVE  QuietUnlessOn'
      OBVIOUS
    <2>1. ASSUME NEW m \in Message, TakeTurn(m)
          PROVE  QuietUnlessOn'
      <3>1. PICK d \in Decisions(m) : \E r : \E reply \in Replies(m, d, r) :
                plan' = Planned(m, d, r, reply)
        BY <2>1, TurnIsPlanned
      <3>2. PICK r : \E reply \in Replies(m, d, r) : plan' = Planned(m, d, r, reply)
        BY <3>1
      <3>3. PICK reply \in Replies(m, d, r) : plan' = Planned(m, d, r, reply)
        BY <3>2
      <3>4. /\ plan'.mode = mode
            /\ plan'.urgent = m.urgent
            /\ plan'.text = reply.text
            /\ plan'.push = reply.push
            /\ plan'.detour <=> OffTopic(d, r) /\ reply = Detour
        BY <3>3, Zenon DEF Planned
      <3>. QED
        BY <3>4, PlanIsQuiet, Zenon DEF QuietUnlessOn, Heard
    <2>2. CASE plan' = NoPlan
      BY <2>2 DEF QuietUnlessOn, NoPlan, Heard
    <2>3. CASE plan' = plan
      BY <2>3 DEF QuietUnlessOn, Heard
    <2>. QED
      BY <2>1, <2>2, <2>3 DEF Next, Deliver, TurnEnds, Switch, MinutesPass, Expire, vars
  <1>. QED
    BY <1>1, <1>2, PTL DEF Spec

-----------------------------------------------------------------------------

\* What is made from an open row is an answer to the customer.
LEMMA RowRepliesAnswer ==
    ASSUME NEW d, NEW r, NEW reply \in RowReplies(d, r)
    PROVE  reply.text \in {"ask", "quote", "staff"}
  <1>1. \/ reply = Reply("staff", TRUE)
        \/ reply = Reply("ask", FALSE)
        \/ \E f \in Finals : reply = Reply(f[1], f[2])
    BY Zenon DEF RowReplies
  <1>2. CASE \E f \in Finals : reply = Reply(f[1], f[2])
    <2>1. PICK f \in Finals : reply = Reply(f[1], f[2])
      BY <1>2
    <2>. QED
      BY <2>1, FinalsAnswer DEF Reply
  <1>. QED
    BY <1>1, <1>2 DEF Reply

\* No gate for questions claims a message that commits to a stay.
LEMMA CommittedIsNotClaimed ==
    ASSUME NEW m, NEW d, NEW r, d.intent \in QuoteIntents,
           Dates \subseteq d.says \/ (HasDate(d.says) /\ "guests" \in d.says)
    PROVE  ~FaqClaims(m, d, r)
  <1>1. HasDate(d.says)
    BY DEF HasDate, Dates
  <1>2. ResolvedBooking(m, d)
    BY <1>1, Zenon DEF ResolvedBooking
  <1>3. d.intent # "faq"
    BY DEF QuoteIntents
  <1>. QED
    BY <1>2, <1>3, Zenon DEF FaqClaims, AnswersTopic

\* Only a gate for questions answers with a FAQ.
LEMMA PlanYields ==
    ASSUME NEW m \in Message, NEW d \in Decisions(m), NEW r,
           NEW reply \in Replies(m, d, r),
           ~d.urgent, ~d.off, ~FaqClaims(m, d, r)
    PROVE  reply.text \notin {"faq", "defer"}
  <1>1. d.text \notin {"faq", "defer"}
    BY DecisionCases
  <1>2. CASE reply \in Compose(m, d, r)
    <2>1. \/ reply = Reply(d.text, d.push)
          \/ reply = RowlessReply(m, d)
          \/ reply = Reply("nudge", FALSE)
          \/ reply \in RowReplies(d, r)
      BY <1>2, ComposeCases
    <2>2. reply \in RowReplies(d, r) => reply.text \notin {"faq", "defer"}
      BY RowRepliesAnswer
    <2>3. /\ Reply(d.text, d.push).text = d.text
          /\ RowlessReply(m, d).text = d.text
          /\ Reply("nudge", FALSE).text = "nudge"
      BY Zenon DEF Reply, RowlessReply
    <2>. QED
      BY <1>1, <2>1, <2>2, <2>3
  <1>3. CASE reply \in Raised(d)
    BY <1>1, <1>3, RaisedCase
  <1>4. CASE reply = Detour
    BY <1>4, NothingIsSaid
  <1>. QED
    BY <1>2, <1>3, <1>4, ReplyCases

\* A request for a quote that commits to a stay is not answered with a FAQ: each
\* of the three gates for questions excludes it.
THEOREM Yields == Spec => []FaqYieldsToBooking
  <1>1. Init => FaqYieldsToBooking
    BY DEF Init, FaqYieldsToBooking, NoPlan
  <1>2. FaqYieldsToBooking /\ [Next]_vars => FaqYieldsToBooking'
    <2>. SUFFICES ASSUME FaqYieldsToBooking, [Next]_vars
                  PROVE  FaqYieldsToBooking'
      OBVIOUS
    <2>1. ASSUME NEW m \in Message, TakeTurn(m)
          PROVE  FaqYieldsToBooking'
      <3>1. PICK d \in Decisions(m) : \E r : \E reply \in Replies(m, d, r) :
                plan' = Planned(m, d, r, reply)
        BY <2>1, TurnIsPlanned
      <3>2. PICK r : \E reply \in Replies(m, d, r) : plan' = Planned(m, d, r, reply)
        BY <3>1
      <3>3. PICK reply \in Replies(m, d, r) : plan' = Planned(m, d, r, reply)
        BY <3>2
      <3>4. /\ plan'.text = reply.text
            /\ plan'.committed =>
                 /\ ~d.urgent /\ ~d.off /\ d.intent \in QuoteIntents
                 /\ Dates \subseteq d.says \/ (HasDate(d.says) /\ "guests" \in d.says)
        BY <3>3, Zenon DEF Planned
      <3>. QED
        BY <3>4, PlanYields, CommittedIsNotClaimed DEF FaqYieldsToBooking
    <2>2. CASE plan' = NoPlan
      BY <2>2 DEF FaqYieldsToBooking, NoPlan
    <2>3. CASE plan' = plan
      BY <2>3 DEF FaqYieldsToBooking
    <2>. QED
      BY <2>1, <2>2, <2>3 DEF Next, Deliver, TurnEnds, Switch, MinutesPass, Expire, vars
  <1>. QED
    BY <1>1, <1>2, PTL DEF Spec

-----------------------------------------------------------------------------

\* What an unclaimed message without a row can be that has topics: a departure.
LEMMA UnclaimedIsLabelled ==
    ASSUME NEW m, NEW d, NEW r, ~FaqClaims(m, d, r), ~r.open,
           m.topics # <<>>, ~FormReply(m), d.intent \notin QuoteIntents
    PROVE  FirstTopic(m) = "checkout" /\ HasDate(d.says)
  <1>1. ~AnswersTopic(m, d, r)
    BY Zenon DEF FaqClaims
  <1>2. ~ProductQuote(m, d) /\ ~ResolvedBooking(m, d)
    BY Zenon DEF ProductQuote, ResolvedBooking
  <1>3. d.intent # "price"
    BY DEF QuoteIntents
  <1>4. FirstTopic(m) = "checkout" /\ ~BareCheckout(d, r)
    BY <1>1, <1>2, <1>3, Zenon DEF AnswersTopic
  <1>. QED
    BY <1>4, Zenon DEF BareCheckout

\* A turn that is on, or urgent, means to tell somebody.
LEMMA SomebodyIsMeant ==
    ASSUME NEW m \in Message, NEW d \in Decisions(m), NEW r,
           NEW reply \in Replies(m, d, r), mode = "on" \/ m.urgent,
           reply \notin Raised(d)
    PROVE  \/ reply.text # "none" \/ reply.push
           \/ /\ FirstTopic(m) = "checkout" /\ HasDate(d.says) /\ ~FormReply(m)
              /\ d.intent \notin QuoteIntents /\ ~r.open
  <1>1. CASE reply = Detour
    BY <1>1, Zenon DEF Detour, Reply
  <1>2. CASE reply \in Compose(m, d, r) /\ d.urgent
    <2>1. reply = Reply("none", TRUE)
      BY <1>2, ComposeCases
    <2>. QED
      BY <2>1, Zenon DEF Reply
  <1>3. CASE reply \in Compose(m, d, r) /\ ~d.urgent
    <2>1. /\ ~d.off
          /\ \/ d.text = "none" /\ d.push /\ d.intent \notin QuoteIntents
             \/ d.text \in {"ask", "quote", "staff"}
      BY <1>3, DecisionCases
    <2>2. \/ reply = FaqReply(m)
          \/ Final(d.text) /\ reply = Reply(d.text, d.push)
          \/ ~FaqClaims(m, d, r) /\ ~r.open /\ reply = RowlessReply(m, d)
          \/ reply = Reply("nudge", FALSE)
          \/ reply \in RowReplies(d, r)
      BY <1>3, <2>1, ComposeCases
    <2>3. CASE reply = FaqReply(m)
      BY <2>3 DEF FaqReply, Reply
    <2>4. CASE Final(d.text) /\ reply = Reply(d.text, d.push)
      BY <2>4 DEF Final, Reply
    <2>5. CASE ~FaqClaims(m, d, r) /\ ~r.open /\ reply = RowlessReply(m, d)
      <3>1. /\ reply.text = d.text
            /\ reply.push <=> d.push /\ d.text = "none" /\ (m.topics = <<>> \/ FormReply(m))
        BY <2>5, Zenon DEF RowlessReply, Reply
      <3>2. CASE d.text # "none"
        BY <3>1, <3>2
      <3>3. CASE d.text = "none" /\ (m.topics = <<>> \/ FormReply(m))
        BY <2>1, <3>1, <3>3
      <3>4. CASE d.text = "none" /\ m.topics # <<>> /\ ~FormReply(m)
        <4>1. d.intent \notin QuoteIntents
          BY <2>1, <3>4
        <4>. QED
          BY <2>5, <3>4, <4>1, UnclaimedIsLabelled
      <3>. QED
        BY <3>2, <3>3, <3>4
    <2>6. CASE reply = Reply("nudge", FALSE)
      BY <2>6 DEF Reply
    <2>7. CASE reply \in RowReplies(d, r)
      BY <2>7, RowRepliesAnswer
    <2>. QED
      BY <2>2, <2>3, <2>4, <2>5, <2>6, <2>7
  <1>. QED
    BY <1>1, <1>2, <1>3, ReplyCases

\* After a delivery somebody was told, or the message is in the backlog.
LEMMA DeliveryIsHonest ==
    ASSUME Deliver
    PROVE  sent'.text # "none" \/ sent'.pushed \/ ~sent'.handled
  <1>1. PICK pushed, replied :
            sent' = [plan |-> plan,
                     text |-> IF replied THEN Wording(pushed) ELSE "none",
                     pushed |-> pushed,
                     handled |-> Settled(pushed, replied)]
    BY Zenon DEF Deliver
  <1>2. /\ sent'.text = IF replied THEN Wording(pushed) ELSE "none"
        /\ sent'.pushed <=> pushed
        /\ sent'.handled <=> Settled(pushed, replied)
    BY <1>1, Zenon
  <1>3. plan.text # "none" => Wording(pushed) # "none"
    BY DEF Wording
  <1>. QED
    BY <1>2, <1>3, Zenon DEF Settled

\* Whatever is urgent or comes while the desk is on is meant for somebody, and
\* once it is delivered somebody was told or the backlog has it
\* (_correct_handled_if_silent_drop): no gate of compose answers with nothing
\* but the ones SomebodyHears names.
THEOREM Hears == Spec => []SomebodyHears
  <1>1. Init => SomebodyHears
    BY DEF Init, SomebodyHears, Heard, NoPlan, NotSent
  <1>2. SomebodyHears /\ [Next]_vars => SomebodyHears'
    <2>. SUFFICES ASSUME SomebodyHears, [Next]_vars
                  PROVE  SomebodyHears'
      OBVIOUS
    <2>1. ASSUME NEW m \in Message, TakeTurn(m)
          PROVE  SomebodyHears'
      <3>1. PICK d \in Decisions(m) : \E r : \E reply \in Replies(m, d, r) :
                plan' = Planned(m, d, r, reply)
        BY <2>1, TurnIsPlanned
      <3>2. PICK r : \E reply \in Replies(m, d, r) : plan' = Planned(m, d, r, reply)
        BY <3>1
      <3>3. PICK reply \in Replies(m, d, r) : plan' = Planned(m, d, r, reply)
        BY <3>2
      <3>4. /\ plan'.mode = mode
            /\ plan'.urgent = m.urgent
            /\ plan'.text = reply.text
            /\ plan'.push = reply.push
            /\ plan'.raised = reply.raised
            /\ /\ FirstTopic(m) = "checkout" /\ HasDate(d.says) /\ ~FormReply(m)
               /\ d.intent \notin QuoteIntents /\ ~r.open
               => plan'.labelled
        BY <3>3, Zenon DEF Planned
      <3>5. reply \in Raised(d) => reply.raised
        BY RaisedCase
      <3>6. Heard' => mode = "on" \/ m.urgent
        BY <3>4, Zenon DEF Heard
      <3>7. Heard' /\ ~plan'.labelled /\ ~plan'.raised => plan'.text # "none" \/ plan'.push
        BY <3>4, <3>5, <3>6, SomebodyIsMeant, Zenon
      <3>8. sent' = sent
        BY <2>1 DEF TakeTurn
      <3>. QED
        BY <3>7, <3>8 DEF SomebodyHears
    <2>2. CASE Deliver
      <3>1. plan' = NoPlan
        BY <2>2 DEF Deliver
      <3>2. ~Heard'
        BY <3>1 DEF Heard, NoPlan
      <3>. QED
        BY <2>2, <3>2, DeliveryIsHonest DEF SomebodyHears
    <2>3. CASE TurnEnds
      BY <2>3 DEF TurnEnds, SomebodyHears, Heard, NotSent
    <2>4. CASE plan' = plan /\ sent' = sent
      BY <2>4 DEF SomebodyHears, Heard
    <2>. QED
      BY <2>1, <2>2, <2>3, <2>4 DEF Next, Switch, MinutesPass, Expire, vars
  <1>. QED
    BY <1>1, <1>2, PTL DEF Spec

-----------------------------------------------------------------------------

\* The row is a record of the three fields that the steps update.
RowShape ==
    \E open, slots, off : row = [open |-> open, slots |-> slots, off |-> off]

\* ConversationStateService.record: a row is opened, left closed, updated or
\* replaced.
LEMMA RecordedCases ==
    ASSUME NEW d, NEW r \in Recorded(d)
    PROVE  \/ ~row.open /\ ShouldOpen(d) /\ r = NewRow(d)
           \/ ~row.open /\ ~ShouldOpen(d) /\ r = NoRow
           \/ row.open /\ \E slots \in Readings(d) : r = Update(d, slots)
           \/ row.open /\ Stay \subseteq d.says /\ r = NewRow(d)
  <1>. DEFINE race == <<
        <<~row.open, {IF ShouldOpen(d) THEN NewRow(d) ELSE NoRow}>>,
        <<TRUE, {Update(d, slots) : slots \in Readings(d)}
                    \cup IF Stay \subseteq d.says \cap row.slots THEN {NewRow(d)}
                         ELSE {}>>>>
  <1>1. DOMAIN race = 1..2
    BY Zenon, Z3
  <1>2. r \in FirstOf(race)
    BY Zenon DEF Recorded
  <1>3. (race[1][1] <=> ~row.open) /\ race[2][1]
    BY Zenon
  <1>4. /\ race[1][2] = {IF ShouldOpen(d) THEN NewRow(d) ELSE NoRow}
        /\ race[2][2] = {Update(d, slots) : slots \in Readings(d)}
                          \cup IF Stay \subseteq d.says \cap row.slots THEN {NewRow(d)} ELSE {}
    BY Zenon
  <1>. HIDE DEF race
  <1>5. PICK k \in 1..2 : race[k][1] /\ \A j \in 1..(k - 1) : ~race[j][1]
    BY <1>3, Z3
  <1>6. r \in race[k][2]
    BY <1>1, <1>2, <1>5, FirstWins
  <1>7. (k = 1 /\ ~row.open) \/ (k = 2 /\ row.open)
    BY <1>3, <1>5
  <1>8. CASE k = 1 /\ ~row.open
    BY <1>4, <1>6, <1>8, Zenon
  <1>9. CASE k = 2 /\ row.open
    BY <1>4, <1>6, <1>9, Zenon
  <1>. QED
    BY <1>7, <1>8, <1>9

\* What a message says is in the row that is open after it, but for rooms.
LEMMA RecordedKeeps ==
    ASSUME RowShape, NEW d, NEW r \in Recorded(d), r.open
    PROVE  d.says \ {"rooms"} \subseteq r.slots
  <1>1. CASE r = NewRow(d)
    BY <1>1 DEF NewRow
  <1>2. CASE r = NoRow
    BY <1>2 DEF NoRow
  <1>3. ASSUME NEW slots \in Readings(d), r = Update(d, slots)
        PROVE  d.says \ {"rooms"} \subseteq r.slots
    <2>1. d.says \ {"rooms"} \subseteq slots
      BY DEF Readings
    <2>2. CASE slots = {}
      BY <2>1, <2>2
    <2>3. CASE slots # {}
      <3>1. r.slots = row.slots \cup slots
        BY <1>3, <2>3 DEF Update, RowShape
      <3>. QED
        BY <2>1, <3>1
    <2>. QED
      BY <2>2, <2>3
  <1>. QED
    BY <1>1, <1>2, <1>3, RecordedCases

\* A request for a quote leaves an open row behind.
LEMMA RequestOpens ==
    ASSUME RowShape, NEW d, NEW r \in Recorded(d), ~d.urgent, d.intent \in QuoteIntents
    PROVE  r.open
  <1>1. ShouldOpen(d)
    BY Zenon DEF ShouldOpen
  <1>2. CASE r = NewRow(d)
    BY <1>2, Zenon DEF NewRow
  <1>3. ASSUME NEW slots \in Readings(d), r = Update(d, slots), row.open
        PROVE  r.open
    BY <1>3 DEF Update, RowShape
  <1>. QED
    BY <1>1, <1>2, <1>3, RecordedCases

\* Recording a message keeps the shape of the row.
LEMMA RecordedShape ==
    ASSUME RowShape, NEW d, NEW r \in Recorded(d)
    PROVE  \E open, slots, off : r = [open |-> open, slots |-> slots, off |-> off]
  <1>1. CASE r = NewRow(d)
    BY <1>1, Zenon DEF NewRow
  <1>2. CASE r = NoRow
    BY <1>2, Zenon DEF NoRow
  <1>3. ASSUME NEW said \in Readings(d), r = Update(d, said)
        PROVE  \E open, slots, off : r = [open |-> open, slots |-> slots, off |-> off]
    <2>1. PICK open, slots, off : row = [open |-> open, slots |-> slots, off |-> off]
      BY DEF RowShape
    <2>2. r = row \/ r = [open |-> open, slots |-> slots \cup said, off |-> OffFlag(d, off)]
      BY <1>3, <2>1 DEF Update
    <2>. QED
      BY <2>1, <2>2, Zenon
  <1>. QED
    BY <1>1, <1>2, <1>3, RecordedCases

\* A reply that asks is made with a row that is open.
LEMMA AskingHasRow ==
    ASSUME RowShape, NEW m \in Message, NEW d \in Decisions(m), NEW r \in Recorded(d),
           NEW reply \in Replies(m, d, r), reply.text \in {"ask", "nudge"}
    PROVE  r.open
  <1>1. d.text = "ask" => r.open
    <2>. SUFFICES ASSUME d.text = "ask"
                  PROVE  r.open
      OBVIOUS
    <2>1. d.urgent \/ d.off \/ (~d.urgent /\ d.intent \in QuoteIntents)
      BY DecisionCases
    <2>2. CASE ~d.urgent /\ d.intent \in QuoteIntents
      BY <2>2, RequestOpens
    <2>. QED
      BY <2>1, <2>2, WithheldSaysNothing
  <1>2. d.text \in {"none", "ask", "quote", "staff"}
    BY DecisionCases, WithheldSaysNothing
  <1>3. CASE reply \in Compose(m, d, r)
    <2>1. \/ r.open
          \/ reply.text = "none"
          \/ reply = FaqReply(m)
          \/ reply.text = d.text
      <3>1. /\ Reply("none", TRUE).text = "none"
            /\ Reply("none", FALSE).text = "none"
            /\ Reply(d.text, d.push).text = d.text
            /\ RowlessReply(m, d).text = d.text
        BY Zenon DEF Reply, RowlessReply
      <3>. QED
        BY <1>3, <3>1, ComposeCases
    <2>2. FaqReply(m).text \in {"faq", "defer"}
      BY DEF FaqReply, Reply
    <2>. QED
      BY <1>1, <1>2, <2>1, <2>2
  <1>4. CASE reply \in Raised(d)
    BY <1>1, <1>2, <1>4, RaisedCase
  <1>5. CASE reply = Detour
    BY <1>5, NothingIsSaid
  <1>. QED
    BY <1>3, <1>4, <1>5, ReplyCases

\* A customer who is asked for more has an open row with what her message said:
\* every gate that asks comes after the row, and a decision that asks is a
\* request, which opens one.
THEOREM Remembered == Spec => []AskingIsRemembered
  <1>. DEFINE Inv == RowShape /\ AskingIsRemembered
  <1>1. Init => Inv
    <2>1. Init => RowShape
      BY Zenon DEF Init, RowShape, NoRow
    <2>2. Init => AskingIsRemembered
      BY DEF Init, AskingIsRemembered, NoPlan
    <2>. QED
      BY <2>1, <2>2
  <1>2. Inv /\ [Next]_vars => Inv'
    <2>. SUFFICES ASSUME RowShape, AskingIsRemembered, [Next]_vars
                  PROVE  Inv'
      OBVIOUS
    <2>1. ASSUME NEW m \in Message, TakeTurn(m)
          PROVE  Inv'
      <3>1. PICK d \in Decisions(m) : \E r \in Recorded(d) : \E reply \in Replies(m, d, r) :
                row' = r /\ plan' = Planned(m, d, r, reply)
        BY <2>1, Zenon DEF TakeTurn
      <3>2. PICK r \in Recorded(d) : \E reply \in Replies(m, d, r) :
                row' = r /\ plan' = Planned(m, d, r, reply)
        BY <3>1
      <3>3. PICK reply \in Replies(m, d, r) : row' = r /\ plan' = Planned(m, d, r, reply)
        BY <3>2
      <3>4. /\ plan'.text = reply.text
            /\ plan'.kept <=> r.open /\ d.says \ {"rooms"} \subseteq r.slots
        BY <3>3, Zenon DEF Planned
      <3>5. AskingIsRemembered'
        BY <3>4, AskingHasRow, RecordedKeeps DEF AskingIsRemembered
      <3>6. RowShape'
        <4>1. PICK open, slots, off : r = [open |-> open, slots |-> slots, off |-> off]
          BY RecordedShape
        <4>. QED
          BY <3>3, <4>1, Zenon DEF RowShape
      <3>. QED
        BY <3>5, <3>6
    <2>2. CASE Deliver
      <3>1. plan' = NoPlan
        BY <2>2 DEF Deliver
      <3>2. row' = row \/ row' = AfterDelivery
        BY <2>2, Zenon DEF Deliver
      <3>3. RowShape'
        BY <3>2 DEF RowShape, AfterDelivery, NoRow
      <3>. QED
        BY <3>1, <3>3 DEF AskingIsRemembered, NoPlan
    <2>3. CASE TurnEnds \/ Switch \/ UNCHANGED vars
      BY <2>3 DEF TurnEnds, Switch, vars, RowShape, AskingIsRemembered
    <2>4. CASE MinutesPass \/ Expire
      <3>1. RowShape'
        BY <2>4 DEF MinutesPass, Expire, RowShape, NoRow
      <3>2. plan' = plan
        BY <2>4 DEF MinutesPass, Expire
      <3>. QED
        BY <3>1, <3>2 DEF AskingIsRemembered
    <2>. QED
      BY <2>1, <2>2, <2>3, <2>4 DEF Next
  <1>. QED
    BY <1>1, <1>2, PTL DEF Spec

-----------------------------------------------------------------------------

\* The mark of the row, and the shape of the history.
OffShape == row.off \in {"no", "recent", "stale"}
DoubtShape == \E slots, old : doubt = [slots |-> slots, old |-> old]

\* Slots in doubt belong to a row that is marked, and when the doubt is old the
\* mark is stale.
Marked(t, r) == t.slots # {} => r.open /\ r.off # "no" /\ (t.old => r.off = "stale")

\* What an update does to the slots and to the mark of an open row: said while
\* off, new slots mark it; said while on, the mark stays.
LEMMA UpdateMarks ==
    ASSUME RowShape, row.open, NEW d, NEW slots \in Readings(d), NEW r, r = Update(d, slots)
    PROVE  /\ r.open
           /\ d.off /\ slots # {} => r.off = "recent"
           /\ d.off /\ slots = {} => r = row
           /\ ~d.off => r.off = row.off
           /\ row.slots \subseteq r.slots
           /\ slots # {} => d.says # {} \/ r.slots \ row.slots # {}
           /\ slots = {} => d.says \cap row.slots = {}
  <1>1. PICK open, old, off : row = [open |-> open, slots |-> old, off |-> off]
    BY DEF RowShape
  <1>2. CASE slots = {}
    <2>1. r = row
      BY <1>2, Zenon DEF Update
    <2>2. d.says \cap row.slots = {}
      BY <1>2 DEF Readings
    <2>. QED
      BY <1>2, <2>1, <2>2
  <1>3. CASE slots # {}
    <2>1. r = [row EXCEPT !.slots = @ \cup slots, !.off = OffFlag(d, @)]
      BY <1>3, Zenon DEF Update
    <2>2. r = [open |-> open, slots |-> old \cup slots, off |-> OffFlag(d, off)]
      BY <1>1, <2>1
    <2>3. d.says = {} => slots = {"rooms"} /\ "rooms" \notin row.slots
      BY <1>3 DEF Readings
    <2>. QED
      BY <1>1, <1>3, <2>2, <2>3 DEF OffFlag
  <1>. QED
    BY <1>2, <1>3

\* Recording a message keeps slots in doubt under the mark of their row.
LEMMA TurnMarks ==
    ASSUME RowShape, DoubtShape, Marked(doubt, row), NEW d, NEW r \in Recorded(d)
    PROVE  Marked(DoubtAfter(d, r), r)
  <1>. DEFINE said == d.says \cup (r.slots \ row.slots)
  <1>1. ~d.off => DoubtAfter(d, r).slots = (doubt.slots \ said) \cap r.slots
                  /\ (DoubtAfter(d, r).old <=> doubt.old)
    BY DEF DoubtAfter, DoubtShape
  <1>2. d.off /\ said = {} => DoubtAfter(d, r) = doubt
    BY DEF DoubtAfter
  <1>3. d.off /\ said # {} => /\ DoubtAfter(d, r).slots = (doubt.slots \cup said) \cap r.slots
                              /\ ~DoubtAfter(d, r).old
    BY DEF DoubtAfter
  <1>. HIDE DEF said
  <1>4. CASE ~row.open /\ (r = NoRow \/ r = NewRow(d))
    <2>1. doubt.slots = {}
      BY <1>4 DEF Marked
    <2>2. r = NoRow => r.slots = {}
      BY DEF NoRow
    <2>3. r = NewRow(d) => r.open /\ (d.off => r.off = "recent")
      BY DEF NewRow, OffFlag
    <2>. QED
      BY <1>1, <1>2, <1>3, <1>4, <2>1, <2>2, <2>3 DEF Marked
  <1>5. CASE row.open /\ Stay \subseteq d.says /\ r = NewRow(d)
    <2>1. r.slots = d.says /\ r.open /\ (d.off => r.off = "recent")
      BY <1>5 DEF NewRow, OffFlag
    <2>2. said # {} /\ d.says \subseteq said
      BY <1>5 DEF said, Stay, Dates
    <2>. QED
      BY <1>1, <1>3, <2>1, <2>2 DEF Marked
  <1>6. ASSUME NEW slots \in Readings(d), r = Update(d, slots), row.open
        PROVE  Marked(DoubtAfter(d, r), r)
    <2>1. /\ r.open
          /\ d.off /\ slots # {} => r.off = "recent"
          /\ d.off /\ slots = {} => r = row
          /\ ~d.off => r.off = row.off
          /\ slots # {} => d.says # {} \/ r.slots \ row.slots # {}
          /\ slots = {} => d.says \cap row.slots = {}
      BY <1>6, UpdateMarks
    <2>2. CASE ~d.off
      BY <1>1, <2>1, <2>2 DEF Marked
    <2>3. CASE d.off /\ said = {}
      <3>1. slots = {}
        BY <2>1, <2>3 DEF said
      <3>. QED
        BY <1>2, <2>1, <2>3, <3>1
    <2>4. CASE d.off /\ said # {} /\ slots # {}
      BY <1>3, <2>1, <2>4 DEF Marked
    <2>5. CASE d.off /\ said # {} /\ slots = {}
      <3>1. r = row /\ said \cap r.slots = {}
        BY <2>1, <2>5 DEF said
      <3>. QED
        BY <1>3, <2>5, <3>1 DEF Marked
    <2>. QED
      BY <2>2, <2>3, <2>4, <2>5
  <1>. QED
    BY <1>4, <1>5, <1>6, RecordedCases

\* What a turn makes of the shapes of the row and of the doubt.
LEMMA TurnShapes ==
    ASSUME RowShape, OffShape, DoubtShape, NEW d, NEW r \in Recorded(d)
    PROVE  /\ r.off \in {"no", "recent", "stale"}
           /\ \E slots, old : DoubtAfter(d, r) = [slots |-> slots, old |-> old]
  <1>1. r.off \in {"no", "recent", "stale"}
    <2>1. CASE r = NewRow(d) \/ r = NoRow
      BY <2>1 DEF NewRow, NoRow, OffFlag
    <2>2. ASSUME NEW slots \in Readings(d), r = Update(d, slots), row.open
          PROVE  r.off \in {"no", "recent", "stale"}
      BY <2>2, UpdateMarks DEF OffShape
    <2>. QED
      BY <2>1, <2>2, RecordedCases
  <1>2. PICK slots, old : doubt = [slots |-> slots, old |-> old]
    BY DEF DoubtShape
  <1>. DEFINE said == d.says \cup (r.slots \ row.slots)
  <1>3. \/ DoubtAfter(d, r) = [slots |-> (slots \ said) \cap r.slots, old |-> old]
        \/ DoubtAfter(d, r) = doubt
        \/ DoubtAfter(d, r) = [slots |-> (doubt.slots \cup said) \cap r.slots, old |-> FALSE]
    <2>1. CASE ~d.off
      <3>1. DoubtAfter(d, r) = [doubt EXCEPT !.slots = (@ \ said) \cap r.slots]
        BY <2>1, Zenon DEF DoubtAfter
      <3>. HIDE DEF said
      <3>. QED
        BY <1>2, <3>1
    <2>2. CASE d.off
      BY <2>2, Zenon DEF DoubtAfter
    <2>. QED
      BY <2>1, <2>2
  <1>. HIDE DEF said
  <1>4. \E s, o : DoubtAfter(d, r) = [slots |-> s, old |-> o]
    BY <1>2, <1>3, Zenon
  <1>. QED
    BY <1>1, <1>4

\* A final answer that is not the decision's own is made from a row that is not
\* stale.
LEMMA FinalFromRow ==
    ASSUME NEW m \in Message, NEW d \in Decisions(m), NEW r,
           NEW reply \in Replies(m, d, r), Final(reply.text), ~Final(d.text)
    PROVE  r.off # "stale"
  <1>1. reply.text # "none" /\ reply.text # d.text
    BY DEF Final
  <1>2. reply \in Compose(m, d, r)
    BY <1>1, ReplyCases, RaisedCase, NothingIsSaid
  <1>3. /\ Reply("none", TRUE).text = "none"
        /\ Reply("none", FALSE).text = "none"
        /\ Reply("nudge", FALSE).text = "nudge"
        /\ RowlessReply(m, d).text = d.text
    BY Zenon DEF Reply, RowlessReply
  <1>4. ~Final(FaqReply(m).text) /\ ~Final("nudge")
    BY DEF FaqReply, Reply, Final
  <1>. QED
    BY <1>1, <1>2, <1>3, <1>4, ComposeCases

\* What is old and unconfirmed is not quoted from.  The invariant is not
\* inductive without Marked: the slots in doubt must be known to be of a row
\* whose mark the gate in front of the quote looks at (_is_stale_off_accumulation).
THEOREM Reconfirmed == Spec => []StaleIsReconfirmed
  <1>. DEFINE Inv == /\ RowShape /\ OffShape /\ DoubtShape
                     /\ Marked(doubt, row)
                     /\ StaleIsReconfirmed
  <1>1. Init => Inv
    <2>. SUFFICES ASSUME Init
                  PROVE  Inv
      OBVIOUS
    <2>1. RowShape /\ DoubtShape
      BY Zenon DEF Init, RowShape, NoRow, DoubtShape, NoDoubt
    <2>. QED
      BY <2>1 DEF Init, OffShape, NoRow, Marked, NoDoubt, StaleIsReconfirmed, Final, NoPlan
  <1>2. Inv /\ [Next]_vars => Inv'
    <2>. SUFFICES ASSUME Inv, [Next]_vars
                  PROVE  Inv'
      OBVIOUS
    <2>1. ASSUME NEW m \in Message, TakeTurn(m)
          PROVE  Inv'
      <3>1. PICK d \in Decisions(m) : \E r \in Recorded(d) : \E reply \in Replies(m, d, r) :
                row' = r /\ doubt' = DoubtAfter(d, r) /\ plan' = Planned(m, d, r, reply)
        BY <2>1, Zenon DEF TakeTurn
      <3>2. PICK r \in Recorded(d) : \E reply \in Replies(m, d, r) :
                row' = r /\ doubt' = DoubtAfter(d, r) /\ plan' = Planned(m, d, r, reply)
        BY <3>1
      <3>3. PICK reply \in Replies(m, d, r) :
                row' = r /\ doubt' = DoubtAfter(d, r) /\ plan' = Planned(m, d, r, reply)
        BY <3>2
      <3>4. RowShape'
        <4>1. PICK open, slots, off : r = [open |-> open, slots |-> slots, off |-> off]
          BY RecordedShape
        <4>. QED
          BY <3>3, <4>1, Zenon DEF RowShape
      <3>5. OffShape'
        BY <3>3, TurnShapes DEF OffShape
      <3>6. DoubtShape'
        <4>1. PICK slots, old : DoubtAfter(d, r) = [slots |-> slots, old |-> old]
          BY TurnShapes
        <4>. QED
          BY <3>3, <4>1, Zenon DEF DoubtShape
      <3>7. Marked(doubt', row')
        BY <3>3, TurnMarks
      <3>8. plan'.text = reply.text /\ (plan'.fromRow <=> ~Final(d.text))
        BY <3>3, Zenon DEF Planned
      <3>9. Final(plan'.text) /\ plan'.fromRow => row'.off # "stale"
        BY <3>3, <3>8, FinalFromRow
      <3>10. StaleIsReconfirmed'
        BY <3>7, <3>9 DEF StaleIsReconfirmed, Marked
      <3>. QED
        BY <3>4, <3>5, <3>6, <3>7, <3>10
    <2>2. CASE Deliver
      <3>1. plan' = NoPlan
        BY <2>2 DEF Deliver
      <3>2. /\ row' = row \/ row' = AfterDelivery
            /\ IF row' # row THEN doubt' = NoDoubt ELSE doubt' = doubt
        BY <2>2, Zenon DEF Deliver
      <3>3. RowShape' /\ OffShape'
        BY <3>2 DEF RowShape, OffShape, AfterDelivery, NoRow
      <3>4. DoubtShape' /\ Marked(doubt', row')
        <4>1. CASE row' # row
          <5>1. doubt' = NoDoubt
            BY <3>2, <4>1
          <5>. QED
            BY <5>1, Zenon DEF DoubtShape, Marked, NoDoubt
        <4>2. CASE row' = row
          <5>1. doubt' = doubt
            BY <3>2, <4>2
          <5>. QED
            BY <4>2, <5>1, Zenon DEF DoubtShape
        <4>. QED
          BY <4>1, <4>2
      <3>5. StaleIsReconfirmed'
        BY <3>1 DEF StaleIsReconfirmed, NoPlan, Final
      <3>. QED
        BY <3>3, <3>4, <3>5
    <2>3. CASE TurnEnds \/ Switch \/ UNCHANGED vars
      BY <2>3 DEF TurnEnds, Switch, vars, RowShape, OffShape, DoubtShape, Marked, StaleIsReconfirmed
    <2>4. CASE MinutesPass
      <3>1. plan' = NoPlan
        BY <2>4 DEF MinutesPass, AtRest
      <3>2. RowShape' /\ DoubtShape'
        BY <2>4 DEF MinutesPass, RowShape, DoubtShape
      <3>3. OffShape' /\ Marked(doubt', row')
        BY <2>4 DEF MinutesPass, RowShape, DoubtShape, OffShape, Marked
      <3>. QED
        BY <3>1, <3>2, <3>3 DEF StaleIsReconfirmed, NoPlan, Final
    <2>5. CASE Expire
      <3>1. row' = NoRow /\ doubt' = NoDoubt /\ plan' = plan /\ plan = NoPlan
        BY <2>5 DEF Expire, AtRest
      <3>2. RowShape' /\ DoubtShape'
        BY <3>1, Zenon DEF RowShape, NoRow, DoubtShape, NoDoubt
      <3>. QED
        BY <3>1, <3>2 DEF OffShape, NoRow, Marked, NoDoubt, StaleIsReconfirmed, Final, NoPlan
    <2>. QED
      BY <2>1, <2>2, <2>3, <2>4, <2>5 DEF Next
  <1>. QED
    BY <1>1, <1>2, PTL DEF Spec
-----------------------------------------------------------------------------

\* What is parsed of a message is a record whose slots are slots.
ParseShape(p) ==
    \E intent, says, clarify, rejected :
        /\ p = [intent |-> intent, says |-> says, clarify |-> clarify, rejected |-> rejected]
        /\ says \subseteq Slots

\* What the keyword rules read is well-formed.
LEMMA RuleParseShape ==
    ASSUME NEW m \in Message
    PROVE  ParseShape(RuleParse(m))
  <1>1. m.says \subseteq Slots
    BY TurnAssumption
  <1>. QED
    BY <1>1, Zenon DEF ParseShape, RuleParse

\* What the LLM reads goes through a schema that knows the slots only.
LEMMA AnswerReads ==
    ASSUME NEW a \in Answers
    PROVE  a.reads \subseteq Slots
  <1>1. a.reads \in Reads
    BY DEF Answers
  <1>. QED
    BY <1>1, TurnAssumption

\* The fields make the parse.
LEMMA RecordIsParse ==
    ASSUME NEW i, NEW s, s \subseteq Slots, NEW c, NEW j
    PROVE  ParseShape([intent |-> i, says |-> s, clarify |-> c, rejected |-> j])
  BY Zenon DEF ParseShape

\* A parse with another value in a field that is no set of slots is well-formed.
LEMMA FieldsKeepShape ==
    ASSUME NEW p, ParseShape(p), NEW v
    PROVE  /\ ParseShape([p EXCEPT !.intent = v])
           /\ ParseShape([p EXCEPT !.clarify = v])
           /\ ParseShape([p EXCEPT !.rejected = v])
  <1>1. PICK i, s, c, j : /\ p = [intent |-> i, says |-> s, clarify |-> c, rejected |-> j]
                          /\ s \subseteq Slots
    BY DEF ParseShape
  <1>2. /\ [p EXCEPT !.intent = v] = [intent |-> v, says |-> s, clarify |-> c, rejected |-> j]
        /\ [p EXCEPT !.clarify = v] = [intent |-> i, says |-> s, clarify |-> v, rejected |-> j]
        /\ [p EXCEPT !.rejected = v] = [intent |-> i, says |-> s, clarify |-> c, rejected |-> v]
    BY <1>1
  <1>. QED
    BY <1>1, <1>2, RecordIsParse

\* So is one with more slots.
LEMMA SlotsKeepShape ==
    ASSUME NEW p, ParseShape(p), NEW more, more \subseteq Slots
    PROVE  ParseShape([p EXCEPT !.says = @ \cup more])
  <1>1. PICK i, s, c, j : /\ p = [intent |-> i, says |-> s, clarify |-> c, rejected |-> j]
                          /\ s \subseteq Slots
    BY DEF ParseShape
  <1>2. [p EXCEPT !.says = @ \cup more]
          = [intent |-> i, says |-> s \cup more, clarify |-> c, rejected |-> j]
    BY <1>1
  <1>3. s \cup more \subseteq Slots
    BY <1>1
  <1>. QED
    BY <1>2, <1>3, RecordIsParse

\* Each thing that is done to a parse keeps it well-formed: slots are merged
\* (_merge_slots), its intent is raised (_maybe_upgrade_intent) or taken back
\* (_reject_booking_intent).
LEMMA MergesKeepShape ==
    ASSUME NEW p, ParseShape(p), NEW a, a.reads \subseteq Slots
    PROVE  /\ ParseShape(MergeSlots(p, a))
           /\ ParseShape(Upgrade(p, a))
           /\ ParseShape(Reject(p))
  <1>1. ParseShape(MergeSlots(p, a))
    BY SlotsKeepShape, Zenon DEF MergeSlots
  <1>2. ParseShape(Upgrade(p, a))
    <2>1. /\ ParseShape([p EXCEPT !.intent = a.intent])
          /\ ParseShape([p EXCEPT !.intent = "booking_question"])
      BY FieldsKeepShape
    <2>. QED
      BY <2>1, Zenon DEF Upgrade
  <1>3. ParseShape(Reject(p))
    <2>. DEFINE rejected == [p EXCEPT !.rejected = TRUE]
                intent == IF p.intent \in QuoteIntents THEN "unknown" ELSE p.intent
    <2>1. Reject(p) = [rejected EXCEPT !.intent = intent]
      BY Zenon DEF Reject
    <2>2. ParseShape(rejected)
      BY FieldsKeepShape
    <2>. HIDE DEF rejected, intent
    <2>3. ParseShape([rejected EXCEPT !.intent = intent])
      BY <2>2, FieldsKeepShape
    <2>. QED
      BY <2>1, <2>3, Zenon
  <1>. QED
    BY <1>1, <1>2, <1>3

\* _merge_collision_judgment keeps a parse well-formed.
LEMMA CollisionKeepsShape ==
    ASSUME NEW p, ParseShape(p), NEW a \in Answers
    PROVE  ParseShape(MergeCollision(p, a))
  <1>. DEFINE merged == MergeSlots(p, a)
              booking == a.booking = "yes" \/ (a.booking = "unsaid" /\ a.intent \in QuoteIntents)
              faq == a.booking = "no" \/ (a.booking = "unsaid" /\ a.intent = "faq")
              asked == IF a.intent \in QuoteIntents THEN a.intent ELSE "availability"
              race == <<
        <<booking, [merged EXCEPT !.intent = asked]>>,
        <<faq, [merged EXCEPT !.intent = "faq"]>>,
        <<TRUE, merged>>>>
  <1>1. DOMAIN race = 1..3
    BY Zenon, Z3
  <1>2. MergeCollision(p, a) = FirstOf(race)
    BY Zenon DEF MergeCollision
  <1>3. race[3][1]
    BY Zenon
  <1>4. /\ race[1][2] = [merged EXCEPT !.intent = asked]
        /\ race[2][2] = [merged EXCEPT !.intent = "faq"]
        /\ race[3][2] = merged
    BY Zenon
  <1>5. ParseShape(merged)
    BY AnswerReads, MergesKeepShape
  <1>. HIDE DEF race, merged, asked
  <1>6. ParseShape([merged EXCEPT !.intent = asked]) /\ ParseShape([merged EXCEPT !.intent = "faq"])
    BY <1>5, FieldsKeepShape
  <1>7. PICK k \in 1..3 : race[k][1] /\ \A j \in 1..(k - 1) : ~race[j][1]
    BY <1>3, Z3
  <1>8. MergeCollision(p, a) = race[k][2]
    BY <1>1, <1>2, <1>7, FirstWins
  <1>9. k = 1 \/ k = 2 \/ k = 3
    OBVIOUS
  <1>. QED
    BY <1>4, <1>5, <1>6, <1>8, <1>9, Zenon

\* So does _merge_llm_into_inquiry, whatever made it ask.
LEMMA AnswerKeepsShape ==
    ASSUME NEW m \in Message, NEW a \in Answers
    PROVE  ParseShape(MergeAnswer(m, a))
  <1>. DEFINE t == Trigger(m)
              p == IF t = "bbq" THEN [RuleParse(m) EXCEPT !.says = @ \cup (a.reads \cap {"extra"})]
                   ELSE RuleParse(m)
              read == MergeSlots(p, a)
              answered == [read EXCEPT !.intent = "faq", !.rejected = (a.booking = "no")]
              sure == Upgrade(p, a)
              race == <<
        <<t = "collision", MergeCollision(p, a)>>,
        <<t = "unclassified" /\ a.intent = "faq", answered>>,
        <<a.booking = "no", Reject(p)>>,
        <<a.clarify, [sure EXCEPT !.clarify = TRUE]>>,
        <<TRUE, Upgrade(read, a)>>>>
  <1>1. DOMAIN race = 1..5
    BY Zenon, Z3
  <1>2. MergeAnswer(m, a) = FirstOf(race)
    BY Zenon DEF MergeAnswer
  <1>3. race[5][1]
    BY Zenon
  <1>4. /\ race[1][2] = MergeCollision(p, a)
        /\ race[2][2] = answered
        /\ race[3][2] = Reject(p)
        /\ race[4][2] = [sure EXCEPT !.clarify = TRUE]
        /\ race[5][2] = Upgrade(read, a)
    BY Zenon
  <1>5. a.reads \subseteq Slots
    BY AnswerReads
  <1>6. ParseShape(p)
    <2>1. ParseShape(RuleParse(m))
      BY RuleParseShape
    <2>2. ParseShape([RuleParse(m) EXCEPT !.says = @ \cup (a.reads \cap {"extra"})])
      BY <1>5, <2>1, a.reads \cap {"extra"} \subseteq Slots, SlotsKeepShape
    <2>. QED
      BY <2>1, <2>2, Zenon
  <1>. HIDE DEF race, p
  <1>7. ParseShape(read) /\ ParseShape(sure)
    BY <1>5, <1>6, MergesKeepShape
  <1>8. ParseShape(MergeCollision(p, a)) /\ ParseShape(Reject(p))
    BY <1>5, <1>6, MergesKeepShape, CollisionKeepsShape
  <1>. HIDE DEF read, sure
  <1>9. ParseShape(answered)
    <2>1. answered = [[read EXCEPT !.intent = "faq"] EXCEPT !.rejected = (a.booking = "no")]
      BY Zenon
    <2>2. ParseShape([read EXCEPT !.intent = "faq"])
      BY <1>7, FieldsKeepShape
    <2>. HIDE DEF answered
    <2>3. ParseShape([[read EXCEPT !.intent = "faq"] EXCEPT !.rejected = (a.booking = "no")])
      BY <2>2, FieldsKeepShape
    <2>. QED
      BY <2>1, <2>3, Zenon
  <1>10. ParseShape([sure EXCEPT !.clarify = TRUE]) /\ ParseShape(Upgrade(read, a))
    BY <1>5, <1>7, FieldsKeepShape, MergesKeepShape
  <1>. HIDE DEF answered
  <1>11. PICK k \in 1..5 : race[k][1] /\ \A j \in 1..(k - 1) : ~race[j][1]
    BY <1>3, Z3
  <1>12. MergeAnswer(m, a) = race[k][2]
    BY <1>1, <1>2, <1>11, FirstWins
  <1>13. k = 1 \/ k = 2 \/ k = 3 \/ k = 4 \/ k = 5
    OBVIOUS
  <1>. QED
    BY <1>4, <1>8, <1>9, <1>10, <1>12, <1>13, Zenon

\* Whatever is parsed of a message, by the rules or with the LLM, is well-formed.
LEMMA ParsesShape ==
    ASSUME NEW m \in Message, NEW p \in Parses[m]
    PROVE  ParseShape(p)
  <1>1. \/ p = RuleParse(m)
        \/ \E a \in Consultations : a # Failed /\ p = MergeAnswer(m, a)
    BY Zenon DEF Parses
  <1>2. ASSUME NEW a \in Consultations, a # Failed
        PROVE  a \in Answers
    <2>1. PICK first \in Calls, second \in Calls : a = Consult(first, second)
      BY DEF Consultations
    <2>. QED
      BY <1>2, <2>1, Zenon DEF Calls, Consult
  <1>. QED
    BY <1>1, <1>2, RuleParseShape, AnswerKeepsShape

\* A decision speaks of slots only.
LEMMA DecisionSays ==
    ASSUME NEW m \in Message, NEW d \in Decisions(m)
    PROVE  d.says \subseteq Slots
  <1>. DEFINE Of(p) == d.says = p.says
  <1>1. \E p : ParseShape(p) /\ Of(p)
    <2>1. \/ d = [Decision(RuleParse(m), "none", TRUE) EXCEPT !.urgent = TRUE]
          \/ d = [Decision(RuleParse(m), "none", FALSE) EXCEPT !.off = TRUE]
          \/ d \in DecisionsOn[m]
      <3>. DEFINE race == <<
            <<m.urgent, {[Decision(RuleParse(m), "none", TRUE) EXCEPT !.urgent = TRUE]}>>,
            <<mode # "on", {[Decision(RuleParse(m), "none", FALSE) EXCEPT !.off = TRUE]}>>,
            <<TRUE, DecisionsOn[m]>>>>
      <3>1. DOMAIN race = 1..3 /\ race[3][1]
        BY Zenon, Z3
      <3>2. d \in FirstOf(race)
        BY Zenon DEF Decisions
      <3>3. /\ race[1][2] = {[Decision(RuleParse(m), "none", TRUE) EXCEPT !.urgent = TRUE]}
            /\ race[2][2] = {[Decision(RuleParse(m), "none", FALSE) EXCEPT !.off = TRUE]}
            /\ race[3][2] = DecisionsOn[m]
        BY Zenon
      <3>. HIDE DEF race
      <3>4. PICK k \in 1..3 : race[k][1] /\ \A j \in 1..(k - 1) : ~race[j][1]
        BY <3>1, Z3
      <3>5. d \in race[k][2]
        BY <3>1, <3>2, <3>4, FirstWins
      <3>6. k = 1 \/ k = 2 \/ k = 3
        OBVIOUS
      <3>. QED
        BY <3>3, <3>5, <3>6, Zenon
    <2>2. CASE d \in DecisionsOn[m]
      <3>1. PICK p \in Parses[m] : d \in IF p.intent \in QuoteIntents THEN QuoteDecisions(p)
                                         ELSE {Decision(p, "none", TRUE)}
        BY <2>2, Zenon DEF DecisionsOn
      <3>2. CASE p.intent \in QuoteIntents
        BY <3>1, <3>2, QuoteDecisionsAnswer, ParsesShape
      <3>3. CASE p.intent \notin QuoteIntents
        BY <3>1, <3>3, ParsesShape DEF Decision
      <3>. QED
        BY <3>2, <3>3
    <2>3. CASE d \notin DecisionsOn[m]
      <3>1. d.says = RuleParse(m).says
        BY <2>1, <2>3 DEF Decision
      <3>. QED
        BY <3>1, RuleParseShape
    <2>. QED
      BY <2>2, <2>3
  <1>2. PICK p : ParseShape(p) /\ Of(p)
    BY <1>1
  <1>. QED
    BY <1>2 DEF ParseShape

\* The texts that a reply may have.
Texts == {"none", "faq", "defer", "ask", "nudge", "quote", "staff"}

\* Whatever path makes a reply, its text is one of them.
LEMMA ReplyTexts ==
    ASSUME NEW m \in Message, NEW d \in Decisions(m), NEW r, NEW reply \in Replies(m, d, r)
    PROVE  reply.text \in Texts
  <1>1. d.text \in {"none", "ask", "quote", "staff"}
    BY DecisionCases, WithheldSaysNothing
  <1>2. CASE reply \in Compose(m, d, r)
    <2>1. \/ reply.text = "none" \/ reply.text = "nudge" \/ reply.text = d.text
          \/ reply = FaqReply(m) \/ reply \in RowReplies(d, r)
      <3>1. /\ Reply("none", TRUE).text = "none"
            /\ Reply("none", FALSE).text = "none"
            /\ Reply("nudge", FALSE).text = "nudge"
            /\ Reply(d.text, d.push).text = d.text
            /\ RowlessReply(m, d).text = d.text
        BY Zenon DEF Reply, RowlessReply
      <3>. QED
        BY <1>2, <3>1, ComposeCases
    <2>2. FaqReply(m).text \in {"faq", "defer"}
      BY DEF FaqReply, Reply
    <2>3. reply \in RowReplies(d, r) => reply.text \in {"ask", "quote", "staff"}
      BY RowRepliesAnswer
    <2>. QED
      BY <1>1, <2>1, <2>2, <2>3 DEF Texts
  <1>3. CASE reply \in Raised(d)
    BY <1>1, <1>3, RaisedCase DEF Texts
  <1>4. CASE reply = Detour
    BY <1>4, NothingIsSaid DEF Texts
  <1>. QED
    BY <1>2, <1>3, <1>4, ReplyCases

\* The row and the doubt after a message are of their types.
LEMMA RecordedType ==
    ASSUME TurnTypeOK, DoubtShape, NEW d, d.says \subseteq Slots, NEW r \in Recorded(d)
    PROVE  /\ r \in [open : BOOLEAN, slots : SUBSET Slots, off : {"no", "recent", "stale"}]
           /\ ~r.open => r = NoRow
           /\ DoubtAfter(d, r).slots \subseteq r.slots
  <1>. DEFINE Rows == [open : BOOLEAN, slots : SUBSET Slots, off : {"no", "recent", "stale"}]
              said == d.says \cup (r.slots \ row.slots)
  <1>1. RowShape /\ row \in Rows
    BY DEF TurnTypeOK, RowShape
  <1>2. DoubtAfter(d, r).slots \subseteq r.slots
          \/ (d.off /\ said = {} /\ DoubtAfter(d, r) = doubt)
    BY DEF DoubtAfter, DoubtShape
  <1>3. doubt.slots \subseteq row.slots
    BY DEF TurnTypeOK
  <1>4. CASE r = NoRow /\ ~row.open
    BY <1>2, <1>3, <1>4 DEF NoRow, TurnTypeOK
  <1>5. ASSUME NEW slots \in Readings(d), r = Update(d, slots), row.open
        PROVE  /\ r \in Rows
               /\ r.open
               /\ DoubtAfter(d, r).slots \subseteq r.slots
    <2>1. r.open /\ row.slots \subseteq r.slots
      BY <1>1, <1>5, UpdateMarks
    <2>2. slots \subseteq Slots
      BY DEF Readings, Slots
    <2>3. r \in Rows
      BY <1>1, <1>5, <2>2 DEF Update, OffFlag
    <2>. QED
      BY <1>2, <1>3, <2>1, <2>3
  <1>6. CASE r = NewRow(d)
    <2>1. r \in Rows /\ r.open /\ r.slots = d.says
      BY <1>6 DEF NewRow, OffFlag
    <2>2. ~row.open \/ Stay \subseteq d.says \/ \E slots \in Readings(d) : r = Update(d, slots)
      BY RecordedCases
    <2>3. ~row.open => doubt.slots = {}
      BY <1>3 DEF TurnTypeOK, NoRow
    <2>. QED
      BY <1>2, <1>3, <1>5, <2>1, <2>2, <2>3 DEF Stay, Dates
  <1>. QED
    BY <1>1, <1>4, <1>5, <1>6, RecordedCases

\* The part of TurnTypeOK that is about the row.
RowType(r) ==
    /\ r \in [open : BOOLEAN, slots : SUBSET Slots, off : {"no", "recent", "stale"}]
    /\ ~r.open => r = NoRow

\* A row with another mark is well-typed, if it is open or the mark is none.
LEMMA MarkKeepsType ==
    ASSUME NEW r, RowType(r), NEW off \in {"no", "recent", "stale"}, r = NoRow => off = "no"
    PROVE  RowType([r EXCEPT !.off = off]) /\ [r EXCEPT !.off = off].slots = r.slots
  <1>1. PICK open \in BOOLEAN, slots \in SUBSET Slots,
                old \in {"no", "recent", "stale"} :
            r = [open |-> open, slots |-> slots, off |-> old]
    BY DEF RowType
  <1>2. [r EXCEPT !.off = off] = [open |-> open, slots |-> slots, off |-> off]
    BY <1>1
  <1>3. [open |-> open, slots |-> slots, off |-> off]
            \in [open : BOOLEAN, slots : SUBSET Slots, off : {"no", "recent", "stale"}]
    BY Zenon
  <1>4. ~open => [open |-> open, slots |-> slots, off |-> off] = NoRow
    <2>. SUFFICES ASSUME ~open
                  PROVE  [open |-> open, slots |-> slots, off |-> off] = NoRow
      OBVIOUS
    <2>1. r = NoRow /\ off = "no"
      BY <1>1 DEF RowType
    <2>2. slots = {}
      BY <1>1, <2>1 DEF NoRow
    <2>. QED
      BY <2>1, <2>2 DEF NoRow
  <1>. QED
    BY <1>1, <1>2, <1>3, <1>4 DEF RowType

\* The absent row is well-typed.
LEMMA NoRowType == RowType(NoRow)
  BY DEF RowType, NoRow

\* The row, the history and the plan keep their types.
THEOREM Typed == Spec => []TurnTypeOK
  <1>. DEFINE Inv == TurnTypeOK /\ DoubtShape
  <1>1. Init => Inv
    <2>1. Init => DoubtShape
      BY Zenon DEF Init, DoubtShape, NoDoubt
    <2>. QED
      BY <2>1 DEF Init, TurnTypeOK, NoRow, NoDoubt, NoPlan
  <1>2. Inv /\ [Next]_vars => Inv'
    <2>. SUFFICES ASSUME TurnTypeOK, DoubtShape, [Next]_vars
                  PROVE  Inv'
      OBVIOUS
    <2>1. ASSUME NEW m \in Message, TakeTurn(m)
          PROVE  Inv'
      <3>1. PICK d \in Decisions(m) : \E r \in Recorded(d) : \E reply \in Replies(m, d, r) :
                row' = r /\ doubt' = DoubtAfter(d, r) /\ plan' = Planned(m, d, r, reply)
        BY <2>1, Zenon DEF TakeTurn
      <3>2. PICK r \in Recorded(d) : \E reply \in Replies(m, d, r) :
                row' = r /\ doubt' = DoubtAfter(d, r) /\ plan' = Planned(m, d, r, reply)
        BY <3>1
      <3>3. PICK reply \in Replies(m, d, r) :
                row' = r /\ doubt' = DoubtAfter(d, r) /\ plan' = Planned(m, d, r, reply)
        BY <3>2
      <3>4. RowShape /\ OffShape
        BY DEF TurnTypeOK, RowShape, OffShape
      <3>5. DoubtShape'
        <4>1. PICK slots, old : DoubtAfter(d, r) = [slots |-> slots, old |-> old]
          BY <3>4, TurnShapes
        <4>. QED
          BY <3>3, <4>1, Zenon DEF DoubtShape
      <3>6. plan'.text \in Texts
        <4>1. plan'.text = reply.text
          BY <3>3, Zenon DEF Planned
        <4>. QED
          BY <4>1, ReplyTexts
      <3>7. mode' = mode
        BY <2>1 DEF TakeTurn
      <3>8. d.says \subseteq Slots
        BY DecisionSays
      <3>. QED
        BY <3>3, <3>5, <3>6, <3>7, <3>8, RecordedType DEF TurnTypeOK, Texts
    <2>2. CASE Deliver
      <3>1. plan' = NoPlan /\ mode' = mode
        BY <2>2 DEF Deliver
      <3>2. /\ row' = row \/ row' = AfterDelivery
            /\ IF row' # row THEN doubt' = NoDoubt ELSE doubt' = doubt
        BY <2>2, Zenon DEF Deliver
      <3>3. AfterDelivery \in {row, NoRow, [row EXCEPT !.off = "no"]}
        BY DEF AfterDelivery
      <3>4. RowType(row')
        <4>1. RowType(row)
          BY DEF TurnTypeOK, RowType
        <4>2. RowType([row EXCEPT !.off = "no"])
          BY <4>1, MarkKeepsType
        <4>. QED
          BY <3>2, <3>3, <4>1, <4>2, NoRowType
      <3>5. DoubtShape' /\ doubt'.slots \subseteq row'.slots
        <4>1. CASE row' # row
          <5>1. doubt' = NoDoubt
            BY <3>2, <4>1
          <5>. QED
            BY <5>1, Zenon DEF DoubtShape, NoDoubt
        <4>2. CASE row' = row
          BY <3>2, <4>2 DEF DoubtShape, TurnTypeOK
        <4>. QED
          BY <4>1, <4>2
      <3>. QED
        BY <3>1, <3>4, <3>5 DEF TurnTypeOK, NoPlan, RowType
    <2>3. CASE TurnEnds \/ Switch \/ UNCHANGED vars
      BY <2>3 DEF TurnEnds, Switch, vars, TurnTypeOK, DoubtShape
    <2>4. CASE MinutesPass
      <3>. DEFINE off == IF row.off = "recent" THEN "stale" ELSE row.off
      <3>1. /\ row' = [row EXCEPT !.off = off]
            /\ doubt' = [doubt EXCEPT !.old = TRUE]
            /\ UNCHANGED <<mode, plan>>
        BY <2>4, Zenon DEF MinutesPass
      <3>2. off \in {"no", "recent", "stale"} /\ (row = NoRow => off = "no")
        BY DEF TurnTypeOK, NoRow
      <3>. HIDE DEF off
      <3>3. RowType(row') /\ row'.slots = row.slots
        <4>1. RowType(row)
          BY DEF TurnTypeOK, RowType
        <4>. QED
          BY <3>1, <3>2, <4>1, MarkKeepsType
      <3>4. DoubtShape' /\ doubt'.slots = doubt.slots
        BY <3>1 DEF DoubtShape
      <3>. QED
        BY <3>1, <3>3, <3>4 DEF TurnTypeOK, RowType
    <2>5. CASE Expire
      BY <2>5, Zenon DEF Expire, TurnTypeOK, DoubtShape, NoRow, NoDoubt
    <2>. QED
      BY <2>1, <2>2, <2>3, <2>4, <2>5 DEF Next
  <1>. QED
    BY <1>1, <1>2, PTL DEF Spec

=============================================================================
