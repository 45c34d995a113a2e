--------------------------- MODULE BacklogProofs ---------------------------
(* The owner's side keeps what the pipeline guarantees: the rows as the    *)
(* pipeline left them, that is without the closings of mark_many_handled,  *)
(* behave as Webhook, so that its invariants hold of them; from these      *)
(* follow the properties of the desk, for any owners, page limit, nights   *)
(* and faults.                                                             *)
EXTENDS Backlog, SequenceTheorems, TLAPS

-----------------------------------------------------------------------------
(* The inductive invariant.                                                *)

\* The rows of a table before mark_many_handled closed those of a set.
LeftOf(table, closed) == [i \in DOMAIN table |->
    [event |-> table[i].event, decision |-> table[i].decision,
     handled |-> table[i].handled /\ i \notin closed]]

\* Only rows an owner was shown are ever closed.
LeftRows == LeftOf(rows, shown)

Pipe == INSTANCE WebhookProofs WITH rows <- LeftRows

\* Whatever an owner was shown, or is about to be shown, the pipeline left on
\* the backlog; what is about to be closed was shown.
ShownIsBacklog ==
    /\ ask \in [Owner -> {"idle", "reply", "close"}]
    /\ showing \in [Owner -> SUBSET DOMAIN rows]
    /\ shown \subseteq DOMAIN rows
    /\ \A o \in Owner : ask[o] = "close" => showing[o] \subseteq shown
    /\ \A i \in shown \cup UNION {showing[o] : o \in Owner} :
          ~LeftRows[i].handled /\ rows[i].decision # "paused"

\* The digest loop works on a night that began, and that is not recorded.
LoopShape ==
    /\ night \in 0..Nights
    /\ window \in {0, night}
    /\ sentDate \in 0..night
    /\ digest \in [at : {"idle", "read", "push", "mark"}, date : 0..night]
    /\ digest.at = "idle" => digest = Idle
    /\ digest.at # "idle" => digest.date # 0 /\ sentDate <= digest.date
    /\ digests \in [1..Nights -> Nat]
    /\ marksLost \subseteq 1..Nights

\* What lets the digest of night n go out once more.
Losses(n) == crashes + (IF n \in marksLost THEN 1 ELSE 0)

\* One digest more than there were losses: then the loop is about to record it,
\* or will not turn to that night again.
DigestCount ==
    \A n \in 1..Nights :
        \/ digests[n] <= Losses(n)
        \/ /\ digests[n] <= 1 + Losses(n)
           /\ \/ digest.at = "mark" /\ digest.date = n
              \/ /\ n < night \/ sentDate = n
                 /\ ~(digest.at \in {"read", "push"} /\ digest.date = n)

DeskIInv ==
    /\ rows \in Seq(Row)
    /\ Pipe!IInv
    /\ Pipe!Traced
    /\ ShownIsBacklog
    /\ LoopShape
    /\ DigestCount

-----------------------------------------------------------------------------
(* The rows as the pipeline left them.                                     *)

LEMMA LeftOfRows ==
    ASSUME NEW table \in Seq(Row), NEW closed
    PROVE  /\ LeftOf(table, closed) \in Seq(Row)
           /\ Len(LeftOf(table, closed)) = Len(table)
           /\ Len(table) \in Nat
           /\ DOMAIN table = 1..Len(table)
           /\ DOMAIN LeftOf(table, closed) = 1..Len(table)
           /\ \A i \in 1..Len(table) :
                 /\ table[i] \in Row
                 /\ LeftOf(table, closed)[i] \in Row
                 /\ LeftOf(table, closed)[i].event = table[i].event
                 /\ LeftOf(table, closed)[i].decision = table[i].decision
                 /\ LeftOf(table, closed)[i].handled = (table[i].handled /\ i \notin closed)
  <1>. DEFINE left == LeftOf(table, closed)
  <1>1. DOMAIN table = 1..Len(table) /\ Len(table) \in Nat
        /\ \A i \in 1..Len(table) : table[i] \in Row
    BY LenProperties, ElementOfSeq
  <1>2. ASSUME NEW i \in 1..Len(table)
        PROVE  /\ left[i] \in Row
               /\ left[i].event = table[i].event
               /\ left[i].decision = table[i].decision
               /\ left[i].handled = (table[i].handled /\ i \notin closed)
    <2>. DEFINE both == table[i].handled /\ i \notin closed
    <2>1. /\ left[i] = [event |-> table[i].event, decision |-> table[i].decision,
                        handled |-> both]
          /\ both \in BOOLEAN /\ table[i] \in Row
      BY <1>1 DEF LeftOf
    <2>. HIDE DEF both, left
    <2>2. /\ left[i] \in Row /\ left[i].event = table[i].event
          /\ left[i].decision = table[i].decision /\ left[i].handled = both
      BY <2>1 DEF Row
    <2>. QED
      BY <2>2 DEF both
  <1>3. left = [i \in 1..Len(table) |-> left[i]]
    BY <1>1 DEF LeftOf
  <1>4. left \in [1..Len(table) -> Row] /\ DOMAIN left = 1..Len(table)
    <2>. HIDE DEF left
    <2>. QED
      BY <1>2, <1>3
  <1>5. left \in Seq(Row) /\ Len(left) = Len(table)
    <2>. HIDE DEF left
    <2>1. left \in Seq(Row)
      BY <1>1, <1>4, SeqDef
    <2>. QED
      BY <1>1, <1>4, <2>1, LenProperties
  <1>. QED
    BY <1>1, <1>2, <1>4, <1>5

LEMMA LeftFlag ==
    ASSUME NEW table \in Seq(Row), NEW closed, NEW i \in DOMAIN table
    PROVE  LeftOf(table, closed)[i].handled <=> table[i].handled /\ i \notin closed
  <1>1. LeftOf(table, closed)[i].handled = (table[i].handled /\ i \notin closed)
    BY LeftOfRows
  <1>. QED
    BY <1>1, Zenon

\* A row is its fields, a table is its rows.
LEMMA SameTables ==
    ASSUME NEW s \in Seq(Row), NEW u \in Seq(Row), Len(s) = Len(u),
           \A i \in 1..Len(s) : /\ s[i].event = u[i].event
                                /\ s[i].decision = u[i].decision
                                /\ s[i].handled = u[i].handled
    PROVE  s = u
  <1>1. ASSUME NEW a \in Row, NEW b \in Row, a.event = b.event,
               a.decision = b.decision, a.handled = b.handled
        PROVE  a = b
    BY <1>1 DEF Row
  <1>2. \A i \in 1..Len(s) : s[i] \in Row /\ u[i] \in Row
    BY ElementOfSeq
  <1>3. \A i \in 1..Len(s) : s[i] = u[i]
    BY <1>1, <1>2
  <1>. QED
    BY <1>3, SeqEqual

-----------------------------------------------------------------------------
LEMMA InitDeskIInv == DeskInit => DeskIInv
  <1>. SUFFICES ASSUME DeskInit
                PROVE  DeskIInv
    OBVIOUS
  <1>1. rows = <<>> /\ DOMAIN rows = {} /\ LeftRows = <<>>
    BY DEF DeskInit, Init, LeftRows, LeftOf
  <1>2. Pipe!Init
    BY <1>1 DEF DeskInit, Init, Pipe!Init, NoRun, Pipe!NoRun
  <1>3. Pipe!IInv
    BY <1>2, Pipe!InitIInv, WebhookAssumption DEF FaultKind, Pipe!FaultKind
  <1>4. Pipe!Traced
    BY <1>2, Pipe!InitTraced, WebhookAssumption DEF FaultKind, Pipe!FaultKind
  <1>5. rows \in Seq(Row) /\ ShownIsBacklog
    BY <1>1 DEF DeskInit, ShownIsBacklog
  <1>6. LoopShape /\ DigestCount
    BY BacklogAssumption DEF DeskInit, Init, LoopShape, DigestCount, Losses, Idle
  <1>. QED
    BY <1>3, <1>4, <1>5, <1>6 DEF DeskIInv

-----------------------------------------------------------------------------
(* What the pipeline does to its rows, with the closed ones still in.      *)

\* Rows are added, and no flag is set again; one that was shown keeps its flag.
RowsGrow ==
    /\ rows' \in Seq(Row)
    /\ DOMAIN rows \subseteq DOMAIN rows'
    /\ \A i \in DOMAIN rows :
          /\ rows'[i].event = rows[i].event
          /\ rows'[i].decision = rows[i].decision
          /\ rows'[i].handled => rows[i].handled
          /\ i \in shown => rows'[i].handled = rows[i].handled

LEMMA CorrectSim ==
    ASSUME DeskIInv, NEW t \in Task, pc[t] \in {"settle", "unsent"}, shown' = shown,
           NEW reached \in BOOLEAN, Correct(t, reached)
    PROVE  Pipe!Correct(t, reached) /\ RowsGrow
  <1>. DEFINE r == run[t].row
              off == [rows[r] EXCEPT !.handled = FALSE]
              leftOff == [LeftRows[r] EXCEPT !.handled = FALSE]
  <1>1. rows \in Seq(Row) /\ Pipe!RunShape /\ Pipe!FlagWhileRunning
    BY DEF DeskIInv, Pipe!IInv
  <1>2. /\ Len(rows) \in Nat /\ DOMAIN rows = 1..Len(rows)
        /\ LeftRows \in Seq(Row) /\ Len(LeftRows) = Len(rows)
        /\ DOMAIN LeftRows = 1..Len(rows)
        /\ \A i \in 1..Len(rows) :
              /\ rows[i] \in Row /\ LeftRows[i] \in Row
              /\ LeftRows[i].event = rows[i].event
              /\ LeftRows[i].decision = rows[i].decision
              /\ LeftRows[i].handled = (rows[i].handled /\ i \notin shown)
    BY <1>1, LeftOfRows DEF LeftRows
  <1>3. r \in 1..Len(rows)
    BY <1>1, <1>2 DEF Pipe!RunShape, Pipe!HasRow
  <1>4. LeftRows[r].handled <=> run[t].decision = "live"
    BY <1>1 DEF Pipe!FlagWhileRunning, Pipe!RunFacts, Pipe!HasRow
  <1>5. SilentDrop(t, reached) <=> Pipe!SilentDrop(t, reached)
    BY DEF SilentDrop, Pipe!SilentDrop
  <1>6. CASE rows' = rows
    <2>1. LeftRows' = LeftRows
      BY <1>6 DEF LeftRows
    <2>2. RowsGrow
      BY <1>1, <1>6 DEF RowsGrow
    <2>3. CASE SilentDrop(t, reached) /\ rows' = [rows EXCEPT ![r].handled = FALSE]
      <3>1. rows'[r].handled = FALSE
        BY <1>2, <1>3, <2>3 DEF Row
      <3>2. rows[r].handled
        BY <1>2, <1>3, <1>4, <2>3 DEF SilentDrop
      <3>. QED
        BY <1>6, <3>1, <3>2
    <2>. QED
      BY <1>5, <1>6, <2>1, <2>2, <2>3 DEF Correct, Pipe!Correct
  <1>7. CASE SilentDrop(t, reached) /\ rows' = [rows EXCEPT ![r].handled = FALSE]
             /\ stranded' = stranded
    <2>1. rows[r].handled /\ r \notin shown
      BY <1>2, <1>3, <1>4, <1>7 DEF SilentDrop
    <2>2. rows' = [rows EXCEPT ![r] = off]
      BY <1>7
    <2>3. /\ off \in Row /\ off.event = rows[r].event /\ off.decision = rows[r].decision
          /\ off.handled = FALSE
      BY <1>2, <1>3 DEF Row
    <2>4. /\ leftOff \in Row /\ leftOff.event = rows[r].event
          /\ leftOff.decision = rows[r].decision /\ leftOff.handled = FALSE
      BY <1>2, <1>3 DEF Row
    <2>. HIDE DEF off, leftOff
    <2>5. /\ rows' \in Seq(Row) /\ Len(rows') = Len(rows)
          /\ \A i \in 1..Len(rows) : rows'[i] = IF i = r THEN off ELSE rows[i]
      BY <1>1, <1>3, <2>2, <2>3, ExceptSeq
    <2>6. DOMAIN rows' = 1..Len(rows)
      BY <2>5, LenProperties
    <2>7. RowsGrow
      BY <1>2, <2>1, <2>3, <2>5, <2>6 DEF RowsGrow
    <2>. DEFINE changed == [LeftRows EXCEPT ![r] = leftOff]
    <2>8. /\ changed \in Seq(Row) /\ Len(changed) = Len(rows)
          /\ \A i \in 1..Len(rows) : changed[i] = IF i = r THEN leftOff ELSE LeftRows[i]
      BY <1>2, <1>3, <2>4, ExceptSeq
    <2>9. /\ LeftRows' \in Seq(Row) /\ Len(LeftRows') = Len(rows)
          /\ \A i \in 1..Len(rows) :
                /\ LeftRows'[i].event = rows'[i].event
                /\ LeftRows'[i].decision = rows'[i].decision
                /\ LeftRows'[i].handled = (rows'[i].handled /\ i \notin shown)
      BY <2>5, LeftOfRows DEF LeftRows
    <2>. HIDE DEF changed
    <2>10. ASSUME NEW i \in 1..Len(rows)
           PROVE  /\ LeftRows'[i].event = changed[i].event
                  /\ LeftRows'[i].decision = changed[i].decision
                  /\ LeftRows'[i].handled = changed[i].handled
      <3>1. CASE i = r
        <4>1. rows'[i] = off /\ changed[i] = leftOff
          BY <2>5, <2>8, <3>1
        <4>2. LeftRows'[i].handled = FALSE
          BY <2>3, <2>9, <4>1
        <4>. QED
          BY <2>3, <2>4, <2>9, <3>1, <4>1, <4>2
      <3>2. CASE i # r
        <4>1. rows'[i] = rows[i] /\ changed[i] = LeftRows[i]
          BY <2>5, <2>8, <3>2
        <4>. QED
          BY <1>2, <2>9, <4>1
      <3>. QED
        BY <3>1, <3>2
    <2>11. LeftRows' = changed
      BY <2>8, <2>9, <2>10, SameTables
    <2>12. LeftRows' = [LeftRows EXCEPT ![run[t].row].handled = FALSE]
      BY <2>11 DEF changed, leftOff
    <2>. QED
      BY <1>5, <1>7, <2>7, <2>12 DEF Pipe!Correct
  <1>. QED
    BY <1>6, <1>7 DEF Correct

LEMMA PersistSim ==
    ASSUME DeskIInv, NEW t \in Task, Persist(t), shown' = shown
    PROVE  Pipe!Persist(t) /\ RowsGrow
  <1>1. rows \in Seq(Row) /\ Pipe!TypeOK /\ Pipe!RunShape /\ shown \subseteq DOMAIN rows
    BY DEF DeskIInv, Pipe!IInv, ShownIsBacklog
  <1>2. PICK d \in Decision, p \in Plan :
          /\ p \in Plans(d)
          /\ rows' = Append(rows, [event |-> Current(t), decision |-> d,
                                   handled |-> d = "live"])
          /\ run' = [run EXCEPT ![t] =
                [row |-> Len(rows) + 1, decision |-> d, text |-> p.text,
                 push |-> p.push, pushed |-> FALSE, tries |-> 0]]
          /\ Goto(t, IF p.push THEN "push"
                     ELSE IF p.text = "none" THEN "settle" ELSE "reply")
    BY DEF Persist, Plans
  <1>. DEFINE new == [event |-> Current(t), decision |-> d, handled |-> d = "live"]
              n == Len(rows)
              added == Append(LeftRows, new)
  <1>3. Current(t) \in Event
    <2>1. todo[t] \in Seq(Event) /\ todo[t] # <<>>
      BY <1>1 DEF Persist, Pipe!TypeOK, Pipe!RunShape
    <2>. QED
      BY <2>1, HeadTailProperties DEF Current
  <1>4. new \in Row
    BY <1>3 DEF Row
  <1>. HIDE DEF new
  <1>5. /\ n \in Nat /\ DOMAIN rows = 1..n
        /\ LeftRows \in Seq(Row) /\ Len(LeftRows) = n
        /\ \A i \in 1..n : /\ LeftRows[i].event = rows[i].event
                           /\ LeftRows[i].decision = rows[i].decision
                           /\ LeftRows[i].handled = (rows[i].handled /\ i \notin shown)
    BY <1>1, LeftOfRows DEF LeftRows
  <1>6. /\ rows' \in Seq(Row) /\ Len(rows') = n + 1
        /\ \A i \in 1..n : rows'[i] = rows[i]
        /\ rows'[n + 1] = new
    <2>1. rows' = Append(rows, new)
      BY <1>2 DEF new
    <2>. QED
      BY <1>1, <1>4, <2>1, AppendProperties
  <1>7. /\ added \in Seq(Row) /\ Len(added) = n + 1
        /\ \A i \in 1..n : added[i] = LeftRows[i]
        /\ added[n + 1] = new
    BY <1>4, <1>5, AppendProperties
  <1>8. /\ LeftRows' \in Seq(Row) /\ Len(LeftRows') = n + 1
        /\ \A i \in 1..(n + 1) :
              /\ LeftRows'[i].event = rows'[i].event
              /\ LeftRows'[i].decision = rows'[i].decision
              /\ LeftRows'[i].handled = (rows'[i].handled /\ i \notin shown)
    BY <1>6, LeftOfRows DEF LeftRows
  <1>9. n + 1 \notin shown /\ new.handled \in BOOLEAN
    BY <1>1, <1>4, <1>5 DEF Row
  <1>. HIDE DEF added, n
  <1>10. ASSUME NEW i \in 1..(n + 1)
         PROVE  /\ LeftRows'[i].event = added[i].event
                /\ LeftRows'[i].decision = added[i].decision
                /\ LeftRows'[i].handled = added[i].handled
    <2>1. CASE i = n + 1
      BY <1>6, <1>7, <1>8, <1>9, <2>1
    <2>2. CASE i \in 1..n
      <3>1. rows'[i] = rows[i] /\ added[i] = LeftRows[i]
        BY <1>6, <1>7, <2>2
      <3>2. /\ LeftRows[i].event = rows[i].event
            /\ LeftRows[i].decision = rows[i].decision
            /\ LeftRows[i].handled = (rows[i].handled /\ i \notin shown)
        BY <1>5, <2>2
      <3>3. i \in 1..(n + 1)
        BY <1>10
      <3>. QED
        BY <1>8, <3>1, <3>2, <3>3
    <2>. QED
      BY <1>5, <2>1, <2>2
  <1>11. LeftRows' = added
    BY <1>7, <1>8, <1>10, SameTables
  <1>12. RowsGrow
    <2>1. DOMAIN rows' = 1..(n + 1)
      BY <1>6, LenProperties
    <2>. QED
      BY <1>5, <1>6, <2>1 DEF RowsGrow
  <1>13. LeftRows' = Append(LeftRows, [event |-> Pipe!Current(t), decision |-> d,
                                       handled |-> d = "live"])
    BY <1>11 DEF added, new, Current, Pipe!Current
  <1>14. d \in Pipe!Decision /\ p \in Pipe!Plans(d)
    BY <1>2 DEF Decision, Pipe!Decision, Plans, Pipe!Plans, Plan, Pipe!Plan, Text, Pipe!Text
  <1>15. run' = [run EXCEPT ![t] =
            [row |-> Len(LeftRows) + 1, decision |-> d, text |-> p.text,
             push |-> p.push, pushed |-> FALSE, tries |-> 0]]
    BY <1>2, <1>5 DEF n
  <1>16. Pipe!Goto(t, IF p.push THEN "push"
                      ELSE IF p.text = "none" THEN "settle" ELSE "reply")
    BY <1>2 DEF Goto, Pipe!Goto
  <1>17. pc[t] = "handle" /\ UNCHANGED <<deliveries, processed, todo, Pipe!history, crashes>>
    BY DEF Persist, history, Pipe!history
  <1>. QED
    BY <1>12, <1>13, <1>14, <1>15, <1>16, <1>17 DEF Pipe!Persist

\* A step that leaves the rows is the same step of the pipeline.
LEMMA QuietSim ==
    ASSUME NEW t \in Task, rows' = rows, shown' = shown,
           \/ Receive(t) \/ Claim(t) \/ SkipDuplicate(t) \/ DedupeRaises(t)
           \/ HandlerRaises(t) \/ PushSucceeds(t) \/ PushFails(t) \/ OwnerLookupRaises(t)
           \/ ReplySucceeds(t) \/ ReplyFails(t) \/ ReplyImpossible(t)
           \/ Rollback(t) \/ RollbackRaises(t)
    PROVE  Pipe!Receive(t) \/ Pipe!Step(t)
  <1>1. LeftRows' = LeftRows
    BY DEF LeftRows
  <1>2. CASE Receive(t)
    BY <1>1, <1>2 DEF Receive, Pipe!Receive, Goto, Pipe!Goto, history, Pipe!history,
       EventsOf, Pipe!EventsOf
  <1>3. NextEvent(t) => Pipe!NextEvent(t)
    BY DEF NextEvent, Pipe!NextEvent, Goto, Pipe!Goto, NoRun, Pipe!NoRun
  <1>4. PipelineFails(t) => Pipe!PipelineFails(t)
    BY <1>1, <1>3 DEF PipelineFails, Pipe!PipelineFails, Current, Pipe!Current
  <1>5. CASE Claim(t)
    BY <1>1, <1>5 DEF Claim, Pipe!Claim, Pipe!Step, Current, Pipe!Current, Goto, Pipe!Goto,
       history, Pipe!history
  <1>6. CASE SkipDuplicate(t)
    BY <1>1, <1>3, <1>6 DEF SkipDuplicate, Pipe!SkipDuplicate, Pipe!Step, Current,
       Pipe!Current, history, Pipe!history
  <1>7. CASE DedupeRaises(t)
    BY <1>1, <1>7 DEF DedupeRaises, Pipe!DedupeRaises, Pipe!Step, Current, Pipe!Current,
       Goto, Pipe!Goto, EventsOf, Pipe!EventsOf, Identified, Pipe!Identified
  <1>8. CASE HandlerRaises(t) \/ OwnerLookupRaises(t) \/ RollbackRaises(t)
    BY <1>4, <1>8 DEF HandlerRaises, Pipe!HandlerRaises, OwnerLookupRaises,
       Pipe!OwnerLookupRaises, RollbackRaises, Pipe!RollbackRaises, Pipe!Step,
       Current, Pipe!Current, Identified, Pipe!Identified
  <1>9. CASE PushSucceeds(t)
    BY <1>1, <1>9 DEF PushSucceeds, Pipe!PushSucceeds, Pipe!Step, AfterPush,
       Pipe!AfterPush, Goto, Pipe!Goto
  <1>10. CASE PushFails(t)
    BY <1>1, <1>10 DEF PushFails, Pipe!PushFails, Pipe!Step, AfterPush, Pipe!AfterPush,
       Goto, Pipe!Goto, history, Pipe!history
  <1>11. CASE ReplySucceeds(t)
    BY <1>1, <1>11 DEF ReplySucceeds, Pipe!ReplySucceeds, Pipe!Step, Goto, Pipe!Goto
  <1>12. CASE ReplyFails(t) \/ ReplyImpossible(t)
    BY <1>1, <1>12 DEF ReplyFails, Pipe!ReplyFails, ReplyImpossible, Pipe!ReplyImpossible,
       Pipe!Step, Goto, Pipe!Goto, history, Pipe!history
  <1>13. CASE Rollback(t)
    BY <1>1, <1>3, <1>13 DEF Rollback, Pipe!Rollback, Pipe!Step, Current, Pipe!Current,
       history, Pipe!history
  <1>. QED
    BY <1>2, <1>5, <1>6, <1>7, <1>8, <1>9, <1>10, <1>11, <1>12, <1>13

LEMMA SettleSim ==
    ASSUME DeskIInv, NEW t \in Task, shown' = shown, Settle(t) \/ SettleUnsent(t)
    PROVE  Pipe!Step(t) /\ RowsGrow
  <1>1. CASE Settle(t)
    <2>1. (run[t].text # "none" \/ run[t].pushed) \in BOOLEAN
      OBVIOUS
    <2>2. Pipe!Correct(t, run[t].text # "none" \/ run[t].pushed) /\ RowsGrow
      BY <1>1, <2>1, CorrectSim DEF Settle
    <2>3. Pipe!NextEvent(t)
      BY <1>1 DEF Settle, NextEvent, Pipe!NextEvent, Goto, Pipe!Goto, NoRun, Pipe!NoRun
    <2>. QED
      BY <1>1, <2>2, <2>3 DEF Settle, Pipe!Settle, Pipe!Step
  <1>2. CASE SettleUnsent(t)
    <2>1. run[t].pushed \in BOOLEAN
      BY DEF DeskIInv, Pipe!IInv, Pipe!TypeOK, Pipe!Run
    <2>2. Pipe!Correct(t, run[t].pushed) /\ RowsGrow
      BY <1>2, <2>1, CorrectSim DEF SettleUnsent
    <2>. QED
      BY <1>2, <2>2 DEF SettleUnsent, Pipe!SettleUnsent, Pipe!Step, Goto, Pipe!Goto
  <1>. QED
    BY <1>1, <1>2

\* A step of the pipeline in the composition is one of the pipeline alone.
LEMMA PipelineSim ==
    ASSUME DeskIInv, NEW t \in Task, Pipeline(t)
    PROVE  Pipe!Next /\ RowsGrow
  <1>1. shown' = shown
    BY DEF Pipeline, owners
  <1>2. CASE Persist(t)
    BY <1>1, <1>2, PersistSim DEF Pipe!Next, Pipe!Step
  <1>3. CASE Settle(t) \/ SettleUnsent(t)
    BY <1>1, <1>3, SettleSim DEF Pipe!Next
  <1>4. CASE ~Persist(t) /\ ~Settle(t) /\ ~SettleUnsent(t)
    <2>1. \/ Receive(t) \/ Claim(t) \/ SkipDuplicate(t) \/ DedupeRaises(t)
          \/ HandlerRaises(t) \/ PushSucceeds(t) \/ PushFails(t) \/ OwnerLookupRaises(t)
          \/ ReplySucceeds(t) \/ ReplyFails(t) \/ ReplyImpossible(t)
          \/ Rollback(t) \/ RollbackRaises(t)
      BY <1>4 DEF Pipeline, Step
    <2>2. rows' = rows
      BY <2>1 DEF Receive, Claim, SkipDuplicate, DedupeRaises, HandlerRaises, PushSucceeds,
         PushFails, OwnerLookupRaises, ReplySucceeds, ReplyFails, ReplyImpossible,
         Rollback, RollbackRaises, PipelineFails
    <2>3. RowsGrow
      BY <2>2 DEF RowsGrow, DeskIInv
    <2>. QED
      BY <1>1, <2>1, <2>2, <2>3, QuietSim DEF Pipe!Next
  <1>. QED
    BY <1>2, <1>3, <1>4

LEMMA CrashSim ==
    ASSUME DeskIInv, DeskCrash
    PROVE  Pipe!Next /\ RowsGrow
  <1>1. rows' = rows /\ LeftRows' = LeftRows
    BY DEF DeskCrash, Crash, LeftRows
  <1>2. Pipe!Crash
    BY <1>1 DEF DeskCrash, Crash, Pipe!Crash, EventsOf, Pipe!EventsOf, NoRun, Pipe!NoRun
  <1>. QED
    BY <1>1, <1>2 DEF Pipe!Next, RowsGrow, DeskIInv

-----------------------------------------------------------------------------
(* What the owner and the clock do to them: nothing.                       *)

\* What an owner is shown was left on the backlog, so that neither showing nor
\* closing it changes the rows as the pipeline left them.
LEMMA OwnerSim ==
    ASSUME DeskIInv, NEW o \in Owner, OwnerStep(o)
    PROVE  /\ LeftRows' = LeftRows
           /\ rows' \in Seq(Row) /\ DOMAIN rows' = DOMAIN rows
           /\ \A i \in DOMAIN rows : /\ rows'[i].event = rows[i].event
                                     /\ rows'[i].decision = rows[i].decision
                                     /\ rows[i].handled => rows'[i].handled
           /\ shown \subseteq shown'
           /\ UNCHANGED <<deliveries, processed, pc, todo, run, replied, told, stranded,
                          casualty, crashes>>
  <1>1. /\ rows \in Seq(Row) /\ ShownIsBacklog
    BY DEF DeskIInv
  <1>2. /\ Len(rows) \in Nat /\ DOMAIN rows = 1..Len(rows)
        /\ LeftRows \in Seq(Row) /\ Len(LeftRows) = Len(rows)
        /\ \A i \in 1..Len(rows) :
              /\ rows[i] \in Row
              /\ LeftRows[i].event = rows[i].event
              /\ LeftRows[i].decision = rows[i].decision
              /\ LeftRows[i].handled = (rows[i].handled /\ i \notin shown)
    BY <1>1, LeftOfRows DEF LeftRows
  <1>3. CASE AskPending(o) \/ AnswerFails(o) \/ CloseRaises(o)
    <2>1. UNCHANGED vars /\ shown' = shown
      BY <1>3 DEF AskPending, AnswerFails, CloseRaises
    <2>. QED
      BY <1>1, <2>1 DEF vars, history, LeftRows
  <1>4. CASE AnswerSucceeds(o)
    <2>1. UNCHANGED vars /\ shown' = shown \cup showing[o]
      BY <1>4 DEF AnswerSucceeds
    <2>2. rows' = rows
      BY <2>1 DEF vars
    <2>3. /\ LeftRows' \in Seq(Row) /\ Len(LeftRows') = Len(rows)
          /\ \A i \in 1..Len(rows) :
                /\ LeftRows'[i].event = rows[i].event
                /\ LeftRows'[i].decision = rows[i].decision
                /\ LeftRows'[i].handled = (rows[i].handled /\ i \notin shown')
      BY <1>1, <2>2, LeftOfRows DEF LeftRows
    <2>4. ASSUME NEW i \in 1..Len(rows)
          PROVE  LeftRows'[i].handled = LeftRows[i].handled
      <3>1. i \in showing[o] => ~(rows[i].handled /\ i \notin shown)
        BY <1>1, <1>2 DEF ShownIsBacklog
      <3>2. (rows[i].handled /\ i \notin shown') <=> (rows[i].handled /\ i \notin shown)
        BY <2>1, <3>1
      <3>3. LeftRows'[i].handled = (rows[i].handled /\ i \notin shown')
        BY <2>3
      <3>4. LeftRows[i].handled = (rows[i].handled /\ i \notin shown)
        BY <1>2
      <3>. QED
        BY <3>2, <3>3, <3>4
    <2>5. LeftRows' = LeftRows
      BY <1>2, <2>3, <2>4, SameTables
    <2>. QED
      BY <1>1, <2>1, <2>2, <2>5 DEF vars, history
  <1>5. CASE ClosePending(o)
    <2>1. /\ rows' = [i \in DOMAIN rows |->
               IF i \in showing[o] THEN [rows[i] EXCEPT !.handled = TRUE] ELSE rows[i]]
          /\ showing[o] \subseteq shown /\ shown' = shown
          /\ UNCHANGED <<deliveries, processed, pc, todo, run, history, crashes>>
      BY <1>1, <1>5 DEF ClosePending, ShownIsBacklog
    <2>2. ASSUME NEW i \in 1..Len(rows)
          PROVE  /\ rows'[i] \in Row
                 /\ rows'[i].event = rows[i].event
                 /\ rows'[i].decision = rows[i].decision
                 /\ i \in showing[o] => rows'[i].handled = TRUE
                 /\ i \notin showing[o] => rows'[i] = rows[i]
      <3>. DEFINE row == rows[i]
      <3>1. row \in Row /\ (i \in showing[o] => rows'[i] = [row EXCEPT !.handled = TRUE])
            /\ (i \notin showing[o] => rows'[i] = row)
        BY <1>2, <2>1
      <3>. HIDE DEF row
      <3>2. /\ rows'[i] \in Row
            /\ rows'[i].event = row.event
            /\ rows'[i].decision = row.decision
            /\ i \in showing[o] => rows'[i].handled = TRUE
            /\ i \notin showing[o] => rows'[i] = row
        BY <3>1 DEF Row
      <3>. QED
        BY <3>2 DEF row
    <2>3. rows' = [i \in 1..Len(rows) |-> rows'[i]]
      BY <1>2, <2>1
    <2>4. rows' \in Seq(Row) /\ Len(rows') = Len(rows) /\ DOMAIN rows' = 1..Len(rows)
      <3>1. rows' \in [1..Len(rows) -> Row]
        BY <2>2, <2>3
      <3>2. rows' \in Seq(Row)
        BY <1>2, <3>1, SeqDef
      <3>. QED
        BY <1>2, <3>1, <3>2, LenProperties
    <2>5. /\ LeftRows' \in Seq(Row) /\ Len(LeftRows') = Len(rows)
          /\ \A i \in 1..Len(rows) :
                /\ LeftRows'[i].event = rows'[i].event
                /\ LeftRows'[i].decision = rows'[i].decision
                /\ LeftRows'[i].handled = (rows'[i].handled /\ i \notin shown)
      <3>1. LeftRows' = LeftOf(rows', shown)
        BY <2>1 DEF LeftRows
      <3>. QED
        BY <2>4, <3>1, LeftOfRows
    <2>6. ASSUME NEW i \in 1..Len(rows)
          PROVE  LeftRows'[i].handled = LeftRows[i].handled
      <3>1. (rows'[i].handled /\ i \notin shown) <=> (rows[i].handled /\ i \notin shown)
        BY <2>1, <2>2
      <3>2. LeftRows'[i].handled = (rows'[i].handled /\ i \notin shown)
        BY <2>5
      <3>3. LeftRows[i].handled = (rows[i].handled /\ i \notin shown)
        BY <1>2
      <3>. QED
        BY <3>1, <3>2, <3>3
    <2>7. LeftRows' = LeftRows
      <3>1. \A i \in 1..Len(rows) : /\ LeftRows'[i].event = LeftRows[i].event
                                    /\ LeftRows'[i].decision = LeftRows[i].decision
        BY <1>2, <2>2, <2>5
      <3>. QED
        BY <1>2, <2>5, <2>6, <3>1, SameTables
    <2>8. \A i \in 1..Len(rows) : rows[i].handled => rows'[i].handled
      BY <2>2
    <2>. QED
      BY <1>2, <2>1, <2>2, <2>4, <2>7, <2>8 DEF history
  <1>. QED
    BY <1>3, <1>4, <1>5 DEF OwnerStep

-----------------------------------------------------------------------------
(* The desk simulates the pipeline.                                        *)

\* A step of the desk that does not end in the pipeline.
LEMMA ClockSim ==
    ASSUME WindowOpens \/ WindowCloses \/ DigestStep
    PROVE  UNCHANGED <<vars, owners>> /\ LeftRows' = LeftRows
  <1>1. UNCHANGED <<vars, owners>>
    BY DEF WindowOpens, WindowCloses, DigestStep, CheckDigest, CountPending,
       DigestSucceeds, DigestFails, MarkDigest, MarkRaises
  <1>. QED
    BY <1>1 DEF vars, owners, LeftRows

LEMMA DeskSim ==
    ASSUME DeskIInv, [DeskNext]_deskVars
    PROVE  [Pipe!Next]_(Pipe!vars)
  <1>1. CASE \E o \in Owner : OwnerStep(o)
    BY <1>1, OwnerSim DEF Pipe!vars, Pipe!history
  <1>2. CASE WindowOpens \/ WindowCloses \/ DigestStep
    BY <1>2, ClockSim DEF vars, history, Pipe!vars, Pipe!history
  <1>3. CASE UNCHANGED deskVars
    BY <1>3 DEF deskVars, owners, vars, history, LeftRows, Pipe!vars, Pipe!history
  <1>4. CASE \E t \in Task : Pipeline(t)
    BY <1>4, PipelineSim
  <1>. QED
    BY <1>1, <1>2, <1>3, <1>4, CrashSim DEF DeskNext

-----------------------------------------------------------------------------
(* What is shown, and closed.                                              *)

\* The table only grows, and shown rows keep their flag or are closed.
LEMMA DeskRows ==
    ASSUME DeskIInv, [DeskNext]_deskVars
    PROVE  /\ rows' \in Seq(Row)
           /\ DOMAIN rows \subseteq DOMAIN rows'
           /\ \A i \in DOMAIN rows : /\ rows'[i].event = rows[i].event
                                     /\ rows'[i].decision = rows[i].decision
           /\ shown \subseteq shown'
           /\ \A i \in shown : rows[i].handled => rows'[i].handled
           /\ \A i \in DOMAIN rows : LeftRows'[i].handled => LeftRows[i].handled
  <1>1. rows \in Seq(Row) /\ shown \subseteq DOMAIN rows
    BY DEF DeskIInv, ShownIsBacklog
  <1>2. CASE \E o \in Owner : OwnerStep(o)
    BY <1>1, <1>2, OwnerSim
  <1>3. CASE (WindowOpens \/ WindowCloses \/ DigestStep) \/ UNCHANGED deskVars
    <2>1. rows' = rows /\ shown' = shown /\ LeftRows' = LeftRows
      BY <1>3, ClockSim DEF vars, deskVars, owners, LeftRows
    <2>. QED
      BY <1>1, <2>1
  <1>4. CASE (\E t \in Task : Pipeline(t)) \/ DeskCrash
    <2>1. RowsGrow /\ shown' = shown
      BY <1>4, PipelineSim, CrashSim DEF Pipeline, owners, DeskCrash
    <2>2. ASSUME NEW i \in DOMAIN rows, LeftRows'[i].handled
          PROVE  LeftRows[i].handled
      <3>1. LeftRows' = LeftOf(rows', shown) /\ rows' \in Seq(Row) /\ i \in DOMAIN rows'
        BY <2>1 DEF LeftRows, RowsGrow
      <3>2. rows'[i].handled /\ i \notin shown
        BY <2>2, <3>1, LeftFlag
      <3>3. rows[i].handled
        BY <2>1, <3>2 DEF RowsGrow
      <3>. QED
        BY <1>1, <3>2, <3>3, LeftFlag DEF LeftRows
    <2>. QED
      BY <1>1, <2>1, <2>2 DEF RowsGrow
  <1>. QED
    BY <1>2, <1>3, <1>4 DEF DeskNext

\* list_unhandled lists what the pipeline left on the backlog.
LEMMA ListedIsBacklog ==
    ASSUME DeskIInv, NEW kept \in Truncations(ListUnhandled)
    PROVE  /\ kept \subseteq DOMAIN rows
           /\ \A i \in kept : ~LeftRows[i].handled /\ rows[i].decision # "paused"
  <1>1. kept \subseteq ListUnhandled
    BY DEF Truncations
  <1>2. kept \subseteq Pending
    BY <1>1 DEF ListUnhandled, Oldest
  <1>. QED
    BY <1>2, LeftFlag DEF Pending, LeftRows, DeskIInv

LEMMA NextShownIsBacklog ==
    ASSUME DeskIInv, [DeskNext]_deskVars
    PROVE  ShownIsBacklog'
  <1>1. ShownIsBacklog
    BY DEF DeskIInv
  <1>2. /\ DOMAIN rows \subseteq DOMAIN rows'
        /\ \A i \in DOMAIN rows : /\ rows'[i].decision = rows[i].decision
                                  /\ LeftRows'[i].handled => LeftRows[i].handled
    BY DeskRows
  <1>3. CASE ask' = ask /\ showing' = showing /\ shown' = shown
    BY <1>1, <1>2, <1>3 DEF ShownIsBacklog
  <1>4. ASSUME NEW o \in Owner, AskPending(o)
        PROVE  ShownIsBacklog'
    <2>1. PICK kept \in Truncations(ListUnhandled) :
            showing' = [showing EXCEPT ![o] = kept]
      BY <1>4 DEF AskPending
    <2>2. /\ kept \subseteq DOMAIN rows
          /\ \A i \in kept : ~LeftRows[i].handled /\ rows[i].decision # "paused"
      BY ListedIsBacklog
    <2>3. ask' = [ask EXCEPT ![o] = "reply"] /\ shown' = shown
      BY <1>4 DEF AskPending
    <2>. QED
      BY <1>1, <1>2, <2>1, <2>2, <2>3 DEF ShownIsBacklog
  <1>5. ASSUME NEW o \in Owner, AnswerSucceeds(o)
        PROVE  ShownIsBacklog'
    <2>1. /\ shown' = shown \cup showing[o] /\ showing' = showing
          /\ ask' = [ask EXCEPT ![o] = IF showing[o] = {} THEN "idle" ELSE "close"]
      BY <1>5 DEF AnswerSucceeds
    <2>. QED
      BY <1>1, <1>2, <2>1 DEF ShownIsBacklog
  <1>6. ASSUME NEW o \in Owner, AnswerFails(o) \/ ClosePending(o) \/ CloseRaises(o)
        PROVE  ShownIsBacklog'
    <2>1. /\ shown' = shown /\ showing' = [showing EXCEPT ![o] = {}]
          /\ ask' = [ask EXCEPT ![o] = "idle"]
      BY <1>6 DEF AnswerFails, ClosePending, CloseRaises
    <2>. QED
      BY <1>1, <1>2, <2>1 DEF ShownIsBacklog
  <1>7. CASE DeskCrash
    <2>1. /\ shown' = shown /\ showing' = [o \in Owner |-> {}]
          /\ ask' = [o \in Owner |-> "idle"]
      BY <1>7 DEF DeskCrash
    <2>. QED
      BY <1>1, <1>2, <2>1 DEF ShownIsBacklog
  <1>8. CASE WindowOpens \/ WindowCloses \/ DigestStep
    BY <1>3, <1>8, ClockSim DEF owners
  <1>9. CASE (\E t \in Task : Pipeline(t)) \/ UNCHANGED deskVars
    BY <1>3, <1>9 DEF Pipeline, owners, deskVars
  <1>. QED
    BY <1>4, <1>5, <1>6, <1>7, <1>8, <1>9 DEF DeskNext, OwnerStep

-----------------------------------------------------------------------------
(* The digest.                                                             *)

LEMMA NextLoopShape ==
    ASSUME LoopShape, [DeskNext]_deskVars
    PROVE  LoopShape'
  <1>1. CASE WindowOpens
    BY <1>1, BacklogAssumption DEF WindowOpens, loop, LoopShape
  <1>2. CASE WindowCloses
    BY <1>2 DEF WindowCloses, loop, LoopShape
  <1>3. CASE CheckDigest
    BY <1>3 DEF CheckDigest, clock, LoopShape, Idle
  <1>4. CASE CountPending \/ MarkDigest
    BY <1>4 DEF CountPending, MarkDigest, clock, LoopShape, Idle
  <1>5. CASE DigestSucceeds
    <2>1. /\ digest.at = "push" /\ digest' = [digest EXCEPT !.at = "mark"]
          /\ digests' = [digests EXCEPT ![digest.date] = @ + 1]
          /\ UNCHANGED <<night, window, sentDate, marksLost>>
      BY <1>5 DEF DigestSucceeds, clock
    <2>2. /\ digest' \in [at : {"idle", "read", "push", "mark"}, date : 0..night]
          /\ digest'.at = "mark" /\ digest'.date = digest.date
      BY <2>1 DEF LoopShape
    <2>3. digests' \in [1..Nights -> Nat]
      <3>1. \A f \in [1..Nights -> Nat] : \A d \in 1..Nights :
              [f EXCEPT ![d] = f[d] + 1] \in [1..Nights -> Nat]
        OBVIOUS
      <3>2. digest.date \in 1..Nights
        BY <2>1, BacklogAssumption DEF LoopShape
      <3>. QED
        BY <2>1, <3>1, <3>2 DEF LoopShape
    <2>. QED
      BY <2>1, <2>2, <2>3 DEF LoopShape
  <1>6. CASE DigestFails \/ MarkRaises
    <2>1. /\ digest' = Idle /\ UNCHANGED <<night, window, sentDate, digests>>
          /\ marksLost' \subseteq marksLost \cup {digest.date}
          /\ digest.at # "idle"
      BY <1>6 DEF DigestFails, MarkRaises, clock
    <2>2. digest.date \in 1..Nights
      BY <2>1, BacklogAssumption DEF LoopShape
    <2>. QED
      BY <2>1, <2>2 DEF LoopShape, Idle
  <1>7. CASE DeskCrash
    BY <1>7 DEF DeskCrash, clock, LoopShape, Idle
  <1>8. CASE UNCHANGED <<clock, loop>>
    BY <1>8 DEF clock, loop, LoopShape
  <1>9. (\E t \in Task : Pipeline(t)) \/ (\E o \in Owner : OwnerStep(o)) \/ UNCHANGED deskVars
          => UNCHANGED <<clock, loop>>
    BY DEF Pipeline, OwnerStep, AskPending, AnswerSucceeds, AnswerFails, ClosePending,
       CloseRaises, deskVars
  <1>. QED
    BY <1>1, <1>2, <1>3, <1>4, <1>5, <1>6, <1>7, <1>8, <1>9 DEF DeskNext, DigestStep

LEMMA NextDigestCount ==
    ASSUME DeskIInv, [DeskNext]_deskVars
    PROVE  DigestCount'
  <1>1. LoopShape /\ DigestCount /\ crashes \in Nat
    BY DEF DeskIInv, Pipe!IInv, Pipe!TypeOK
  <1>2. /\ Nights \in Nat /\ night \in 0..Nights /\ window \in {0, night}
        /\ sentDate \in 0..night /\ digest.date \in 0..night
        /\ \A n \in 1..Nights : digests[n] \in Nat /\ Losses(n) \in Nat
    BY <1>1, BacklogAssumption DEF LoopShape, Losses
  <1>3. CASE WindowOpens
    <2>1. night' = night + 1 /\ UNCHANGED <<digests, marksLost, crashes, digest, sentDate>>
      BY <1>3 DEF WindowOpens, loop, vars
    <2>. QED
      BY <1>1, <1>2, <2>1 DEF DigestCount, Losses
  <1>4. CASE CheckDigest
    <2>1. /\ digest = Idle /\ window # 0 /\ window # sentDate
          /\ digest'.at = "read" /\ digest'.date = window
          /\ UNCHANGED <<digests, marksLost, crashes, night, sentDate>>
      BY <1>4 DEF CheckDigest, clock, vars
    <2>2. digest.at = "idle" /\ window = night
      BY <1>2, <2>1 DEF Idle
    <2>3. ASSUME NEW n \in 1..Nights, digests[n] > Losses(n)
          PROVE  n < night \/ sentDate = n
      BY <1>1, <1>2, <2>2, <2>3 DEF DigestCount
    <2>4. ASSUME NEW n \in 1..Nights
          PROVE  \/ digests[n] <= Losses(n)
                 \/ digests[n] <= 1 + Losses(n) /\ (n < night \/ sentDate = n) /\ n # window
      <3>1. digests[n] <= 1 + Losses(n)
        BY <1>1, <1>2 DEF DigestCount
      <3>. QED
        BY <1>2, <2>1, <2>2, <2>3, <3>1
    <2>5. Losses(0)' = Losses(0) /\ \A n \in 1..Nights : Losses(n)' = Losses(n)
      BY <2>1 DEF Losses
    <2>. QED
      BY <2>1, <2>4, <2>5 DEF DigestCount
  <1>5. CASE CountPending
    <2>1. /\ digest.at = "read"
          /\ UNCHANGED <<digests, marksLost, crashes, night>>
          /\ \/ sentDate' = digest.date /\ digest' = Idle
             \/ /\ sentDate' = sentDate
                /\ digest' = [digest EXCEPT !.at = "push"]
      BY <1>5 DEF CountPending, clock, vars
    <2>2. /\ digest'.at \in {"idle", "push"}
          /\ digest'.at = "push" => digest'.date = digest.date /\ sentDate' = sentDate
          /\ sentDate' \in {sentDate, digest.date}
      <3>1. digest \in [at : {"idle", "read", "push", "mark"}, date : 0..night]
        BY <1>1 DEF LoopShape
      <3>. QED
        BY <2>1, <3>1 DEF Idle
    <2>3. sentDate <= digest.date
      BY <1>1, <2>1 DEF LoopShape
    <2>4. \A n \in 1..Nights : Losses(n)' = Losses(n)
      BY <2>1 DEF Losses
    <2>5. ASSUME NEW n \in 1..Nights
          PROVE  \/ digests[n] <= Losses(n)
                 \/ /\ digests[n] <= 1 + Losses(n)
                    /\ n < night \/ sentDate' = n
                    /\ ~(digest'.at \in {"read", "push"} /\ digest'.date = n)
      <3>1. CASE digests[n] > Losses(n)
        <4>1. /\ digests[n] <= 1 + Losses(n)
              /\ n < night \/ sentDate = n
              /\ digest.date # n
          BY <1>1, <1>2, <2>1, <3>1 DEF DigestCount
        <4>2. n < night \/ sentDate' = n
          BY <1>2, <2>2, <2>3, <4>1
        <4>. QED
          BY <2>2, <4>1, <4>2
      <3>. QED
        BY <1>2, <3>1
    <2>. QED
      BY <2>1, <2>4, <2>5 DEF DigestCount
  <1>6. CASE DigestSucceeds
    <2>1. /\ digest.at = "push"
          /\ digests' = [digests EXCEPT ![digest.date] = @ + 1]
          /\ digest' = [digest EXCEPT !.at = "mark"]
          /\ UNCHANGED <<marksLost, crashes, night, sentDate>>
      BY <1>6 DEF DigestSucceeds, clock, vars
    <2>2. digest'.at = "mark" /\ digest'.date = digest.date
      BY <1>1, <2>1 DEF LoopShape
    <2>3. \A n \in 1..Nights : Losses(n)' = Losses(n)
      BY <2>1 DEF Losses
    <2>4. \A n \in 1..Nights :
            digests'[n] = IF n = digest.date THEN digests[n] + 1 ELSE digests[n]
      <3>1. \A f \in [1..Nights -> Nat] : \A d, n \in 1..Nights :
              [f EXCEPT ![d] = f[d] + 1][n] = IF n = d THEN f[n] + 1 ELSE f[n]
        OBVIOUS
      <3>2. digest.date \in 1..Nights
        BY <1>1, <1>2, <2>1 DEF LoopShape
      <3>. QED
        BY <1>1, <2>1, <3>1, <3>2 DEF LoopShape
    <2>5. ASSUME NEW n \in 1..Nights, n = digest.date
          PROVE  digests'[n] <= 1 + Losses(n)
      <3>1. digests[n] <= Losses(n)
        BY <1>1, <2>1, <2>5 DEF DigestCount
      <3>. QED
        BY <1>2, <2>4, <2>5, <3>1
    <2>. QED
      BY <1>1, <2>1, <2>2, <2>3, <2>4, <2>5 DEF DigestCount
  <1>7. CASE DigestFails
    <2>1. /\ digest.at = "push" /\ digest' = Idle
          /\ UNCHANGED <<digests, marksLost, crashes, night, sentDate>>
      BY <1>7 DEF DigestFails, clock, vars
    <2>. QED
      BY <1>1, <2>1 DEF DigestCount, Losses, Idle
  <1>8. CASE MarkDigest
    <2>1. /\ digest.at = "mark" /\ digest' = Idle /\ sentDate' = digest.date
          /\ UNCHANGED <<digests, marksLost, crashes, night>>
      BY <1>8 DEF MarkDigest, clock, vars
    <2>2. sentDate <= digest.date
      BY <1>1, <2>1 DEF LoopShape
    <2>3. \A n \in 1..Nights : Losses(n)' = Losses(n)
      BY <2>1 DEF Losses
    <2>4. ASSUME NEW n \in 1..Nights, digests[n] > Losses(n)
          PROVE  digests[n] <= 1 + Losses(n) /\ (n < night \/ digest.date = n)
      <3>1. digests[n] <= 1 + Losses(n) /\ (digest.date = n \/ n < night \/ sentDate = n)
        BY <1>1, <1>2, <2>4 DEF DigestCount
      <3>. QED
        BY <1>2, <2>2, <3>1
    <2>5. \A n \in 1..Nights : digests[n] <= Losses(n)
            \/ (digests[n] <= 1 + Losses(n) /\ (n < night \/ digest.date = n))
      BY <1>2, <2>4
    <2>. QED
      BY <2>1, <2>3, <2>5 DEF DigestCount, Idle
  <1>9. CASE MarkRaises
    <2>1. /\ digest.at = "mark" /\ digest' = Idle /\ digest.date \notin marksLost
          /\ marksLost' = marksLost \cup {digest.date}
          /\ UNCHANGED <<digests, crashes, night, sentDate>>
      BY <1>9 DEF MarkRaises, clock, vars
    <2>2. \A n \in 1..Nights : Losses(n)' = IF n = digest.date THEN Losses(n) + 1 ELSE Losses(n)
      BY <1>1, <2>1 DEF Losses
    <2>3. ASSUME NEW n \in 1..Nights, n = digest.date
          PROVE  digests[n] <= Losses(n)'
      BY <1>1, <1>2, <2>2, <2>3 DEF DigestCount
    <2>. QED
      BY <1>1, <2>1, <2>2, <2>3 DEF DigestCount, Idle
  <1>10. CASE DeskCrash
    <2>1. crashes' = crashes + 1 /\ UNCHANGED <<digests, marksLost>>
      BY <1>10 DEF DeskCrash, Crash
    <2>2. \A n \in 1..Nights : Losses(n)' = Losses(n) + 1
      BY <1>1, <2>1 DEF Losses
    <2>3. \A n \in 1..Nights : digests[n] <= Losses(n) + 1
      BY <1>1, <1>2 DEF DigestCount
    <2>. QED
      BY <1>2, <2>1, <2>2, <2>3 DEF DigestCount
  <1>11. CASE UNCHANGED <<crashes, night, loop>>
    BY <1>1, <1>11 DEF loop, DigestCount, Losses
  <1>12. ASSUME NEW t \in Task, Pipeline(t)
         PROVE  UNCHANGED <<crashes, night, loop>>
    <2>1. PipelineFails(t) => crashes' = crashes
      BY DEF PipelineFails
    <2>2. crashes' = crashes
      BY <1>12, <2>1 DEF Pipeline, Receive, Step, Claim, SkipDuplicate, DedupeRaises, Persist,
         HandlerRaises, PushSucceeds, PushFails, OwnerLookupRaises, ReplySucceeds, ReplyFails,
         ReplyImpossible, Settle, SettleUnsent, Rollback, RollbackRaises
    <2>. QED
      BY <1>12, <2>2 DEF Pipeline, clock
  <1>13. ASSUME NEW o \in Owner, OwnerStep(o)
         PROVE  UNCHANGED <<crashes, night, loop>>
    BY <1>13 DEF OwnerStep, AskPending, AnswerSucceeds, AnswerFails, ClosePending,
       CloseRaises, clock, vars
  <1>14. CASE WindowCloses \/ UNCHANGED deskVars
    BY <1>11, <1>14 DEF WindowCloses, deskVars, clock, vars
  <1>. QED
    BY <1>3, <1>4, <1>5, <1>6, <1>7, <1>8, <1>9, <1>10, <1>11, <1>12, <1>13, <1>14
       DEF DeskNext, DigestStep

-----------------------------------------------------------------------------
(* The inductive invariant and what follows from it.                       *)

LEMMA NextDeskIInv ==
    ASSUME DeskIInv, [DeskNext]_deskVars
    PROVE  DeskIInv'
  <1>1. Pipe!IInv /\ Pipe!Traced /\ [Pipe!Next]_(Pipe!vars)
    BY DeskSim DEF DeskIInv
  <1>2. Pipe!IInv'
    BY <1>1, Pipe!NextIInv, WebhookAssumption DEF FaultKind, Pipe!FaultKind
  <1>3. Pipe!Traced'
    BY <1>1, Pipe!NextTraced, WebhookAssumption DEF FaultKind, Pipe!FaultKind
  <1>4. LoopShape'
    BY NextLoopShape DEF DeskIInv
  <1>. QED
    BY <1>2, <1>3, <1>4, DeskRows, NextShownIsBacklog, NextDigestCount DEF DeskIInv

\* The inductive invariant of the pipeline and the desk together holds of every
\* reachable state: owners and the digest leave the pipeline's part of it alone.
THEOREM DeskInvariance == DeskSpec => []DeskIInv
  BY InitDeskIInv, NextDeskIInv, PTL DEF DeskSpec

\* The tables, the threads and the digest loop keep their types.
THEOREM DeskTypesHold == DeskSpec => []DeskTypeOK
  <1>1. DeskIInv => DeskTypeOK
    <2>. SUFFICES ASSUME DeskIInv
                  PROVE  DeskTypeOK
      OBVIOUS
    <2>1. DOMAIN LeftRows = DOMAIN rows
      BY LeftOfRows DEF LeftRows, DeskIInv
    <2>2. TypeOK
      BY <2>1 DEF DeskIInv, Pipe!IInv, Pipe!TypeOK, TypeOK, Identified, Pipe!Identified,
         Label, Pipe!Label, Working, Pipe!Working, Run, Pipe!Run, Decision, Pipe!Decision,
         Text, Pipe!Text
    <2>3. marksLost \in SUBSET (1..Nights)
      BY DEF DeskIInv, LoopShape
    <2>. QED
      BY <2>2, <2>3 DEF DeskIInv, ShownIsBacklog, LoopShape, DeskTypeOK
  <1>. QED
    BY DeskInvariance, <1>1, PTL

\* A row is off the backlog only if somebody was reached or it was on an
\* owner's screen; rows that a fault cut short are exempt.
THEOREM BacklogTellsTruth == DeskSpec => []BacklogIsHonest
  <1>1. DeskIInv => BacklogIsHonest
    <2>. SUFFICES ASSUME DeskIInv, NEW i \in DOMAIN rows, AtRest(i), i \notin stranded
                  PROVE  /\ rows[i].handled => i \in Reached \cup shown
                         /\ rows[i].decision = "live" /\ ~rows[i].handled => i \notin Reached
                         /\ rows[i].decision = "paused" => ~rows[i].handled /\ i \notin shown
      BY DEF BacklogIsHonest
    <2>1. /\ DOMAIN LeftRows = DOMAIN rows
          /\ LeftRows[i].decision = rows[i].decision
      BY LeftOfRows DEF LeftRows, DeskIInv
    <2>2. LeftRows[i].handled <=> rows[i].handled /\ i \notin shown
      BY LeftFlag DEF LeftRows, DeskIInv
    <2>3. rows[i].decision = "live" => (LeftRows[i].handled <=> i \in Reached)
      BY <2>1 DEF DeskIInv, Pipe!IInv, Pipe!HandledIffReached, AtRest, Pipe!AtRest,
         Reached, Pipe!Reached
    <2>4. LeftRows[i].handled => rows[i].decision = "live"
      BY <2>1 DEF DeskIInv, Pipe!Traced, Pipe!OnlyLiveHandled
    <2>5. i \in shown => ~LeftRows[i].handled /\ rows[i].decision # "paused"
      BY DEF DeskIInv, ShownIsBacklog
    <2>. QED
      BY <2>2, <2>3, <2>4, <2>5
  <1>. QED
    BY DeskInvariance, <1>1, PTL

\* The digest of a night goes out once, and once more for every crash and for
\* a lost record.
THEOREM DigestIsRare == DeskSpec => []DigestOncePerFault
  <1>1. DeskIInv => DigestOncePerFault
    <2>. SUFFICES ASSUME DeskIInv, NEW n \in 1..Nights
                  PROVE  digests[n] <= 1 + Losses(n)
      BY DEF DigestOncePerFault, Losses, DeskIInv, Pipe!IInv, Pipe!TypeOK
    <2>1. digests[n] \in Nat /\ Losses(n) \in Nat
      BY DEF DeskIInv, LoopShape, Losses, Pipe!IInv, Pipe!TypeOK
    <2>. QED
      BY <2>1 DEF DeskIInv, DigestCount
  <1>. QED
    BY DeskInvariance, <1>1, PTL

\* mark_unhandled and mark_many_handled never fight over a row: what an owner
\* was shown and closed stays closed.
THEOREM ClosedRowsStay == DeskSpec => ClosedStaysClosed
  <1>1. DeskIInv /\ [DeskNext]_deskVars
          => [\A i \in shown : rows[i].handled => rows'[i].handled]_deskVars
    BY DeskRows
  <1>. QED
    BY DeskInvariance, <1>1, PTL DEF DeskSpec, ClosedStaysClosed

-----------------------------------------------------------------------------
(* The desk implements MessagePromise.                                     *)

Shown(e) == \E i \in shown : rows[i].event = e

\* What was shown is told; the fate of the rest is read off the rows as the
\* pipeline left them.
FatesAre ==
    \A e \in Event : DeskFateOf(e) = IF Shown(e) THEN "told" ELSE Pipe!FateOf(e)

LEMMA DeskFatesAre == DeskIInv => FatesAre
  <1>. SUFFICES ASSUME DeskIInv, NEW e \in Event
                PROVE  DeskFateOf(e) = IF Shown(e) THEN "told" ELSE Pipe!FateOf(e)
    BY DEF FatesAre
  <1>1. /\ DOMAIN LeftRows = DOMAIN rows
        /\ \A i \in DOMAIN rows : LeftRows[i].event = rows[i].event
    BY LeftOfRows DEF LeftRows, DeskIInv
  <1>2. shown \subseteq DOMAIN rows /\ Reached \subseteq DOMAIN rows /\ stranded \subseteq DOMAIN rows
    BY <1>1 DEF DeskIInv, ShownIsBacklog, Pipe!IInv, Pipe!TypeOK, Reached
  <1>3. (\E i \in Pipe!Reached : LeftRows[i].event = e) <=> \E i \in Reached : rows[i].event = e
    BY <1>1, <1>2 DEF Reached, Pipe!Reached
  <1>4. (\E i \in stranded : LeftRows[i].event = e) <=> \E i \in stranded : rows[i].event = e
    BY <1>1, <1>2
  <1>5. ASSUME ~Shown(e)
        PROVE  (\E i \in DOMAIN LeftRows : LeftRows[i].event = e /\ ~LeftRows[i].handled)
                 <=> \E i \in DOMAIN rows : rows[i].event = e /\ ~rows[i].handled
    <2>1. \A i \in DOMAIN rows : LeftRows[i].handled <=> rows[i].handled /\ i \notin shown
      BY LeftFlag DEF LeftRows, DeskIInv
    <2>. QED
      BY <1>1, <1>5, <2>1 DEF Shown
  <1>6. \A t \in Task : Pipe!EventsOf(todo[t]) = EventsOf(todo[t])
    BY DEF EventsOf, Pipe!EventsOf
  <1>7. CASE Shown(e)
    BY <1>7 DEF DeskFateOf, Shown
  <1>8. CASE ~Shown(e)
    BY <1>3, <1>4, <1>5, <1>6, <1>8 DEF DeskFateOf, FateOf, Pipe!FateOf, Shown
  <1>. QED
    BY <1>7, <1>8

\* Only an answer that LINE acknowledged shows a message to an owner.
LEMMA ShownByAnswer ==
    ASSUME DeskIInv, [DeskNext]_deskVars, NEW e \in Event, ~Shown(e), Shown(e)'
    PROVE  Pipe!FateOf(e) \in {"told", "working", "pending"}
  <1>1. /\ rows \in Seq(Row) /\ ShownIsBacklog
        /\ DOMAIN LeftRows = DOMAIN rows
        /\ \A i \in DOMAIN rows : LeftRows[i].event = rows[i].event
    BY LeftOfRows DEF LeftRows, DeskIInv
  <1>2. PICK i \in shown' : rows'[i].event = e
    BY DEF Shown
  <1>3. CASE shown' = shown
    <2>1. rows'[i].event = rows[i].event
      BY <1>1, <1>2, <1>3, DeskRows DEF ShownIsBacklog
    <2>. QED
      BY <1>2, <1>3, <2>1 DEF Shown
  <1>4. ASSUME NEW o \in Owner, AnswerSucceeds(o)
        PROVE  Pipe!FateOf(e) \in {"told", "working", "pending"}
    <2>1. shown' = shown \cup showing[o] /\ rows' = rows
      BY <1>4 DEF AnswerSucceeds, vars
    <2>2. i \in showing[o] /\ rows[i].event = e
      BY <1>2, <2>1 DEF Shown
    <2>3. i \in DOMAIN LeftRows /\ LeftRows[i].event = e /\ ~LeftRows[i].handled
      BY <1>1, <2>2 DEF ShownIsBacklog
    <2>. QED
      BY <2>3 DEF Pipe!FateOf
  <1>5. (\E o \in Owner : AnswerSucceeds(o)) \/ shown' = shown
    <2>1. WindowOpens \/ WindowCloses \/ DigestStep => shown' = shown
      BY ClockSim DEF owners
    <2>. QED
      BY <2>1 DEF DeskNext, Pipeline, OwnerStep, AskPending, AnswerFails, ClosePending,
         CloseRaises, DeskCrash, deskVars, owners
  <1>. QED
    BY <1>3, <1>4, <1>5

\* Every step moves the fate of every event as MessagePromise allows.
LEMMA DeskFateMoves ==
    ASSUME DeskIInv, [DeskNext]_deskVars, NEW e \in Event
    PROVE  \/ DeskFateOf(e) \in {"unseen", "pending", "cut"} /\ DeskFateOf(e)' = "working"
           \/ DeskFateOf(e) = "working" /\ DeskFateOf(e)' \in {"told", "pending"}
           \/ DeskFateOf(e) = "pending" /\ DeskFateOf(e)' = "told"
           \/ Faults # {} /\ DeskFateOf(e) = "working" /\ DeskFateOf(e)' = "cut"
           \/ DeskFateOf(e)' = DeskFateOf(e)
  <1>1. DeskFateOf(e) = IF Shown(e) THEN "told" ELSE Pipe!FateOf(e)
    BY DeskFatesAre DEF FatesAre
  <1>2. DeskFateOf(e)' = IF Shown(e)' THEN "told" ELSE Pipe!FateOf(e)'
    <2>1. DeskIInv'
      BY NextDeskIInv
    <2>2. FatesAre'
      BY <2>1, DeskFatesAre, PTL
    <2>. QED
      BY <2>2 DEF FatesAre
  <1>3. CASE Shown(e)
    <2>1. Shown(e)'
      BY <1>3, DeskRows DEF Shown, DeskIInv, ShownIsBacklog
    <2>. QED
      BY <1>1, <1>2, <1>3, <2>1
  <1>4. CASE ~Shown(e) /\ Shown(e)'
    <2>1. Pipe!FateOf(e) \in {"told", "working", "pending"}
      BY <1>4, ShownByAnswer
    <2>. QED
      BY <1>1, <1>2, <1>4, <2>1
  <1>5. CASE ~Shown(e) /\ ~Shown(e)'
    <2>1. Pipe!IInv /\ Pipe!Traced /\ [Pipe!Next]_(Pipe!vars)
      BY DeskSim DEF DeskIInv
    <2>2. \/ Pipe!FateOf(e) \in {"unseen", "pending", "cut"} /\ Pipe!FateOf(e)' = "working"
          \/ Pipe!FateOf(e) = "working" /\ Pipe!FateOf(e)' \in {"told", "pending"}
          \/ Faults # {} /\ Pipe!FateOf(e) = "working" /\ Pipe!FateOf(e)' = "cut"
          \/ Pipe!FateOf(e)' = Pipe!FateOf(e)
      BY <2>1, Pipe!FateMoves, WebhookAssumption DEF FaultKind, Pipe!FaultKind
    <2>. QED
      BY <1>1, <1>2, <1>5, <2>2
  <1>. QED
    BY <1>3, <1>4, <1>5

\* The desk implements MessagePromise: a pending message stays pending until
\* LINE delivers it anew or an owner reads it, and is told after that.
THEOREM DeskKeepsItsPromise == DeskSpec => DeskKeepsPromise
  <1>. DEFINE fates == [e \in Event |-> DeskFateOf(e)]
  <1>1. DeskInit => DeskPromise!Init
    <2>. SUFFICES ASSUME DeskInit
                  PROVE  DeskPromise!Init
      OBVIOUS
    <2>1. \A e \in Event : DeskFateOf(e) = "unseen"
      BY DEF DeskInit, Init, DeskFateOf, FateOf, Reached, EventsOf
    <2>. QED
      BY <2>1 DEF DeskPromise!Init
  <1>2. DeskIInv /\ [DeskNext]_deskVars => [DeskPromise!Next]_fates
    <2>. SUFFICES ASSUME DeskIInv, [DeskNext]_deskVars
                  PROVE  DeskPromise!Next
      OBVIOUS
    <2>1. fates' \in [Event -> DeskPromise!Fate]
      BY DEF DeskFateOf, FateOf, DeskPromise!Fate
    <2>2. ASSUME NEW e \in Event
          PROVE  \/ DeskPromise!Take(e) \/ DeskPromise!Finish(e) \/ DeskPromise!Review(e)
                 \/ DeskPromise!Cut(e) \/ DeskPromise!Keep(e)
      <3>1. fates[e] = DeskFateOf(e) /\ fates'[e] = DeskFateOf(e)'
        OBVIOUS
      <3>. QED
        BY <3>1, DeskFateMoves DEF DeskPromise!Take, DeskPromise!Finish,
           DeskPromise!Review, DeskPromise!Cut, DeskPromise!Keep
    <2>. QED
      BY <2>1, <2>2 DEF DeskPromise!Next
  <1>. QED
    BY <1>1, <1>2, DeskInvariance, PTL DEF DeskSpec, DeskKeepsPromise, DeskPromise!Spec
=============================================================================
