--------------------------- MODULE WebhookProofs ---------------------------
(* Theorems about the customer pipeline, for any events, batches, threads, *)
(* retries and faults, with any number of deliveries and crashes.          *)
EXTENDS Webhook, SequenceTheorems, TLAPS

\* The first event of a batch is an event, and the rest is a list again.
LEMMA TodoFacts ==
    ASSUME NEW s \in Seq(Event), s # <<>>
    PROVE  /\ Head(s) \in Event
           /\ Tail(s) \in Seq(Event)
           /\ Len(s) # 1 => Tail(s) # <<>>
  <1>1. /\ Len(s) \in Nat \ {0}
        /\ Len(Tail(s)) = Len(s) - 1
    BY HeadTailProperties, EmptySeq
  <1>2. Len(<<>>) = 0
    BY EmptySeq
  <1>. QED
    BY <1>1, <1>2, HeadTailProperties

\* The initial state.
LEMMA InitIInv == Init => IInv
  BY WebhookAssumption DEF Init, IInv, TypeOK, RunShape, OwnRow, ClaimHeld,
     ExclusiveRun, InRun, FlagWhileRunning, RunFacts, HandledIffReached, RepliedHeld,
     Identified, Label, Working, HasRow, NoRun, Run, Row, Decision, Text

-----------------------------------------------------------------------------
(* Shapes of steps.                                                        *)

\* The two ways a step can touch the rows that are there already.
RowsKept(t) ==
    /\ rows' \in Seq(Row)
    /\ DOMAIN rows' = DOMAIN rows
    /\ \A i \in DOMAIN rows :
          /\ rows'[i].event = rows[i].event
          /\ rows'[i].decision = rows[i].decision
          /\ i # run[t].row => rows'[i].handled = rows[i].handled

\* A step of t leaves the other tasks alone.
OthersKept(t) ==
    \A u \in Task : u # t => /\ pc'[u] = pc[u]
                              /\ todo'[u] = todo[u]
                              /\ run'[u] = run[u]

\* After the step t is outside any run.
LeavesRun(t) ==
    /\ pc' \in [Task -> Label]
    /\ todo' \in [Task -> Seq(Event)]
    /\ run' \in [Task -> Run]
    /\ pc'[t] \in {"idle", "dedupe"}
    /\ pc'[t] # "idle" => todo'[t] # <<>>
    /\ run'[t].row = 0
    /\ OthersKept(t)

LEMMA NextEventLeavesRun ==
    ASSUME TypeOK, RunShape, NEW t \in Task, pc[t] # "idle", NextEvent(t)
    PROVE  LeavesRun(t)
  <1>1. todo[t] \in Seq(Event) /\ todo[t] # <<>>
    BY DEF TypeOK, RunShape
  <1>2. Tail(todo[t]) \in Seq(Event) /\ (Len(todo[t]) # 1 => Tail(todo[t]) # <<>>)
    BY <1>1, TodoFacts
  <1>3. NoRun \in Run /\ NoRun.row = 0
    BY DEF NoRun, Run, Decision, Text
  <1>. QED
    BY <1>2, <1>3 DEF TypeOK, NextEvent, Goto, Label, Working, LeavesRun, OthersKept

-----------------------------------------------------------------------------
(* Steps that end a run, skip an event or take up a batch.                 *)

\* Ending a run keeps the invariant, provided that the dedupe row is only
\* given up from rollback, and that the row of the run has a true flag.
LEMMA EndStep ==
    ASSUME IInv, NEW t \in Task, LeavesRun(t), RowsKept(t),
           \/ processed' = processed
           \/ processed' = processed \ {Current(t)} /\ pc[t] = "rollback",
           replied' = replied, told' = told,
           stranded \subseteq stranded', stranded' \subseteq DOMAIN rows,
           casualty' \subseteq Event, deliveries' \in [Event -> Nat],
           crashes' = crashes,
           pc[t] \in HasRow /\ run[t].decision = "live"
             => \/ rows'[run[t].row].handled <=> run[t].row \in Reached
                \/ run[t].row \in stranded'
    PROVE  IInv'
  <1>1. /\ TypeOK /\ RunShape /\ OwnRow /\ ClaimHeld /\ ExclusiveRun
        /\ FlagWhileRunning /\ HandledIffReached /\ RepliedHeld
    BY DEF IInv
  <1>2. /\ pc' \in [Task -> Label]
        /\ todo' \in [Task -> Seq(Event)]
        /\ run' \in [Task -> Run]
        /\ pc'[t] \in {"idle", "dedupe"}
        /\ pc'[t] # "idle" => todo'[t] # <<>>
        /\ run'[t].row = 0
    BY DEF LeavesRun
  <1>3. OthersKept(t)
    BY DEF LeavesRun
  <1>4. pc'[t] \notin Working /\ pc'[t] \notin HasRow
    BY <1>2 DEF Working, HasRow
  <1>5. TypeOK'
    BY <1>1, <1>2 DEF TypeOK, RowsKept
  <1>6. RunShape'
    <2>. SUFFICES ASSUME NEW u \in Task
                  PROVE  (/\ pc[u] # "idle" => todo[u] # <<>>
                          /\ pc[u] \in HasRow
                               => /\ run[u].row \in DOMAIN rows
                                  /\ rows[run[u].row].event = Current(u)
                                  /\ rows[run[u].row].decision = run[u].decision
                          /\ pc[u] \notin HasRow => run[u].row = 0)'
      BY DEF RunShape
    <2>1. CASE u = t
      BY <1>2, <1>4, <2>1
    <2>2. CASE u # t
      <3>1. /\ pc'[u] = pc[u] /\ todo'[u] = todo[u] /\ run'[u] = run[u]
            /\ Current(u)' = Current(u)
        BY <1>3, <2>2 DEF OthersKept, Current
      <3>. QED
        BY <1>1, <3>1 DEF RunShape, RowsKept
    <2>. QED
      BY <2>1, <2>2
  <1>7. OwnRow'
    <2>. SUFFICES ASSUME NEW u \in Task, NEW v \in Task,
                         run'[u].row = run'[v].row, run'[u].row # 0
                  PROVE  u = v
      BY DEF OwnRow
    <2>1. u # t /\ v # t
      BY <1>2
    <2>. QED
      BY <1>1, <1>3, <2>1 DEF OwnRow, OthersKept
  <1>8. ClaimHeld'
    <2>. SUFFICES ASSUME NEW u \in Task, (pc[u] \in Working)',
                         (Current(u) \in Identified)'
                  PROVE  (Current(u) \in processed)'
      BY DEF ClaimHeld
    <2>1. u # t /\ pc[u] \in Working /\ Current(u)' = Current(u)
          /\ Current(u) \in Identified
      BY <1>3, <1>4 DEF OthersKept, Current, Identified
    <2>2. pc[t] = "rollback" => Current(u) # Current(t)
      BY <1>1, <2>1 DEF ExclusiveRun, InRun, Working
    <2>. QED
      BY <1>1, <2>1, <2>2 DEF ClaimHeld
  <1>9. ExclusiveRun'
    BY <1>1, <1>3, <1>4 DEF ExclusiveRun, InRun, OthersKept, Current, Identified
  <1>10. FlagWhileRunning'
    <2>. SUFFICES ASSUME NEW u \in Task, (pc[u] \in HasRow)'
                  PROVE  RunFacts(u)'
      BY DEF FlagWhileRunning
    <2>1. u # t /\ pc'[u] = pc[u] /\ run'[u] = run[u]
      BY <1>3, <1>4 DEF OthersKept
    <2>2. run[u].row \in DOMAIN rows /\ run[u].row # 0
      BY <1>1, <2>1, LenProperties DEF RunShape, TypeOK
    <2>3. run[u].row # run[t].row
      BY <1>1, <2>1, <2>2 DEF OwnRow
    <2>4. rows'[run[u].row].handled = rows[run[u].row].handled
      BY <2>2, <2>3 DEF RowsKept
    <2>. QED
      BY <1>1, <2>1, <2>4 DEF FlagWhileRunning, RunFacts
  <1>11. HandledIffReached'
    <2>. SUFFICES ASSUME NEW i \in DOMAIN rows, rows[i].decision = "live",
                         AtRest(i)', i \notin stranded'
                  PROVE  rows'[i].handled <=> i \in Reached
      BY DEF HandledIffReached, RowsKept, Reached
    <2>1. i = run[t].row => pc[t] \in HasRow /\ run[t].decision = "live"
      BY <1>1, LenProperties DEF RunShape, TypeOK
    <2>2. i # run[t].row => AtRest(i)
      BY <1>3 DEF AtRest, OthersKept
    <2>. QED
      BY <1>1, <2>1, <2>2 DEF HandledIffReached, RowsKept
  <1>12. RepliedHeld'
    <2>. SUFFICES ASSUME NEW i \in replied, rows[i].event \in Identified
                  PROVE  /\ rows[i].event \in processed'
                         /\ \A u \in Task : InRun(u, rows[i].event)' => run'[u].row = i
      BY <1>1 DEF RepliedHeld, RowsKept, TypeOK, InRun, Identified, Current
    <2>1. pc[t] = "rollback" => rows[i].event # Current(t)
      <3>. SUFFICES ASSUME pc[t] = "rollback", rows[i].event = Current(t)
                    PROVE  FALSE
        OBVIOUS
      <3>1. InRun(t, rows[i].event)
        BY DEF InRun, Working
      <3>2. run[t].row \in replied
        BY <1>1, <3>1 DEF RepliedHeld
      <3>. QED
        BY <1>1, <3>2 DEF FlagWhileRunning, RunFacts, HasRow
    <2>2. rows[i].event \in processed'
      BY <1>1, <2>1 DEF RepliedHeld
    <2>3. ASSUME NEW u \in Task, InRun(u, rows[i].event)'
          PROVE  run'[u].row = i
      <3>1. u # t
        BY <1>4, <2>3 DEF InRun
      <3>2. run'[u] = run[u] /\ InRun(u, rows[i].event)
        BY <1>1, <1>3, <2>3, <3>1 DEF OthersKept, InRun, Current, RowsKept, TypeOK
      <3>. QED
        BY <1>1, <3>2 DEF RepliedHeld
    <2>. QED
      BY <2>2, <2>3
  <1>. QED
    BY <1>5, <1>6, <1>7, <1>8, <1>9, <1>10, <1>11, <1>12 DEF IInv

\* The rows stay as they are.
LEMMA RowsUnchanged ==
    ASSUME TypeOK, NEW t \in Task, rows' = rows
    PROVE  RowsKept(t)
  BY DEF RowsKept, TypeOK

LEMMA ReceiveStep ==
    ASSUME IInv, NEW t \in Task, Receive(t)
    PROVE  IInv'
  <1>1. TypeOK /\ RunShape
    BY DEF IInv
  <1>2. PICK batch \in Batch :
          /\ deliveries' = [e \in Event |->
               IF e \in EventsOf(batch) THEN deliveries[e] + 1 ELSE deliveries[e]]
          /\ todo' = [todo EXCEPT ![t] = batch]
    BY DEF Receive
  <1>3. batch \in Seq(Event) /\ batch # <<>>
    BY WebhookAssumption
  <1>4. LeavesRun(t)
    BY <1>1, <1>2, <1>3 DEF Receive, Goto, LeavesRun, OthersKept, TypeOK, RunShape,
       Label, Working, HasRow
  <1>5. deliveries' \in [Event -> Nat]
    BY <1>1, <1>2 DEF TypeOK
  <1>. QED
    BY <1>1, <1>4, <1>5, EndStep, RowsUnchanged DEF Receive, history, TypeOK, HasRow

LEMMA SkipDuplicateStep ==
    ASSUME IInv, NEW t \in Task, SkipDuplicate(t)
    PROVE  IInv'
  <1>1. TypeOK /\ RunShape
    BY DEF IInv
  <1>. QED
    BY <1>1, EndStep, NextEventLeavesRun, RowsUnchanged
       DEF SkipDuplicate, history, TypeOK, HasRow

LEMMA DedupeRaisesStep ==
    ASSUME IInv, NEW t \in Task, DedupeRaises(t)
    PROVE  IInv'
  <1>1. TypeOK /\ RunShape
    BY DEF IInv
  <1>2. LeavesRun(t)
    BY <1>1, EmptySeq DEF DedupeRaises, Goto, LeavesRun, OthersKept, TypeOK, RunShape,
       Label, HasRow
  <1>3. casualty' \subseteq Event
    BY <1>1, LenProperties DEF DedupeRaises, EventsOf, TypeOK
  <1>. QED
    BY <1>1, <1>2, <1>3, EndStep, RowsUnchanged DEF DedupeRaises, TypeOK, HasRow

\* An exception in the pipeline ends the run and strands its row, if it has
\* one.
LEMMA PipelineFailsStep ==
    ASSUME IInv, NEW t \in Task, pc[t] # "idle", PipelineFails(t)
    PROVE  IInv'
  <1>1. TypeOK /\ RunShape
    BY DEF IInv
  <1>2. Current(t) \in Event
    <2>1. todo[t] \in Seq(Event) /\ todo[t] # <<>>
      BY <1>1 DEF TypeOK, RunShape
    <2>. QED
      BY <2>1, TodoFacts DEF Current
  <1>3. stranded' \subseteq DOMAIN rows
    BY <1>1 DEF PipelineFails, TypeOK, RunShape
  <1>4. pc[t] \in HasRow => run[t].row \in stranded'
    BY <1>1, LenProperties DEF PipelineFails, TypeOK, RunShape
  <1>. QED
    BY <1>1, <1>2, <1>3, <1>4, EndStep, NextEventLeavesRun, RowsUnchanged
       DEF PipelineFails, TypeOK

\* The correction touches only the flag of the run's own row, and leaves it
\* true unless its UPDATE fails.
LEMMA CorrectFacts ==
    ASSUME TypeOK, NEW t \in Task, run[t].row \in DOMAIN rows,
           rows[run[t].row].handled <=> run[t].decision = "live",
           NEW reached \in BOOLEAN, Correct(t, reached)
    PROVE  /\ RowsKept(t)
           /\ stranded \subseteq stranded' /\ stranded' \subseteq DOMAIN rows
           /\ run[t].decision = "live"
                => \/ rows'[run[t].row].handled <=> reached
                   \/ run[t].row \in stranded'
  <1>. DEFINE r == run[t].row
  <1>1. r \in 1..Len(rows) /\ rows[r] \in Row
    BY LenProperties, ElementOfSeq DEF TypeOK
  <1>2. CASE /\ rows' = rows
             /\ \/ SilentDrop(t, reached) /\ stranded' = stranded \cup {r}
                \/ ~SilentDrop(t, reached) /\ stranded' = stranded
    <2>1. RowsKept(t)
      BY <1>2, RowsUnchanged
    <2>. QED
      BY <1>2, <2>1 DEF SilentDrop, TypeOK
  <1>3. CASE /\ SilentDrop(t, reached)
             /\ rows' = [rows EXCEPT ![r].handled = FALSE]
             /\ stranded' = stranded
    <2>1. [rows[r] EXCEPT !.handled = FALSE] \in Row
      BY <1>1 DEF Row
    <2>2. rows' = [rows EXCEPT ![r] = [rows[r] EXCEPT !.handled = FALSE]]
      BY <1>3
    <2>3. /\ rows' \in Seq(Row)
          /\ Len(rows') = Len(rows)
          /\ \A i \in 1..Len(rows) :
                rows'[i] = IF i = r THEN [rows[r] EXCEPT !.handled = FALSE] ELSE rows[i]
      BY <1>1, <2>1, <2>2, ExceptSeq DEF TypeOK
    <2>4. DOMAIN rows' = DOMAIN rows /\ DOMAIN rows = 1..Len(rows)
      BY <2>3, LenProperties DEF TypeOK
    <2>5. RowsKept(t)
      BY <1>1, <2>3, <2>4 DEF RowsKept, Row
    <2>6. ~rows'[r].handled
      BY <1>1, <2>3 DEF Row
    <2>. QED
      BY <1>3, <2>5, <2>6 DEF Correct, SilentDrop, TypeOK
  <1>. QED
    BY <1>2, <1>3 DEF Correct

LEMMA SettleStep ==
    ASSUME IInv, NEW t \in Task, Settle(t)
    PROVE  IInv'
  <1>1. TypeOK /\ RunShape /\ FlagWhileRunning
    BY DEF IInv
  <1>2. pc[t] = "settle" /\ pc[t] \in HasRow
    BY DEF Settle, HasRow
  <1>3. /\ run[t].row \in DOMAIN rows
        /\ rows[run[t].row].handled <=> run[t].decision = "live"
    BY <1>1, <1>2 DEF RunShape, FlagWhileRunning, RunFacts
  <1>4. (run[t].text # "none" \/ run[t].pushed) <=> run[t].row \in Reached
    BY <1>1, <1>2 DEF FlagWhileRunning, RunFacts, Reached
  <1>5. (run[t].text # "none" \/ run[t].pushed) \in BOOLEAN
    BY <1>1 DEF TypeOK, Run
  <1>6. /\ RowsKept(t)
        /\ stranded \subseteq stranded' /\ stranded' \subseteq DOMAIN rows
        /\ run[t].decision = "live"
             => \/ rows'[run[t].row].handled <=> run[t].row \in Reached
                \/ run[t].row \in stranded'
    BY <1>1, <1>3, <1>4, <1>5, CorrectFacts DEF Settle
  <1>. QED
    BY <1>1, <1>2, <1>6, EndStep, NextEventLeavesRun DEF Settle, TypeOK

LEMMA RollbackStep ==
    ASSUME IInv, NEW t \in Task, Rollback(t)
    PROVE  IInv'
  <1>1. TypeOK /\ RunShape /\ FlagWhileRunning
    BY DEF IInv
  <1>2. pc[t] = "rollback" /\ pc[t] \in HasRow
    BY DEF Rollback, HasRow
  <1>3. run[t].decision = "live"
          => \/ rows[run[t].row].handled <=> run[t].row \in Reached
             \/ run[t].row \in stranded
    BY <1>1, <1>2 DEF FlagWhileRunning, RunFacts, Reached
  <1>. QED
    BY <1>1, <1>2, <1>3, EndStep, NextEventLeavesRun, RowsUnchanged
       DEF Rollback, history, TypeOK

-----------------------------------------------------------------------------
(* Steps inside a run.                                                     *)

\* After the step t is still in the run, and works on the same row.
StaysInRun(t) ==
    /\ pc[t] \in HasRow /\ pc'[t] \in HasRow
    /\ pc' \in [Task -> Label]
    /\ run' \in [Task -> Run]
    /\ todo' = todo
    /\ run'[t].row = run[t].row
    /\ run'[t].decision = run[t].decision
    /\ OthersKept(t)

\* A step inside a run keeps the invariant when what FlagWhileRunning says of
\* the run is true again after it, and the histories grow at most by its row.
LEMMA StayStep ==
    ASSUME IInv, NEW t \in Task, StaysInRun(t), RowsKept(t),
           processed' = processed, casualty' = casualty,
           deliveries' = deliveries, crashes' = crashes,
           replied' = replied \/ replied' = replied \cup {run[t].row},
           told' = told \/ told' = told \cup {run[t].row},
           stranded \subseteq stranded', stranded' \subseteq DOMAIN rows,
           RunFacts(t)'
    PROVE  IInv'
  <1>1. /\ TypeOK /\ RunShape /\ OwnRow /\ ClaimHeld /\ ExclusiveRun
        /\ FlagWhileRunning /\ HandledIffReached /\ RepliedHeld
    BY DEF IInv
  <1>2. /\ run[t].row \in DOMAIN rows /\ run[t].row # 0
        /\ rows[run[t].row].event = Current(t)
        /\ pc[t] \in Working
    BY <1>1, LenProperties DEF StaysInRun, RunShape, TypeOK, HasRow, Working
  <1>3. \A u \in Task : /\ Current(u)' = Current(u)
                        /\ run'[u].row = run[u].row
                        /\ run'[u].decision = run[u].decision
                        /\ pc'[u] \in HasRow <=> pc[u] \in HasRow
    BY DEF StaysInRun, OthersKept, Current
  <1>4. \A u \in Task : pc'[u] \in Working <=> pc[u] \in Working
    BY DEF StaysInRun, OthersKept, HasRow, Working
  <1>5. TypeOK'
    BY <1>1, <1>2 DEF TypeOK, RowsKept, StaysInRun
  <1>6. RunShape'
    <2>1. \A u \in Task : pc'[u] # "idle" => pc[u] # "idle"
      BY DEF StaysInRun, OthersKept, HasRow
    <2>. QED
      BY <1>1, <1>3, <2>1 DEF RunShape, RowsKept, StaysInRun
  <1>7. OwnRow'
    BY <1>1, <1>3 DEF OwnRow
  <1>8. ClaimHeld'
    BY <1>1, <1>3, <1>4 DEF ClaimHeld, Identified
  <1>9. ExclusiveRun'
    BY <1>1, <1>3, <1>4 DEF ExclusiveRun, InRun, Identified
  <1>10. FlagWhileRunning'
    <2>. SUFFICES ASSUME NEW u \in Task, u # t, (pc[u] \in HasRow)'
                  PROVE  RunFacts(u)'
      BY DEF FlagWhileRunning
    <2>1. pc'[u] = pc[u] /\ run'[u] = run[u]
      BY DEF StaysInRun, OthersKept
    <2>2. run[u].row \in DOMAIN rows /\ run[u].row # run[t].row
      BY <1>1, <1>2, <2>1 DEF RunShape, OwnRow
    <2>3. rows'[run[u].row].handled = rows[run[u].row].handled
      BY <2>2 DEF RowsKept
    <2>. QED
      BY <1>1, <2>1, <2>2, <2>3 DEF FlagWhileRunning, RunFacts
  <1>11. HandledIffReached'
    <2>. SUFFICES ASSUME NEW i \in DOMAIN rows, rows[i].decision = "live",
                         AtRest(i)', i \notin stranded'
                  PROVE  rows'[i].handled <=> i \in Reached'
      BY DEF HandledIffReached, RowsKept
    <2>1. AtRest(i) /\ i # run[t].row
      BY <1>3 DEF AtRest
    <2>. QED
      BY <1>1, <2>1 DEF HandledIffReached, RowsKept, Reached
  <1>12. RepliedHeld'
    <2>. SUFFICES ASSUME NEW i \in replied', rows[i].event \in Identified
                  PROVE  /\ rows[i].event \in processed
                         /\ \A u \in Task : InRun(u, rows[i].event) => run[u].row = i
      <3>1. \A i \in replied' : rows'[i].event = rows[i].event
        BY <1>1, <1>2 DEF RowsKept, TypeOK
      <3>2. ASSUME NEW u \in Task, NEW i \in replied', InRun(u, rows[i].event)'
            PROVE  InRun(u, rows[i].event)
        BY <1>3, <1>4, <3>1, <3>2 DEF InRun
      <3>. QED
        BY <1>3, <3>1, <3>2 DEF RepliedHeld, Identified
    <2>1. CASE i \in replied
      BY <1>1, <2>1 DEF RepliedHeld
    <2>2. CASE i = run[t].row
      BY <1>1, <1>2, <2>2 DEF ClaimHeld, ExclusiveRun, InRun
    <2>. QED
      BY <2>1, <2>2
  <1>. QED
    BY <1>5, <1>6, <1>7, <1>8, <1>9, <1>10, <1>11, <1>12 DEF IInv

LEMMA PushSucceedsStep ==
    ASSUME IInv, NEW t \in Task, PushSucceeds(t)
    PROVE  IInv'
  <1>1. TypeOK /\ RunShape /\ FlagWhileRunning
    BY DEF IInv
  <1>2. pc[t] = "push" /\ pc[t] \in HasRow
    BY DEF PushSucceeds, HasRow
  <1>3. StaysInRun(t)
    <2>1. pc' = [pc EXCEPT ![t] = AfterPush(t)] /\ AfterPush(t) \in {"settle", "reply"}
      BY DEF PushSucceeds, Goto, AfterPush
    <2>2. run' = [run EXCEPT ![t].pushed = TRUE] /\ todo' = todo
      BY DEF PushSucceeds
    <2>3. run' \in [Task -> Run] /\ run'[t].row = run[t].row /\ run'[t].decision = run[t].decision
      <3>1. run \in [Task -> Run]
        BY <1>1 DEF TypeOK
      <3>. DEFINE after == [run[t] EXCEPT !.pushed = TRUE]
      <3>2. after \in Run /\ after.row = run[t].row /\ after.decision = run[t].decision
        BY <3>1 DEF Run
      <3>3. run' = [run EXCEPT ![t] = after]
        BY <2>2
      <3>. HIDE DEF after
      <3>. QED
        BY <3>1, <3>2, <3>3
    <2>4. pc \in [Task -> Label] /\ run \in [Task -> Run]
      BY <1>1 DEF TypeOK
    <2>5. pc' \in [Task -> Label] /\ pc'[t] \in HasRow
      BY <2>1, <2>4 DEF Label, Working, HasRow
    <2>6. OthersKept(t)
      BY <2>1, <2>2, <2>4 DEF OthersKept
    <2>. QED
      BY <1>2, <2>2, <2>3, <2>5, <2>6 DEF StaysInRun
  <1>4. run'[t] = [run[t] EXCEPT !.pushed = TRUE] /\ run[t] \in Run
    BY <1>1 DEF PushSucceeds, TypeOK
  <1>5. pc'[t] = AfterPush(t) /\ pc'[t] \in {"settle", "reply"}
    BY <1>1 DEF PushSucceeds, AfterPush, Goto, TypeOK
  <1>6. RunFacts(t)
    BY <1>1, <1>2 DEF FlagWhileRunning
  <1>7. RunFacts(t)'
    BY <1>2, <1>4, <1>5, <1>6 DEF RunFacts, PushSucceeds, AfterPush, Run
  <1>. QED
    BY <1>1, <1>3, <1>7, StayStep, RowsUnchanged DEF PushSucceeds, TypeOK

LEMMA PushFailsStep ==
    ASSUME IInv, NEW t \in Task, PushFails(t)
    PROVE  IInv'
  <1>. DEFINE after == [run[t] EXCEPT !.text = IF @ = "notified" THEN "plain" ELSE @]
  <1>1. TypeOK /\ RunShape /\ FlagWhileRunning
    BY DEF IInv
  <1>2. pc[t] = "push" /\ pc[t] \in HasRow
    BY DEF PushFails, HasRow
  <1>3. run[t] \in Run /\ pc[t] \in Label
    BY <1>1 DEF TypeOK
  <1>4. after \in Run /\ after.row = run[t].row /\ after.decision = run[t].decision
    BY <1>3 DEF Run, Text
  <1>5. run' = [run EXCEPT ![t] = after]
    BY <1>1 DEF PushFails, TypeOK
  <1>6. AfterPush(t) \in {"settle", "reply"}
    BY DEF AfterPush
  <1>7. pc' = [pc EXCEPT ![t] = AfterPush(t)] /\ todo' = todo
    BY DEF PushFails, Goto
  <1>. HIDE DEF after
  <1>8. pc' \in [Task -> Label] /\ run' \in [Task -> Run]
    BY <1>1, <1>4, <1>5, <1>6, <1>7 DEF TypeOK, Label, Working
  <1>9. run'[t] = after /\ pc'[t] = AfterPush(t)
    BY <1>1, <1>5, <1>7 DEF TypeOK
  <1>10. OthersKept(t)
    BY <1>1, <1>5, <1>7 DEF OthersKept, TypeOK
  <1>11. StaysInRun(t)
    BY <1>2, <1>4, <1>6, <1>7, <1>8, <1>9, <1>10 DEF StaysInRun, HasRow
  <1>12. RunFacts(t)
    BY <1>1, <1>2 DEF FlagWhileRunning
  <1>13. RunFacts(t)'
    BY <1>2, <1>3, <1>6, <1>9, <1>12 DEF after, RunFacts, PushFails, AfterPush, Run, history
  <1>. QED
    BY <1>1, <1>11, <1>13, StayStep, RowsUnchanged DEF PushFails, history, TypeOK

LEMMA ReplySucceedsStep ==
    ASSUME IInv, NEW t \in Task, ReplySucceeds(t)
    PROVE  IInv'
  <1>1. TypeOK /\ RunShape /\ FlagWhileRunning
    BY DEF IInv
  <1>2. pc[t] = "reply" /\ pc[t] \in HasRow
    BY DEF ReplySucceeds, HasRow
  <1>3. StaysInRun(t) /\ pc'[t] = "settle"
    BY <1>1, <1>2 DEF ReplySucceeds, Goto, StaysInRun, OthersKept, HasRow,
       TypeOK, Label, Working
  <1>4. RunFacts(t)
    BY <1>1, <1>2 DEF FlagWhileRunning
  <1>5. RunFacts(t)'
    BY <1>2, <1>3, <1>4 DEF RunFacts, ReplySucceeds
  <1>. QED
    BY <1>1, <1>3, <1>5, StayStep, RowsUnchanged DEF ReplySucceeds, TypeOK

LEMMA ReplyFailsStep ==
    ASSUME IInv, NEW t \in Task, ReplyFails(t)
    PROVE  IInv'
  <1>1. TypeOK /\ RunShape /\ FlagWhileRunning
    BY DEF IInv
  <1>2. pc[t] = "reply" /\ pc[t] \in HasRow
    BY DEF ReplyFails, HasRow
  <1>3. pc'[t] \in {"unsent", "reply"} /\ pc' \in [Task -> Label]
    BY <1>1 DEF ReplyFails, Goto, TypeOK, Label, Working
  <1>4. run[t] \in Run /\ run'[t] = [run[t] EXCEPT !.tries = @ + 1]
    BY <1>1 DEF ReplyFails, TypeOK
  <1>5. run' \in [Task -> Run]
    <2>1. [run[t] EXCEPT !.tries = @ + 1] \in Run
      BY <1>4 DEF Run
    <2>. QED
      BY <1>1, <2>1 DEF ReplyFails, TypeOK
  <1>6. /\ run'[t].row = run[t].row
        /\ run'[t].decision = run[t].decision
        /\ run'[t].pushed = run[t].pushed
        /\ run'[t].text = run[t].text
    BY <1>4 DEF Run
  <1>7. StaysInRun(t)
    BY <1>1, <1>2, <1>3, <1>5, <1>6 DEF ReplyFails, Goto, StaysInRun, OthersKept,
       HasRow, TypeOK
  <1>8. RunFacts(t)
    BY <1>1, <1>2 DEF FlagWhileRunning
  <1>9. RunFacts(t)'
    BY <1>2, <1>3, <1>6, <1>8 DEF RunFacts, ReplyFails, history
  <1>. QED
    BY <1>1, <1>7, <1>9, StayStep, RowsUnchanged DEF ReplyFails, history, TypeOK

LEMMA ReplyImpossibleStep ==
    ASSUME IInv, NEW t \in Task, ReplyImpossible(t)
    PROVE  IInv'
  <1>1. TypeOK /\ RunShape /\ FlagWhileRunning
    BY DEF IInv
  <1>2. pc[t] = "reply" /\ pc[t] \in HasRow
    BY DEF ReplyImpossible, HasRow
  <1>3. StaysInRun(t) /\ pc'[t] = "unsent"
    BY <1>1, <1>2 DEF ReplyImpossible, Goto, StaysInRun, OthersKept, HasRow,
       TypeOK, Label, Working
  <1>4. RunFacts(t)
    BY <1>1, <1>2 DEF FlagWhileRunning
  <1>5. RunFacts(t)'
    BY <1>2, <1>3, <1>4 DEF RunFacts, ReplyImpossible, history
  <1>. QED
    BY <1>1, <1>3, <1>5, StayStep, RowsUnchanged DEF ReplyImpossible, history, TypeOK

LEMMA SettleUnsentStep ==
    ASSUME IInv, NEW t \in Task, SettleUnsent(t)
    PROVE  IInv'
  <1>1. TypeOK /\ RunShape /\ FlagWhileRunning
    BY DEF IInv
  <1>2. pc[t] = "unsent" /\ pc[t] \in HasRow
    BY DEF SettleUnsent, HasRow
  <1>3. StaysInRun(t) /\ pc'[t] = "rollback"
    BY <1>1, <1>2 DEF SettleUnsent, Goto, StaysInRun, OthersKept, HasRow,
       TypeOK, Label, Working
  <1>4. RunFacts(t)
    BY <1>1, <1>2 DEF FlagWhileRunning
  <1>5. /\ run[t].row \in DOMAIN rows
        /\ rows[run[t].row].handled <=> run[t].decision = "live"
        /\ run[t].pushed \in BOOLEAN
    BY <1>1, <1>2, <1>4 DEF RunShape, RunFacts, TypeOK, Run
  <1>6. /\ RowsKept(t)
        /\ stranded \subseteq stranded' /\ stranded' \subseteq DOMAIN rows
        /\ run[t].decision = "live"
             => \/ rows'[run[t].row].handled <=> run[t].pushed
                \/ run[t].row \in stranded'
    BY <1>1, <1>5, CorrectFacts DEF SettleUnsent
  <1>7. RunFacts(t)'
    BY <1>2, <1>3, <1>4, <1>6 DEF RunFacts, SettleUnsent
  <1>. QED
    BY <1>1, <1>3, <1>6, <1>7, StayStep DEF SettleUnsent

-----------------------------------------------------------------------------
(* Steps that begin a run.                                                 *)

\* A claim needs the event not to be in the table, and puts it there.
LEMMA ClaimStep ==
    ASSUME IInv, NEW t \in Task, Claim(t)
    PROVE  IInv'
  <1>1. /\ TypeOK /\ RunShape /\ OwnRow /\ ClaimHeld /\ ExclusiveRun
        /\ FlagWhileRunning /\ HandledIffReached /\ RepliedHeld
    BY DEF IInv
  <1>2. /\ pc[t] = "dedupe" /\ pc' = [pc EXCEPT ![t] = "handle"]
        /\ rows' = rows /\ todo' = todo /\ run' = run /\ deliveries' = deliveries
        /\ replied' = replied /\ told' = told /\ stranded' = stranded
        /\ casualty' = casualty /\ crashes' = crashes
    BY DEF Claim, Goto, history
  <1>3. Current(t) \in Event
    BY <1>1, <1>2, TodoFacts DEF TypeOK, RunShape, Current
  <1>4. /\ processed' = processed \cup ({Current(t)} \ Anonymous)
        /\ processed' \subseteq Identified
        /\ Current(t) \notin processed
    BY <1>1, <1>3 DEF Claim, Identified, TypeOK
  <1>5. \A u \in Task : Current(u)' = Current(u) /\ (u # t => pc'[u] = pc[u])
    BY <1>1, <1>2 DEF Current, TypeOK
  <1>6. pc'[t] = "handle" /\ pc'[t] \notin HasRow
    BY <1>1, <1>2 DEF TypeOK, HasRow
  <1>7. TypeOK'
    BY <1>1, <1>2, <1>4 DEF TypeOK, Label, Working
  <1>8. RunShape'
    BY <1>1, <1>2, <1>5, <1>6 DEF RunShape, HasRow
  <1>9. OwnRow'
    BY <1>1, <1>2 DEF OwnRow
  <1>10. ClaimHeld'
    BY <1>1, <1>3, <1>4, <1>5 DEF ClaimHeld, Identified
  <1>11. ExclusiveRun'
    BY <1>1, <1>4, <1>5 DEF ExclusiveRun, InRun, ClaimHeld, Identified
  <1>12. FlagWhileRunning'
    BY <1>1, <1>2, <1>5, <1>6 DEF FlagWhileRunning, RunFacts
  <1>13. HandledIffReached'
    BY <1>1, <1>2 DEF HandledIffReached, AtRest, Reached
  <1>14. RepliedHeld'
    BY <1>1, <1>2, <1>4, <1>5 DEF RepliedHeld, InRun, Identified
  <1>. QED
    BY <1>7, <1>8, <1>9, <1>10, <1>11, <1>12, <1>13, <1>14 DEF IInv

\* The new row is set up as its run says, and no task has it but t.
LEMMA PersistStep ==
    ASSUME IInv, NEW t \in Task, Persist(t)
    PROVE  IInv'
  <1>1. /\ TypeOK /\ RunShape /\ OwnRow /\ ClaimHeld /\ ExclusiveRun
        /\ FlagWhileRunning /\ HandledIffReached /\ RepliedHeld
    BY DEF IInv
  <1>2. PICK d \in Decision : \E p \in Plans(d) :
          /\ rows' = Append(rows, [event |-> Current(t), decision |-> d,
                                   handled |-> d = "live"])
          /\ run' = [run EXCEPT ![t] =
                [row |-> Len(rows) + 1, decision |-> d, text |-> p.text,
                 push |-> p.push, pushed |-> FALSE, tries |-> 0]]
          /\ Goto(t, IF p.push THEN "push"
                     ELSE IF p.text = "none" THEN "settle" ELSE "reply")
    BY DEF Persist
  <1>3. PICK p \in Plans(d) :
          /\ rows' = Append(rows, [event |-> Current(t), decision |-> d,
                                   handled |-> d = "live"])
          /\ run' = [run EXCEPT ![t] =
                [row |-> Len(rows) + 1, decision |-> d, text |-> p.text,
                 push |-> p.push, pushed |-> FALSE, tries |-> 0]]
          /\ Goto(t, IF p.push THEN "push"
                     ELSE IF p.text = "none" THEN "settle" ELSE "reply")
    BY <1>2
  <1>4. p \in Plan /\ (p.text = "notified" => p.push)
    BY DEF Plans, Plan
  <1>. DEFINE new == [event |-> Current(t), decision |-> d, handled |-> d = "live"]
              n == Len(rows) + 1
  <1>5. /\ pc[t] = "handle" /\ todo' = todo /\ processed' = processed
        /\ deliveries' = deliveries /\ replied' = replied /\ told' = told
        /\ stranded' = stranded /\ casualty' = casualty /\ crashes' = crashes
    BY DEF Persist, history
  <1>6. Current(t) \in Event
    BY <1>1, <1>5, TodoFacts DEF TypeOK, RunShape, Current
  <1>7. new \in Row
    BY <1>6 DEF Row
  <1>8. /\ rows' \in Seq(Row) /\ n \in Nat \ {0}
        /\ DOMAIN rows = 1..(n - 1) /\ DOMAIN rows' = 1..n
        /\ \A i \in 1..(n - 1) : rows'[i] = rows[i]
        /\ rows'[n] = new
    BY <1>1, <1>3, <1>7, AppendProperties, LenProperties DEF TypeOK
  <1>9. run' = [run EXCEPT ![t] = [row |-> n, decision |-> d, text |-> p.text,
                 push |-> p.push, pushed |-> FALSE, tries |-> 0]]
    BY <1>3
  <1>10. /\ run'[t] = [row |-> n, decision |-> d, text |-> p.text,
                 push |-> p.push, pushed |-> FALSE, tries |-> 0]
         /\ run'[t] \in Run
         /\ run' \in [Task -> Run]
    BY <1>1, <1>4, <1>8, <1>9 DEF TypeOK, Run, Plan
  <1>11. /\ pc' \in [Task -> Label]
         /\ pc'[t] = IF p.push THEN "push"
                     ELSE IF p.text = "none" THEN "settle" ELSE "reply"
         /\ pc'[t] \in HasRow /\ pc'[t] \in Working
    BY <1>1, <1>3 DEF Goto, TypeOK, Label, Working, HasRow
  <1>12. \A u \in Task : /\ Current(u)' = Current(u)
                         /\ u # t => pc'[u] = pc[u] /\ run'[u] = run[u]
    BY <1>1, <1>3, <1>5, <1>9 DEF Current, Goto, TypeOK
  <1>13. \A u \in Task : u # t => run[u].row < n
    BY <1>1, <1>8 DEF RunShape
  <1>14. TypeOK'
    BY <1>1, <1>5, <1>8, <1>10, <1>11 DEF TypeOK
  <1>15. RunShape'
    <2>1. CASE \A u \in Task : u = t
      BY <1>1, <1>5, <1>8, <1>10, <1>11, <1>12, <2>1 DEF RunShape
    <2>2. ASSUME NEW u \in Task, u # t
          PROVE  (/\ pc[u] # "idle" => todo[u] # <<>>
                  /\ pc[u] \in HasRow
                       => /\ run[u].row \in DOMAIN rows
                          /\ rows[run[u].row].event = Current(u)
                          /\ rows[run[u].row].decision = run[u].decision
                  /\ pc[u] \notin HasRow => run[u].row = 0)'
      BY <1>1, <1>5, <1>8, <1>12, <2>2 DEF RunShape
    <2>3. (/\ pc[t] # "idle" => todo[t] # <<>>
           /\ pc[t] \in HasRow
                => /\ run[t].row \in DOMAIN rows
                   /\ rows[run[t].row].event = Current(t)
                   /\ rows[run[t].row].decision = run[t].decision
           /\ pc[t] \notin HasRow => run[t].row = 0)'
      BY <1>1, <1>5, <1>8, <1>10, <1>11, <1>12 DEF RunShape
    <2>. QED
      BY <2>2, <2>3 DEF RunShape
  <1>16. OwnRow'
    BY <1>1, <1>8, <1>10, <1>12, <1>13 DEF OwnRow
  <1>17. \A u \in Task : pc'[u] \in Working <=> pc[u] \in Working
    BY <1>5, <1>11, <1>12 DEF Working
  <1>18. ClaimHeld'
    BY <1>1, <1>5, <1>12, <1>17 DEF ClaimHeld, Identified
  <1>19. ExclusiveRun'
    BY <1>1, <1>12, <1>17 DEF ExclusiveRun, InRun, Identified
  <1>20. FlagWhileRunning'
    <2>1. ASSUME NEW u \in Task, u # t, (pc[u] \in HasRow)'
          PROVE  RunFacts(u)'
      <3>1. pc[u] \in HasRow /\ RunFacts(u) /\ run[u].row \in 1..(n - 1)
        BY <1>1, <1>8, <1>12, <2>1 DEF FlagWhileRunning, RunShape
      <3>. QED
        BY <1>5, <1>8, <1>12, <2>1, <3>1 DEF RunFacts
    <2>2. RunFacts(t)'
      <3>1. n \notin told /\ n \notin replied
        BY <1>1, <1>8 DEF TypeOK
      <3>2. /\ run'[t].row = n /\ run'[t].decision = d /\ run'[t].text = p.text
            /\ ~run'[t].pushed
        BY <1>10
      <3>3. rows'[n].handled <=> d = "live"
        <4>1. new.handled = (d = "live")
          BY Zenon
        <4>. QED
          BY <1>8, <4>1
      <3>4. /\ pc'[t] # "rollback"
            /\ pc'[t] = "settle" => p.text = "none"
            /\ pc'[t] = "reply" => p.text # "none" /\ p.text # "notified"
        BY <1>4, <1>11
      <3>. QED
        BY <1>5, <3>1, <3>2, <3>3, <3>4 DEF RunFacts
    <2>. QED
      BY <2>1, <2>2 DEF FlagWhileRunning
  <1>21. HandledIffReached'
    <2>. SUFFICES ASSUME NEW i \in DOMAIN rows', rows'[i].decision = "live",
                         AtRest(i)', i \notin stranded
                  PROVE  rows'[i].handled <=> i \in Reached
      BY <1>5 DEF HandledIffReached, Reached
    <2>1. i \in DOMAIN rows /\ rows'[i] = rows[i]
      BY <1>8, <1>10 DEF AtRest
    <2>2. run[t].row = 0
      BY <1>1, <1>5 DEF RunShape, HasRow
    <2>3. AtRest(i)
      BY <1>8, <1>12, <2>1, <2>2 DEF AtRest
    <2>. QED
      BY <1>1, <2>1, <2>3 DEF HandledIffReached
  <1>22. RepliedHeld'
    <2>1. \A i \in replied : i \in 1..(n - 1) /\ rows'[i] = rows[i]
      BY <1>1, <1>8 DEF TypeOK
    <2>2. run[t].row = 0
      BY <1>1, <1>5 DEF RunShape, HasRow
    <2>3. ASSUME NEW i \in replied, rows[i].event \in Identified, NEW u \in Task,
                 pc'[u] \in Working, Current(u) = rows[i].event
          PROVE  run'[u].row = i
      <3>1. InRun(u, rows[i].event)
        BY <1>17, <2>3 DEF InRun
      <3>2. run[u].row = i
        BY <1>1, <2>3, <3>1 DEF RepliedHeld
      <3>. QED
        BY <1>12, <2>1, <2>2, <2>3, <3>2
    <2>4. \A i \in replied : rows[i].event \in Identified => rows[i].event \in processed
      BY <1>1 DEF RepliedHeld
    <2>. QED
      BY <1>5, <1>12, <2>1, <2>3, <2>4 DEF RepliedHeld, InRun, Identified
  <1>. QED
    BY <1>14, <1>15, <1>16, <1>18, <1>19, <1>20, <1>21, <1>22 DEF IInv

-----------------------------------------------------------------------------
(* The crash.                                                              *)

\* Every run ends at once, and its row is stranded.
LEMMA CrashStep ==
    ASSUME IInv, Crash
    PROVE  IInv'
  <1>1. TypeOK /\ RunShape /\ HandledIffReached /\ RepliedHeld
    BY DEF IInv
  <1>2. /\ pc' = [t \in Task |-> "idle"]
        /\ todo' = [t \in Task |-> <<>>]
        /\ run' = [t \in Task |-> NoRun]
        /\ stranded' = stranded \cup ({run[t].row : t \in Task} \ {0})
        /\ crashes' \in Nat
        /\ rows' = rows /\ processed' = processed /\ deliveries' = deliveries
        /\ replied' = replied /\ told' = told
    BY <1>1 DEF Crash, TypeOK
  <1>3. NoRun \in Run /\ NoRun.row = 0
    BY DEF NoRun, Run, Decision, Text
  <1>4. casualty' \subseteq Event
    BY <1>1, LenProperties DEF Crash, EventsOf, TypeOK
  <1>5. stranded' \subseteq DOMAIN rows
    BY <1>1, <1>2 DEF TypeOK, RunShape
  <1>6. TypeOK'
    BY <1>1, <1>2, <1>3, <1>4, <1>5, EmptySeq DEF TypeOK, Label
  <1>7. \A t \in Task : pc'[t] \notin Working /\ pc'[t] \notin HasRow
    BY <1>2 DEF Working, HasRow
  <1>8. RunShape' /\ OwnRow'
    BY <1>2, <1>3, <1>7 DEF RunShape, OwnRow
  <1>9. ClaimHeld' /\ ExclusiveRun' /\ FlagWhileRunning'
    BY <1>7 DEF ClaimHeld, ExclusiveRun, FlagWhileRunning, InRun
  <1>10. HandledIffReached'
    <2>. SUFFICES ASSUME NEW i \in DOMAIN rows, rows[i].decision = "live",
                         i \notin stranded'
                  PROVE  rows[i].handled <=> i \in Reached
      BY <1>2 DEF HandledIffReached, Reached
    <2>1. i # 0
      BY <1>1, LenProperties DEF TypeOK
    <2>2. AtRest(i)
      BY <1>2, <2>1 DEF AtRest
    <2>. QED
      BY <1>1, <1>2, <2>2 DEF HandledIffReached
  <1>11. RepliedHeld'
    BY <1>1, <1>2, <1>7 DEF RepliedHeld, InRun, Identified
  <1>. QED
    BY <1>6, <1>8, <1>9, <1>10, <1>11 DEF IInv

-----------------------------------------------------------------------------
(* The inductive invariant and what follows from it.                       *)

\* Every step of the pipeline preserves the inductive invariant.
LEMMA NextIInv ==
    ASSUME IInv, [Next]_vars
    PROVE  IInv'
  <1>1. CASE UNCHANGED vars
    BY <1>1 DEF vars, history, IInv, TypeOK, RunShape, OwnRow, ClaimHeld, ExclusiveRun,
       FlagWhileRunning, RunFacts, HandledIffReached, RepliedHeld, InRun, Current,
       AtRest, Reached
  <1>2. CASE Crash
    BY <1>2, CrashStep
  <1>3. ASSUME NEW t \in Task, Receive(t) \/ Step(t)
        PROVE  IInv'
    <2>1. CASE Receive(t)
      BY <2>1, ReceiveStep
    <2>2. CASE Claim(t)
      BY <2>2, ClaimStep
    <2>3. CASE SkipDuplicate(t)
      BY <2>3, SkipDuplicateStep
    <2>4. CASE DedupeRaises(t)
      BY <2>4, DedupeRaisesStep
    <2>5. CASE Persist(t)
      BY <2>5, PersistStep
    <2>6. CASE HandlerRaises(t)
      BY <2>6, PipelineFailsStep DEF HandlerRaises
    <2>7. CASE PushSucceeds(t)
      BY <2>7, PushSucceedsStep
    <2>8. CASE PushFails(t)
      BY <2>8, PushFailsStep
    <2>9. CASE OwnerLookupRaises(t)
      BY <2>9, PipelineFailsStep DEF OwnerLookupRaises
    <2>10. CASE ReplySucceeds(t)
      BY <2>10, ReplySucceedsStep
    <2>11. CASE ReplyFails(t)
      BY <2>11, ReplyFailsStep
    <2>12. CASE ReplyImpossible(t)
      BY <2>12, ReplyImpossibleStep
    <2>13. CASE Settle(t)
      BY <2>13, SettleStep
    <2>14. CASE SettleUnsent(t)
      BY <2>14, SettleUnsentStep
    <2>15. CASE Rollback(t)
      BY <2>15, RollbackStep
    <2>16. CASE RollbackRaises(t)
      BY <2>16, PipelineFailsStep DEF RollbackRaises
    <2>. QED
      BY <1>3, <2>1, <2>2, <2>3, <2>4, <2>5, <2>6, <2>7, <2>8, <2>9, <2>10, <2>11,
         <2>12, <2>13, <2>14, <2>15, <2>16 DEF Step
  <1>. QED
    BY <1>1, <1>2, <1>3 DEF Next

\* The inductive invariant holds of every reachable state.
THEOREM Invariance == Spec => []IInv
  BY InitIInv, NextIInv, PTL DEF Spec

\* The tables and the local variables of the tasks keep their types.
THEOREM TypeCorrect == Spec => []TypeOK
  <1>1. IInv => TypeOK
    BY DEF IInv
  <1>. QED
    BY Invariance, <1>1, PTL

\* mark_if_new and the rollback never let two deliveries of an event with an
\* id be worked on at a time.
THEOREM OneRunPerEvent == Spec => []ExclusiveRun
  <1>1. IInv => ExclusiveRun
    BY DEF IInv
  <1>. QED
    BY Invariance, <1>1, PTL

\* The handled flag of a finished run tells whether anybody was reached.
THEOREM FlagTellsTruth == Spec => []HandledIffReached
  <1>1. IInv => HandledIffReached
    BY DEF IInv
  <1>. QED
    BY Invariance, <1>1, PTL

\* The customer is told "notified" only after an owner's push went through.
THEOREM NotifiedTellsTruth == Spec => []NotifiedIsTrue
  <1>1. IInv => NotifiedIsTrue
    BY DEF IInv, FlagWhileRunning, RunFacts, NotifiedIsTrue, HasRow
  <1>. QED
    BY Invariance, <1>1, PTL

\* Only Persist adds a row, and its task holds no replied row of the event.
LEMMA NoRowAfterReply ==
    ASSUME IInv, [Next]_vars, NEW e \in Identified,
           NEW i \in replied, rows[i].event = e,
           NEW j \in DOMAIN rows' \ DOMAIN rows
    PROVE  rows'[j].event # e
  <1>1. TypeOK /\ RunShape /\ RepliedHeld
    BY DEF IInv
  <1>2. CASE \E t \in Task : Persist(t)
    <2>1. PICK t \in Task : Persist(t)
      BY <1>2
    <2>2. pc[t] = "handle"
      BY <2>1 DEF Persist
    <2>3. PICK d \in Decision :
            rows' = Append(rows, [event |-> Current(t), decision |-> d,
                                  handled |-> d = "live"])
      BY <2>1 DEF Persist
    <2>4. rows'[j].event = Current(t)
      <3>1. rows \in Seq(Row) /\ DOMAIN rows = 1..Len(rows)
        BY <1>1, LenProperties DEF TypeOK
      <3>2. Current(t) \in Event
        BY <1>1, <2>2, TodoFacts DEF TypeOK, RunShape, Current
      <3>3. [event |-> Current(t), decision |-> d, handled |-> d = "live"] \in Row
        BY <3>2 DEF Row
      <3>4. /\ DOMAIN rows' = 1..(Len(rows) + 1)
            /\ rows'[Len(rows) + 1].event = Current(t)
        BY <2>3, <3>1, <3>3, AppendProperties, LenProperties
      <3>. QED
        BY <3>1, <3>4, LenProperties
    <2>5. run[t].row = 0 /\ i # 0
      <3>1. run[t].row = 0
        BY <1>1, <2>2 DEF RunShape, HasRow
      <3>2. rows \in Seq(Row) /\ replied \subseteq DOMAIN rows
        BY <1>1 DEF TypeOK
      <3>3. i \in 1..Len(rows)
        BY <3>2, LenProperties
      <3>. QED
        BY <3>1, <3>3
    <2>6. ~InRun(t, e)
      BY <1>1, <2>5 DEF RepliedHeld
    <2>. QED
      BY <2>2, <2>4, <2>6 DEF InRun, Working
  <1>3. CASE \A t \in Task : ~Persist(t)
    <2>1. DOMAIN rows' = DOMAIN rows
      BY <1>1, <1>3 DEF Next, Step, Receive, Claim, SkipDuplicate, DedupeRaises,
         HandlerRaises, PipelineFails, PushSucceeds, PushFails, OwnerLookupRaises,
         ReplySucceeds, ReplyFails, ReplyImpossible, Settle, SettleUnsent, Correct,
         Rollback, RollbackRaises, Crash, vars, TypeOK
    <2>. QED
      BY <2>1
  <1>. QED
    BY <1>2, <1>3

\* Once a message with an id was answered, no delivery of it is stored again.
THEOREM AnsweredStaysAnswered == Spec => RepliedIsFinal
  <1>1. IInv /\ [Next]_vars
          => [\A e \in Identified :
                (\E i \in replied : rows[i].event = e)
                  => \A j \in DOMAIN rows' \ DOMAIN rows : rows'[j].event # e]_vars
    BY NoRowAfterReply
  <1>. QED
    BY Invariance, <1>1, PTL DEF Spec, RepliedIsFinal

-----------------------------------------------------------------------------
(* Nothing a customer wrote is lost by the pipeline: the inductive         *)
(* invariant behind StoredOrCasualty, and the proof that Webhook           *)
(* implements MessagePromise.                                              *)

Held(e) == \E t \in Task : e \in EventsOf(todo[t])
Stored(e) == \E i \in DOMAIN rows : rows[i].event = e

\* A task at rest holds no event, and what a task holds was delivered.
TodoShape ==
    /\ \A t \in Task : pc[t] = "idle" => todo[t] = <<>>
    /\ \A e \in Event : Held(e) => deliveries[e] # 0

\* An event leaves a trace behind its dedupe row: a row, a fault or a run.
ProcessedLeftTrace ==
    \A e \in processed : Stored(e) \/ e \in casualty \/ \E t \in Task : InRun(t, e)

\* decision_to_db_mapper: only a live decision is handled.
OnlyLiveHandled ==
    \A i \in DOMAIN rows : rows[i].handled => rows[i].decision = "live"

\* Only faults strand rows and cut deliveries.
FaultsBehind == Faults = {} => casualty = {} /\ stranded = {}

Traced ==
    /\ TodoShape
    /\ ProcessedLeftTrace
    /\ StoredOrCasualty
    /\ OnlyLiveHandled
    /\ FaultsBehind

-----------------------------------------------------------------------------
(* The events of a list.                                                   *)

LEMMA EventsOfNothing == EventsOf(<<>>) = {}
  BY DEF EventsOf

\* The events of a list are its first one and those of the rest.
LEMMA EventsOfList ==
    ASSUME NEW s \in Seq(Event), s # <<>>
    PROVE  /\ EventsOf(s) = {Head(s)} \cup EventsOf(Tail(s))
           /\ Head(s) \in Event
           /\ Len(s) = 1 => Tail(s) = <<>>
  <1>1. /\ Len(s) \in Nat \ {0} /\ DOMAIN s = 1..Len(s)
        /\ Head(s) = s[1] /\ Head(s) \in Event
        /\ Tail(s) \in Seq(Event) /\ Len(Tail(s)) = Len(s) - 1
        /\ \A i \in 1..Len(Tail(s)) : Tail(s)[i] = s[i + 1]
    BY EmptySeq, LenProperties, HeadTailProperties
  <1>2. DOMAIN Tail(s) = 1..(Len(s) - 1)
    BY <1>1, LenProperties
  <1>. DEFINE tail == Tail(s)
              n == Len(s)
  <1>. HIDE DEF tail
  <1>3. /\ n \in Nat \ {0} /\ DOMAIN s = 1..n /\ DOMAIN tail = 1..(n - 1)
        /\ \A i \in 1..(n - 1) : tail[i] = s[i + 1]
    BY <1>1, <1>2 DEF tail
  <1>. HIDE DEF n
  <1>4. ASSUME NEW e \in EventsOf(s)
        PROVE  e = s[1] \/ e \in EventsOf(tail)
    <2>1. PICK i \in 1..n : e = s[i]
      BY <1>3 DEF EventsOf
    <2>2. CASE i # 1
      <3>1. i - 1 \in 1..(n - 1) /\ tail[i - 1] = s[(i - 1) + 1] /\ (i - 1) + 1 = i
        BY <1>3, <2>2
      <3>. QED
        BY <1>3, <2>1, <3>1 DEF EventsOf
    <2>. QED
      BY <2>1, <2>2
  <1>5. ASSUME NEW e \in EventsOf(tail)
        PROVE  e \in EventsOf(s)
    <2>1. PICK i \in 1..(n - 1) : e = tail[i]
      BY <1>3 DEF EventsOf
    <2>2. i + 1 \in 1..n /\ e = s[i + 1]
      BY <1>3, <2>1
    <2>. QED
      BY <1>3, <2>2 DEF EventsOf
  <1>6. s[1] \in EventsOf(s)
    BY <1>3 DEF EventsOf
  <1>7. EventsOf(s) = {s[1]} \cup EventsOf(tail)
    BY <1>4, <1>5, <1>6
  <1>8. Len(s) = 1 => Tail(s) = <<>>
    <2>1. ASSUME NEW q \in Seq(Event), Len(q) = 0
          PROVE  q = <<>>
      BY <2>1, EmptySeq
    <2>2. Len(s) = 1 => Len(Tail(s)) = 0
      BY <1>1
    <2>. QED
      BY <1>1, <2>1, <2>2
  <1>. QED
    BY <1>1, <1>7, <1>8 DEF tail

\* A task at work holds its current event.
LEMMA CurrentIsHeld ==
    ASSUME TypeOK, RunShape, NEW t \in Task, pc[t] # "idle"
    PROVE  /\ Current(t) \in EventsOf(todo[t])
           /\ Current(t) \in Event
           /\ EventsOf(todo[t]) = {Current(t)} \cup EventsOf(Tail(todo[t]))
           /\ Len(todo[t]) = 1 => Tail(todo[t]) = <<>>
  <1>1. todo[t] \in Seq(Event) /\ todo[t] # <<>>
    BY DEF TypeOK, RunShape
  <1>. QED
    BY <1>1, EventsOfList DEF Current

\* Every held event is an event.
LEMMA HeldIsEvent ==
    ASSUME TypeOK, NEW t \in Task
    PROVE  EventsOf(todo[t]) \subseteq Event
  <1>1. todo[t] \in Seq(Event)
    BY DEF TypeOK
  <1>. QED
    BY <1>1, LenProperties, ElementOfSeq DEF EventsOf

-----------------------------------------------------------------------------
(* What the step of a thread may touch.                                    *)

\* A step of t, once its POST came in, concerns the events t holds, and adds to
\* what is known of them.
Touches(t) ==
    /\ OthersKept(t)
    /\ deliveries' = deliveries
    /\ EventsOf(todo'[t]) \subseteq EventsOf(todo[t])
    /\ pc'[t] = "idle" => todo'[t] = <<>>
    /\ DOMAIN rows \subseteq DOMAIN rows'
    /\ \A i \in DOMAIN rows :
          /\ rows'[i].event = rows[i].event
          /\ rows'[i].decision = rows[i].decision
          /\ rows'[i].handled # rows[i].handled
               => rows[i].event \in EventsOf(todo[t]) /\ ~rows'[i].handled
    /\ \A i \in DOMAIN rows' \ DOMAIN rows :
          /\ rows'[i].event \in EventsOf(todo[t])
          /\ rows'[i].handled => rows'[i].decision = "live"
    /\ Reached \subseteq Reached' /\ stranded \subseteq stranded' /\ casualty \subseteq casualty'
    /\ \A i \in (Reached' \ Reached) \cup (stranded' \ stranded) :
          i \in DOMAIN rows /\ rows[i].event \in EventsOf(todo[t])
    /\ casualty' \ casualty \subseteq EventsOf(todo[t])
    /\ Faults = {} => casualty' = casualty /\ stranded' = stranded

\* t has not lost an event that it no longer holds.
Remembers(t) ==
    \A e \in EventsOf(todo[t]) :
        \/ e \in EventsOf(todo'[t])
        \/ Stored(e)'
        \/ e \in casualty'
        \/ e \in processed /\ ~InRun(t, e)

\* Dedupe rows are left for the runs t began, or that left a trace.
Accounts(t) ==
    \A e \in processed' :
        \/ e \in processed /\ ~InRun(t, e)
        \/ Stored(e)' \/ e \in casualty'
        \/ InRun(t, e)'

\* A step that stays at its list, its rows and its row.
LEMMA NextEventTouches ==
    ASSUME TypeOK, RunShape, NEW t \in Task, pc[t] # "idle", NextEvent(t)
    PROVE  /\ OthersKept(t)
           /\ EventsOf(todo'[t]) \subseteq EventsOf(todo[t])
           /\ \A e \in EventsOf(todo[t]) : e = Current(t) \/ e \in EventsOf(todo'[t])
           /\ pc'[t] = "idle" => todo'[t] = <<>>
           /\ pc'[t] \notin Working
  <1>1. /\ EventsOf(todo[t]) = {Current(t)} \cup EventsOf(Tail(todo[t]))
        /\ Len(todo[t]) = 1 => Tail(todo[t]) = <<>>
    BY CurrentIsHeld
  <1>2. todo'[t] = Tail(todo[t]) /\ OthersKept(t)
    BY DEF NextEvent, Goto, OthersKept, TypeOK
  <1>3. pc'[t] = IF Len(todo[t]) = 1 THEN "idle" ELSE "dedupe"
    BY DEF NextEvent, Goto, TypeOK
  <1>. QED
    BY <1>1, <1>2, <1>3 DEF Working

\* Such a step keeps the invariant.
LEMMA TracedStep ==
    ASSUME IInv, Traced, NEW t \in Task, Touches(t), Remembers(t), Accounts(t)
    PROVE  Traced'
  <1>1. TypeOK /\ RunShape /\ TodoShape /\ ProcessedLeftTrace /\ StoredOrCasualty
    BY DEF IInv, Traced
  <1>2. \A u \in Task : u # t => /\ pc'[u] = pc[u] /\ todo'[u] = todo[u]
                                 /\ \A e \in Event : InRun(u, e)' <=> InRun(u, e)
    BY DEF Touches, OthersKept, InRun, Current
  <1>3. ASSUME NEW e, Stored(e)
        PROVE  Stored(e)'
    BY <1>3 DEF Stored, Touches
  <1>4. ASSUME NEW e \in Event, Held(e), ~Held(e)'
        PROVE  Stored(e)' \/ e \in casualty'
    <2>1. e \in EventsOf(todo[t]) /\ e \notin EventsOf(todo'[t])
      BY <1>2, <1>4 DEF Held
    <2>2. CASE e \in processed /\ ~InRun(t, e)
      <3>1. ASSUME NEW u \in Task, InRun(u, e)
            PROVE  FALSE
        <4>1. u # t
          BY <2>2, <3>1
        <4>2. e \in EventsOf(todo[u])
          BY <1>1, <3>1, CurrentIsHeld DEF InRun, Working
        <4>3. todo'[u] = todo[u]
          BY <1>2, <4>1
        <4>. QED
          BY <1>4, <4>2, <4>3 DEF Held
      <3>2. Stored(e) \/ e \in casualty
        BY <1>1, <2>2, <3>1 DEF ProcessedLeftTrace
      <3>. QED
        BY <1>3, <3>2 DEF Touches
    <2>. QED
      BY <2>1, <2>2 DEF Remembers
  <1>5. TodoShape'
    <2>1. \A u \in Task : pc'[u] = "idle" => todo'[u] = <<>>
      BY <1>1, <1>2 DEF TodoShape, Touches
    <2>2. ASSUME NEW e \in Event, Held(e)'
          PROVE  deliveries'[e] # 0
      <3>1. Held(e)
        BY <1>2, <2>2 DEF Held, Touches
      <3>. QED
        BY <1>1, <3>1 DEF TodoShape, Touches
    <2>. QED
      BY <2>1, <2>2 DEF TodoShape
  <1>6. ProcessedLeftTrace'
    <2>. SUFFICES ASSUME NEW e \in processed'
                  PROVE  Stored(e)' \/ e \in casualty' \/ \E u \in Task : InRun(u, e)'
      BY DEF ProcessedLeftTrace
    <2>1. CASE e \in processed /\ ~InRun(t, e)
      <3>1. e \in Event
        BY <1>1, <2>1 DEF TypeOK, Identified
      <3>2. Stored(e) \/ e \in casualty \/ \E u \in Task : InRun(u, e)
        BY <1>1, <2>1 DEF ProcessedLeftTrace
      <3>3. ASSUME NEW u \in Task, InRun(u, e)
            PROVE  InRun(u, e)'
        BY <1>2, <2>1, <3>1, <3>3
      <3>. QED
        BY <1>3, <3>2, <3>3 DEF Touches
    <2>. QED
      BY <2>1 DEF Accounts
  <1>7. StoredOrCasualty'
    <2>. SUFFICES ASSUME NEW e \in Event, deliveries'[e] # 0, ~Held(e)'
                  PROVE  Stored(e)' \/ e \in casualty'
      BY DEF StoredOrCasualty, Held, Stored
    <2>1. Held(e) \/ Stored(e) \/ e \in casualty
      BY <1>1 DEF StoredOrCasualty, Held, Stored, Touches
    <2>. QED
      BY <1>3, <1>4, <2>1 DEF Touches
  <1>8. OnlyLiveHandled'
    <2>. SUFFICES ASSUME NEW i \in DOMAIN rows', rows'[i].handled
                  PROVE  rows'[i].decision = "live"
      BY DEF OnlyLiveHandled
    <2>1. CASE i \in DOMAIN rows
      <3>1. rows[i].handled
        BY <2>1 DEF Touches
      <3>. QED
        BY <2>1, <3>1 DEF Touches, Traced, OnlyLiveHandled
    <2>2. CASE i \notin DOMAIN rows
      BY <2>2 DEF Touches
    <2>. QED
      BY <2>1, <2>2
  <1>9. FaultsBehind'
    BY DEF Traced, FaultsBehind, Touches
  <1>. QED
    BY <1>5, <1>6, <1>7, <1>8, <1>9 DEF Traced

-----------------------------------------------------------------------------
(* The steps of a thread.                                                  *)

\* The rows and what is known of them stay, the list may get shorter.
LEMMA QuietTouches ==
    ASSUME TypeOK, NEW t \in Task, OthersKept(t), deliveries' = deliveries,
           rows' = rows, EventsOf(todo'[t]) \subseteq EventsOf(todo[t]),
           pc'[t] = "idle" => todo'[t] = <<>>,
           replied' = replied, told' = told, stranded' = stranded, casualty' = casualty
    PROVE  Touches(t)
  BY DEF Touches, Reached

LEMMA ClaimTouches ==
    ASSUME IInv, NEW t \in Task, Claim(t)
    PROVE  Touches(t) /\ Remembers(t) /\ Accounts(t)
  <1>1. TypeOK /\ RunShape
    BY DEF IInv
  <1>2. /\ OthersKept(t) /\ todo' = todo /\ pc'[t] = "handle" /\ Current(t)' = Current(t)
        /\ rows' = rows /\ deliveries' = deliveries /\ processed' \subseteq processed \cup {Current(t)}
        /\ replied' = replied /\ told' = told /\ stranded' = stranded /\ casualty' = casualty
        /\ pc[t] = "dedupe"
    BY <1>1 DEF Claim, Goto, OthersKept, history, TypeOK, Current
  <1>3. Touches(t) /\ Remembers(t)
    <2>1. EventsOf(todo'[t]) = EventsOf(todo[t])
      BY <1>2
    <2>. QED
      BY <1>1, <1>2, <2>1, QuietTouches DEF Remembers
  <1>4. Accounts(t)
    BY <1>2 DEF Accounts, InRun, Working
  <1>. QED
    BY <1>3, <1>4

\* A duplicate's dedupe row speaks for it.
LEMMA SkipDuplicateTouches ==
    ASSUME IInv, NEW t \in Task, SkipDuplicate(t)
    PROVE  Touches(t) /\ Remembers(t) /\ Accounts(t)
  <1>1. TypeOK /\ RunShape /\ pc[t] = "dedupe" /\ NextEvent(t) /\ Current(t) \in processed
    BY DEF IInv, SkipDuplicate
  <1>2. /\ OthersKept(t)
        /\ EventsOf(todo'[t]) \subseteq EventsOf(todo[t])
        /\ \A e \in EventsOf(todo[t]) : e = Current(t) \/ e \in EventsOf(todo'[t])
        /\ pc'[t] = "idle" => todo'[t] = <<>>
    BY <1>1, NextEventTouches
  <1>3. /\ rows' = rows /\ deliveries' = deliveries /\ processed' = processed
        /\ replied' = replied /\ told' = told /\ stranded' = stranded /\ casualty' = casualty
    BY DEF SkipDuplicate, history
  <1>4. ~\E e : InRun(t, e)
    BY <1>1 DEF InRun, Working
  <1>. QED
    BY <1>1, <1>2, <1>3, <1>4, QuietTouches DEF Remembers, Accounts

LEMMA DedupeRaisesTouches ==
    ASSUME IInv, NEW t \in Task, DedupeRaises(t)
    PROVE  Touches(t) /\ Remembers(t) /\ Accounts(t)
  <1>1. TypeOK /\ pc[t] = "dedupe"
    BY DEF IInv, DedupeRaises
  <1>2. /\ OthersKept(t) /\ todo'[t] = <<>>
        /\ rows' = rows /\ deliveries' = deliveries /\ processed' = processed
        /\ replied' = replied /\ told' = told /\ stranded' = stranded
        /\ casualty' = casualty \cup EventsOf(todo[t])
        /\ Faults # {}
    BY <1>1 DEF DedupeRaises, Goto, OthersKept, TypeOK
  <1>3. Touches(t)
    BY <1>1, <1>2, EventsOfNothing DEF Touches, Reached
  <1>4. Remembers(t) /\ Accounts(t)
    BY <1>1, <1>2 DEF Remembers, Accounts, InRun, Working
  <1>. QED
    BY <1>3, <1>4

\* An exception counts its event among the casualties.
LEMMA PipelineFailsTouches ==
    ASSUME IInv, NEW t \in Task, pc[t] # "idle", PipelineFails(t), Faults # {}
    PROVE  Touches(t) /\ Remembers(t) /\ Accounts(t)
  <1>1. TypeOK /\ RunShape /\ NextEvent(t)
    BY DEF IInv, PipelineFails
  <1>2. /\ OthersKept(t)
        /\ EventsOf(todo'[t]) \subseteq EventsOf(todo[t])
        /\ \A e \in EventsOf(todo[t]) : e = Current(t) \/ e \in EventsOf(todo'[t])
        /\ pc'[t] = "idle" => todo'[t] = <<>>
    BY <1>1, NextEventTouches
  <1>3. /\ rows' = rows /\ deliveries' = deliveries /\ processed' = processed
        /\ replied' = replied /\ told' = told
        /\ stranded' = stranded \cup ({run[t].row} \ {0})
        /\ casualty' = casualty \cup {Current(t)}
    BY DEF PipelineFails
  <1>4. Current(t) \in EventsOf(todo[t])
    BY <1>1, CurrentIsHeld
  <1>5. run[t].row # 0 => run[t].row \in DOMAIN rows /\ rows[run[t].row].event = Current(t)
    BY <1>1 DEF RunShape
  <1>6. Touches(t)
    BY <1>2, <1>3, <1>4, <1>5 DEF Touches, Reached
  <1>7. Remembers(t)
    BY <1>2, <1>3 DEF Remembers
  <1>8. Accounts(t)
    BY <1>3 DEF Accounts, InRun
  <1>. QED
    BY <1>6, <1>7, <1>8

LEMMA PersistTouches ==
    ASSUME IInv, NEW t \in Task, Persist(t)
    PROVE  Touches(t) /\ Remembers(t) /\ Accounts(t)
  <1>1. TypeOK /\ RunShape /\ pc[t] = "handle"
    BY DEF IInv, Persist
  <1>2. PICK d \in Decision :
          rows' = Append(rows, [event |-> Current(t), decision |-> d, handled |-> d = "live"])
    BY DEF Persist
  <1>. DEFINE new == [event |-> Current(t), decision |-> d, handled |-> d = "live"]
  <1>3. Current(t) \in EventsOf(todo[t]) /\ Current(t) \in Event
    BY <1>1, CurrentIsHeld
  <1>4. new \in Row /\ new.event = Current(t) /\ (new.handled => new.decision = "live")
    BY <1>3 DEF Row
  <1>. HIDE DEF new
  <1>5. /\ rows \in Seq(Row) /\ Len(rows) \in Nat /\ DOMAIN rows = 1..Len(rows)
        /\ rows' = Append(rows, new)
    BY <1>1, <1>2, LenProperties DEF TypeOK, new
  <1>6. /\ DOMAIN rows' = 1..(Len(rows) + 1)
        /\ \A i \in 1..Len(rows) : rows'[i] = rows[i]
        /\ rows'[Len(rows) + 1] = new
    BY <1>4, <1>5, AppendProperties, LenProperties
  <1>7. /\ OthersKept(t) /\ todo' = todo /\ pc'[t] # "idle"
        /\ deliveries' = deliveries /\ processed' = processed
        /\ replied' = replied /\ told' = told /\ stranded' = stranded /\ casualty' = casualty
    BY <1>1 DEF Persist, Goto, OthersKept, history, TypeOK
  <1>8. Touches(t)
    <2>1. \A i \in DOMAIN rows' \ DOMAIN rows : i = Len(rows) + 1
      BY <1>5, <1>6
    <2>. QED
      BY <1>3, <1>4, <1>5, <1>6, <1>7, <2>1 DEF Touches, Reached
  <1>9. Stored(Current(t))'
    <2>1. Len(rows) + 1 \in DOMAIN rows' /\ rows'[Len(rows) + 1].event = Current(t)
      BY <1>4, <1>5, <1>6
    <2>2. PICK e : e = Current(t)
      OBVIOUS
    <2>3. Stored(e)'
      BY <2>1, <2>2 DEF Stored
    <2>4. Current(t)' = Current(t)
      BY <1>7 DEF Current
    <2>. QED
      BY <2>2, <2>3, <2>4 DEF Stored
  <1>10. Remembers(t) /\ Accounts(t)
    <2>1. Remembers(t)
      <3>1. EventsOf(todo'[t]) = EventsOf(todo[t])
        BY <1>7
      <3>. QED
        BY <3>1 DEF Remembers
    <2>2. Current(t)' = Current(t)
      BY <1>7 DEF Current
    <2>3. ASSUME NEW e \in processed, InRun(t, e)
          PROVE  Stored(e)'
      BY <1>9, <2>2, <2>3 DEF InRun, Stored
    <2>. QED
      BY <1>7, <2>1, <2>3 DEF Accounts
  <1>. QED
    BY <1>8, <1>10

\* A step inside the run, that leaves the rows.
LEMMA InRunTouches ==
    ASSUME TypeOK, RunShape, NEW t \in Task, pc[t] \in HasRow, pc'[t] \in HasRow,
           OthersKept(t), todo' = todo, rows' = rows, processed' = processed,
           deliveries' = deliveries, stranded' = stranded, casualty' = casualty,
           Reached \subseteq Reached', Reached' \subseteq Reached \cup {run[t].row}
    PROVE  Touches(t) /\ Remembers(t) /\ Accounts(t)
  <1>1. /\ EventsOf(todo'[t]) = EventsOf(todo[t])
        /\ pc'[t] # "idle" /\ pc'[t] \in Working
        /\ Current(t)' = Current(t)
    BY DEF Current, HasRow, Working
  <1>2. Current(t) \in EventsOf(todo[t])
    BY CurrentIsHeld DEF HasRow
  <1>3. run[t].row \in DOMAIN rows /\ rows[run[t].row].event = Current(t)
    BY DEF RunShape
  <1>4. Touches(t)
    BY <1>1, <1>2, <1>3 DEF Touches
  <1>5. Remembers(t) /\ Accounts(t)
    BY <1>1 DEF Remembers, Accounts, InRun
  <1>. QED
    BY <1>4, <1>5

LEMMA PushAndReplyTouch ==
    ASSUME IInv, NEW t \in Task,
           \/ PushSucceeds(t) \/ PushFails(t)
           \/ ReplySucceeds(t) \/ ReplyFails(t) \/ ReplyImpossible(t)
    PROVE  Touches(t) /\ Remembers(t) /\ Accounts(t)
  <1>1. TypeOK /\ RunShape
    BY DEF IInv
  <1>2. pc[t] \in HasRow /\ pc'[t] \in HasRow
    BY <1>1 DEF PushSucceeds, PushFails, ReplySucceeds, ReplyFails, ReplyImpossible,
       AfterPush, Goto, HasRow, TypeOK
  <1>3. /\ OthersKept(t) /\ todo' = todo /\ rows' = rows /\ processed' = processed
        /\ deliveries' = deliveries /\ stranded' = stranded /\ casualty' = casualty
    BY <1>1 DEF PushSucceeds, PushFails, ReplySucceeds, ReplyFails, ReplyImpossible,
       Goto, OthersKept, history, TypeOK
  <1>4. Reached \subseteq Reached' /\ Reached' \subseteq Reached \cup {run[t].row}
    BY DEF PushSucceeds, PushFails, ReplySucceeds, ReplyFails, ReplyImpossible,
       history, Reached
  <1>. QED
    BY <1>1, <1>2, <1>3, <1>4, InRunTouches

\* The correction only ever takes the flag of the run's own row away.
LEMMA CorrectTouches ==
    ASSUME TypeOK, NEW t \in Task, run[t].row \in DOMAIN rows,
           NEW reached \in BOOLEAN, Correct(t, reached)
    PROVE  /\ DOMAIN rows' = DOMAIN rows
           /\ \A i \in DOMAIN rows :
                 /\ rows'[i].event = rows[i].event
                 /\ rows'[i].decision = rows[i].decision
                 /\ rows'[i].handled # rows[i].handled
                      => i = run[t].row /\ ~rows'[i].handled
           /\ stranded \subseteq stranded' /\ stranded' \subseteq stranded \cup {run[t].row}
           /\ Faults = {} => stranded' = stranded
  <1>. DEFINE r == run[t].row
  <1>1. DOMAIN rows = 1..Len(rows) /\ \A i \in DOMAIN rows : rows[i] \in Row
    BY LenProperties, ElementOfSeq DEF TypeOK
  <1>2. CASE rows' = rows
    BY <1>2 DEF Correct
  <1>3. CASE rows' = [rows EXCEPT ![r].handled = FALSE] /\ stranded' = stranded
    <2>1. rows' = [rows EXCEPT ![r] = [rows[r] EXCEPT !.handled = FALSE]]
      BY <1>3
    <2>2. rows'[r] = [rows[r] EXCEPT !.handled = FALSE]
      BY <1>1, <2>1
    <2>3. /\ rows'[r].event = rows[r].event /\ rows'[r].decision = rows[r].decision
          /\ ~rows'[r].handled
      BY <1>1, <2>2 DEF Row
    <2>4. \A i \in DOMAIN rows : i # r => rows'[i] = rows[i]
      BY <1>1, <2>1
    <2>5. DOMAIN rows' = DOMAIN rows
      BY <1>1, <2>1
    <2>. QED
      BY <1>3, <2>3, <2>4, <2>5
  <1>. QED
    BY <1>2, <1>3 DEF Correct

LEMMA SettleTouches ==
    ASSUME IInv, NEW t \in Task, Settle(t)
    PROVE  Touches(t) /\ Remembers(t) /\ Accounts(t)
  <1>1. TypeOK /\ RunShape /\ pc[t] = "settle" /\ NextEvent(t)
    BY DEF IInv, Settle
  <1>2. run[t].row \in DOMAIN rows /\ rows[run[t].row].event = Current(t)
    BY <1>1 DEF RunShape, HasRow
  <1>3. (run[t].text # "none" \/ run[t].pushed) \in BOOLEAN
    OBVIOUS
  <1>4. /\ DOMAIN rows' = DOMAIN rows
        /\ \A i \in DOMAIN rows :
              /\ rows'[i].event = rows[i].event
              /\ rows'[i].decision = rows[i].decision
              /\ rows'[i].handled # rows[i].handled
                   => i = run[t].row /\ ~rows'[i].handled
        /\ stranded \subseteq stranded' /\ stranded' \subseteq stranded \cup {run[t].row}
        /\ Faults = {} => stranded' = stranded
    BY <1>1, <1>2, <1>3, CorrectTouches DEF Settle
  <1>5. /\ OthersKept(t)
        /\ EventsOf(todo'[t]) \subseteq EventsOf(todo[t])
        /\ \A e \in EventsOf(todo[t]) : e = Current(t) \/ e \in EventsOf(todo'[t])
        /\ pc'[t] = "idle" => todo'[t] = <<>>
    BY <1>1, NextEventTouches
  <1>6. /\ deliveries' = deliveries /\ processed' = processed
        /\ replied' = replied /\ told' = told /\ casualty' = casualty
    BY DEF Settle
  <1>7. Current(t) \in EventsOf(todo[t])
    BY <1>1, CurrentIsHeld
  <1>8. Touches(t)
    BY <1>2, <1>4, <1>5, <1>6, <1>7 DEF Touches, Reached
  <1>9. ASSUME NEW e, e = Current(t)
        PROVE  Stored(e)'
    BY <1>2, <1>4, <1>9 DEF Stored
  <1>10. Remembers(t)
    BY <1>5, <1>9 DEF Remembers
  <1>11. Accounts(t)
    BY <1>6, <1>9 DEF Accounts, InRun
  <1>. QED
    BY <1>8, <1>10, <1>11

LEMMA SettleUnsentTouches ==
    ASSUME IInv, NEW t \in Task, SettleUnsent(t)
    PROVE  Touches(t) /\ Remembers(t) /\ Accounts(t)
  <1>1. TypeOK /\ RunShape /\ pc[t] = "unsent"
    BY DEF IInv, SettleUnsent
  <1>2. run[t].row \in DOMAIN rows /\ rows[run[t].row].event = Current(t)
    BY <1>1 DEF RunShape, HasRow
  <1>3. run[t].pushed \in BOOLEAN
    BY <1>1 DEF TypeOK, Run
  <1>4. /\ DOMAIN rows' = DOMAIN rows
        /\ \A i \in DOMAIN rows :
              /\ rows'[i].event = rows[i].event
              /\ rows'[i].decision = rows[i].decision
              /\ rows'[i].handled # rows[i].handled
                   => i = run[t].row /\ ~rows'[i].handled
        /\ stranded \subseteq stranded' /\ stranded' \subseteq stranded \cup {run[t].row}
        /\ Faults = {} => stranded' = stranded
    BY <1>1, <1>2, <1>3, CorrectTouches DEF SettleUnsent
  <1>5. /\ OthersKept(t) /\ todo' = todo /\ pc'[t] = "rollback"
        /\ deliveries' = deliveries /\ processed' = processed
        /\ replied' = replied /\ told' = told /\ casualty' = casualty
    BY <1>1 DEF SettleUnsent, Goto, OthersKept, TypeOK
  <1>6. EventsOf(todo'[t]) = EventsOf(todo[t]) /\ Current(t)' = Current(t)
    BY <1>5 DEF Current
  <1>7. Current(t) \in EventsOf(todo[t])
    BY <1>1, CurrentIsHeld
  <1>8. Touches(t)
    BY <1>2, <1>4, <1>5, <1>6, <1>7 DEF Touches, Reached
  <1>9. Remembers(t)
    BY <1>6 DEF Remembers
  <1>10. Accounts(t)
    BY <1>5, <1>6 DEF Accounts, InRun, Working
  <1>. QED
    BY <1>8, <1>9, <1>10

\* The row of the run stays when its dedupe row goes.
LEMMA RollbackTouches ==
    ASSUME IInv, NEW t \in Task, Rollback(t)
    PROVE  Touches(t) /\ Remembers(t) /\ Accounts(t)
  <1>1. TypeOK /\ RunShape /\ pc[t] = "rollback" /\ NextEvent(t)
    BY DEF IInv, Rollback
  <1>2. run[t].row \in DOMAIN rows /\ rows[run[t].row].event = Current(t)
    BY <1>1 DEF RunShape, HasRow
  <1>3. /\ OthersKept(t)
        /\ EventsOf(todo'[t]) \subseteq EventsOf(todo[t])
        /\ \A e \in EventsOf(todo[t]) : e = Current(t) \/ e \in EventsOf(todo'[t])
        /\ pc'[t] = "idle" => todo'[t] = <<>>
    BY <1>1, NextEventTouches
  <1>4. /\ rows' = rows /\ deliveries' = deliveries /\ processed' \subseteq processed
        /\ replied' = replied /\ told' = told /\ stranded' = stranded /\ casualty' = casualty
    BY DEF Rollback, history
  <1>5. Touches(t)
    BY <1>1, <1>3, <1>4, QuietTouches
  <1>6. ASSUME NEW e, e = Current(t)
        PROVE  Stored(e)'
    BY <1>2, <1>4, <1>6 DEF Stored
  <1>7. Remembers(t)
    BY <1>3, <1>6 DEF Remembers
  <1>8. Accounts(t)
    BY <1>4, <1>6 DEF Accounts, InRun
  <1>. QED
    BY <1>5, <1>7, <1>8

\* Every step of a thread is of this shape.
LEMMA StepTouches ==
    ASSUME IInv, NEW t \in Task, Step(t)
    PROVE  Touches(t) /\ Remembers(t) /\ Accounts(t)
  <1>1. CASE HandlerRaises(t)
    BY <1>1, PipelineFailsTouches DEF HandlerRaises
  <1>2. CASE OwnerLookupRaises(t)
    BY <1>2, PipelineFailsTouches DEF OwnerLookupRaises
  <1>3. CASE RollbackRaises(t)
    BY <1>3, PipelineFailsTouches DEF RollbackRaises
  <1>. QED
    BY <1>1, <1>2, <1>3, ClaimTouches, SkipDuplicateTouches, DedupeRaisesTouches,
       PersistTouches, PushAndReplyTouch, SettleTouches, SettleUnsentTouches,
       RollbackTouches DEF Step

-----------------------------------------------------------------------------
(* The POST, and the crash.                                                *)

LEMMA ReceiveTraced ==
    ASSUME IInv, Traced, NEW t \in Task, Receive(t)
    PROVE  Traced'
  <1>1. TypeOK /\ RunShape /\ pc[t] = "idle"
    BY DEF IInv, Receive
  <1>2. PICK batch \in Batch :
          /\ deliveries' = [e \in Event |->
               IF e \in EventsOf(batch) THEN deliveries[e] + 1 ELSE deliveries[e]]
          /\ todo' = [todo EXCEPT ![t] = batch]
    BY DEF Receive
  <1>3. /\ pc' = [pc EXCEPT ![t] = "dedupe"]
        /\ rows' = rows /\ processed' = processed /\ stranded' = stranded
        /\ casualty' = casualty
    BY DEF Receive, Goto, history
  <1>4. /\ todo[t] = <<>> /\ todo'[t] = batch /\ pc'[t] = "dedupe"
        /\ \A u \in Task : u # t => todo'[u] = todo[u] /\ pc'[u] = pc[u]
    BY <1>1, <1>2, <1>3 DEF Traced, TodoShape, TypeOK
  <1>5. \A e \in Event : Held(e)' <=> Held(e) \/ e \in EventsOf(batch)
    BY <1>4, EventsOfNothing DEF Held
  <1>6. \A e \in Event : /\ deliveries[e] \in Nat
                         /\ deliveries'[e] = IF e \in EventsOf(batch) THEN deliveries[e] + 1
                                             ELSE deliveries[e]
    BY <1>1, <1>2 DEF TypeOK
  <1>7. TodoShape'
    <2>1. \A u \in Task : pc'[u] = "idle" => todo'[u] = <<>>
      BY <1>4 DEF Traced, TodoShape
    <2>2. \A e \in Event : Held(e)' => deliveries'[e] # 0
      BY <1>5, <1>6 DEF Traced, TodoShape
    <2>. QED
      BY <2>1, <2>2 DEF TodoShape
  <1>8. ProcessedLeftTrace'
    <2>1. \A u \in Task, e \in processed : InRun(u, e) => InRun(u, e)'
      BY <1>1, <1>4 DEF InRun, Current, Working
    <2>. QED
      BY <1>3, <2>1 DEF Traced, ProcessedLeftTrace, Stored
  <1>9. StoredOrCasualty'
    <2>. SUFFICES ASSUME NEW e \in Event, deliveries'[e] # 0, ~Held(e)'
                  PROVE  Stored(e)' \/ e \in casualty'
      BY DEF StoredOrCasualty, Held, Stored
    <2>1. deliveries[e] # 0 /\ ~Held(e)
      BY <1>5, <1>6
    <2>2. Stored(e) \/ e \in casualty
      BY <2>1 DEF Traced, StoredOrCasualty, Held, Stored
    <2>. QED
      BY <1>3, <2>2 DEF Stored
  <1>10. OnlyLiveHandled' /\ FaultsBehind'
    BY <1>3 DEF Traced, OnlyLiveHandled, FaultsBehind
  <1>. QED
    BY <1>7, <1>8, <1>9, <1>10 DEF Traced

LEMMA CrashTraced ==
    ASSUME IInv, Traced, Crash
    PROVE  Traced'
  <1>1. TypeOK /\ RunShape
    BY DEF IInv
  <1>2. /\ pc' = [t \in Task |-> "idle"] /\ todo' = [t \in Task |-> <<>>]
        /\ rows' = rows /\ processed' = processed /\ deliveries' = deliveries
        /\ casualty' = casualty \cup UNION {EventsOf(todo[t]) : t \in Task}
        /\ Faults # {}
    BY DEF Crash
  <1>3. \A e \in Event : ~Held(e)' /\ (Held(e) => e \in casualty')
    BY <1>2, EventsOfNothing DEF Held
  <1>4. TodoShape'
    BY <1>2, <1>3 DEF TodoShape
  <1>5. ProcessedLeftTrace'
    <2>1. ASSUME NEW t \in Task, NEW e \in processed, InRun(t, e)
          PROVE  e \in casualty'
      <3>1. e \in EventsOf(todo[t])
        BY <1>1, <2>1, CurrentIsHeld DEF InRun, Working
      <3>. QED
        BY <1>2, <3>1
    <2>. QED
      BY <1>2, <2>1 DEF Traced, ProcessedLeftTrace, Stored
  <1>6. StoredOrCasualty'
    BY <1>2, <1>3 DEF Traced, StoredOrCasualty, Held, Stored
  <1>7. OnlyLiveHandled' /\ FaultsBehind'
    BY <1>2 DEF Traced, OnlyLiveHandled, FaultsBehind
  <1>. QED
    BY <1>4, <1>5, <1>6, <1>7 DEF Traced

-----------------------------------------------------------------------------
(* Nothing is lost.                                                        *)

LEMMA InitTraced == Init => Traced
  <1>. SUFFICES ASSUME Init
                PROVE  Traced
    OBVIOUS
  <1>1. TodoShape
    BY EventsOfNothing DEF Init, TodoShape, Held
  <1>2. ProcessedLeftTrace /\ StoredOrCasualty /\ OnlyLiveHandled /\ FaultsBehind
    BY EmptySeq DEF Init, ProcessedLeftTrace, StoredOrCasualty, OnlyLiveHandled, FaultsBehind
  <1>. QED
    BY <1>1, <1>2 DEF Traced

LEMMA NextTraced ==
    ASSUME IInv, Traced, [Next]_vars
    PROVE  Traced'
  <1>1. CASE UNCHANGED vars
    BY <1>1 DEF vars, history, Traced, TodoShape, Held, ProcessedLeftTrace, Stored, InRun,
       Current, StoredOrCasualty, OnlyLiveHandled, FaultsBehind
  <1>2. ASSUME NEW t \in Task, Step(t)
        PROVE  Traced'
    BY <1>2, StepTouches, TracedStep
  <1>. QED
    BY <1>1, <1>2, ReceiveTraced, CrashTraced DEF Next

\* The pipeline's invariant holds always, and so does what is known of the trace
\* that each delivery leaves behind.
THEOREM TracedInvariance == Spec => [](IInv /\ Traced)
  <1>1. Init => IInv /\ Traced
    BY InitIInv, InitTraced
  <1>2. IInv /\ Traced /\ [Next]_vars => (IInv /\ Traced)'
    BY NextIInv, NextTraced
  <1>. QED
    BY <1>1, <1>2, PTL DEF Spec

\* Skipping duplicates, rolling back and the batches lose no delivered event:
\* one that no task holds is stored, or a fault cut its delivery short.
THEOREM NothingLost == Spec => []StoredOrCasualty
  <1>1. Traced => StoredOrCasualty
    BY DEF Traced
  <1>. QED
    BY TracedInvariance, <1>1, PTL

-----------------------------------------------------------------------------
(* The pipeline implements MessagePromise.                                 *)

Told(e) == \E i \in Reached : rows[i].event = e

LEMMA FateCases ==
    ASSUME NEW e
    PROVE  FateOf(e) = IF Told(e) THEN "told"
                       ELSE IF Held(e) THEN "working"
                       ELSE IF \E i \in DOMAIN rows : rows[i].event = e /\ ~rows[i].handled
                            THEN "pending"
                       ELSE IF e \in casualty \/ \E i \in stranded : rows[i].event = e
                            THEN "cut"
                       ELSE "unseen"
  BY DEF FateOf, Told, Held

\* A delivered event at rest, of which nobody was told, is on the backlog or
\* was cut short by a fault.
RestIsBacklog ==
    \A e \in Event : deliveries[e] # 0 /\ ~Held(e) /\ ~Told(e)
        => FateOf(e) = "pending" \/ (FateOf(e) = "cut" /\ Faults # {})

LEMMA FateAtRest == IInv /\ Traced => RestIsBacklog
  <1>. SUFFICES ASSUME IInv, Traced, NEW e \in Event, deliveries[e] # 0, ~Held(e), ~Told(e)
                PROVE  FateOf(e) = "pending" \/ (FateOf(e) = "cut" /\ Faults # {})
    BY DEF RestIsBacklog
  <1>1. TypeOK /\ RunShape /\ HandledIffReached
    BY DEF IInv
  <1>2. CASE Stored(e)
    <2>1. PICK i \in DOMAIN rows : rows[i].event = e
      BY <1>2 DEF Stored
    <2>2. AtRest(i)
      <3>. SUFFICES ASSUME NEW t \in Task, run[t].row = i
                    PROVE  FALSE
        BY DEF AtRest
      <3>1. i # 0
        BY <1>1, LenProperties DEF TypeOK
      <3>2. pc[t] \in HasRow /\ e = Current(t)
        BY <1>1, <2>1, <3>1 DEF RunShape
      <3>3. e \in EventsOf(todo[t])
        BY <1>1, <3>2, CurrentIsHeld DEF HasRow
      <3>. QED
        BY <3>3 DEF Held
    <2>3. i \notin Reached
      BY <2>1 DEF Told
    <2>4. rows[i].handled => rows[i].decision = "live"
      BY DEF Traced, OnlyLiveHandled
    <2>5. rows[i].handled => i \in stranded /\ Faults # {}
      BY <1>1, <2>2, <2>3, <2>4 DEF HandledIffReached, Traced, FaultsBehind
    <2>. QED
      BY <2>1, <2>5, FateCases
  <1>3. CASE ~Stored(e)
    <2>1. e \in casualty
      BY <1>3 DEF Traced, StoredOrCasualty, Stored, Held
    <2>2. Faults # {}
      BY <2>1 DEF Traced, FaultsBehind
    <2>. QED
      BY <2>1, <2>2, FateCases
  <1>. QED
    BY <1>2, <1>3

\* What every step keeps: the rows' events, and who was reached.
LEMMA ToldStaysTold ==
    ASSUME IInv, [Next]_vars
    PROVE  /\ DOMAIN rows \subseteq DOMAIN rows'
           /\ \A i \in DOMAIN rows : rows'[i].event = rows[i].event
           /\ \A e \in Event : Told(e) => Told(e)'
           /\ \A e \in Event : deliveries[e] # 0 => deliveries'[e] # 0
  <1>1. TypeOK
    BY DEF IInv
  <1>2. CASE \E t \in Task : Step(t)
    BY <1>1, <1>2, StepTouches DEF Touches, Told, Reached, TypeOK
  <1>3. CASE \E t \in Task : Receive(t)
    <2>1. rows' = rows /\ Reached' = Reached
      BY <1>3 DEF Receive, history, Reached
    <2>2. \A e \in Event : deliveries[e] \in Nat /\ deliveries'[e] \in {deliveries[e], deliveries[e] + 1}
      BY <1>1, <1>3 DEF Receive, TypeOK
    <2>. QED
      BY <2>1, <2>2 DEF Told
  <1>4. CASE Crash \/ UNCHANGED vars
    BY <1>4 DEF Crash, vars, history, Told, Reached
  <1>. QED
    BY <1>2, <1>3, <1>4 DEF Next

\* Nothing happens to an event at rest but that LINE delivers it again.
LEMMA RestStaysRest ==
    ASSUME IInv, Traced, [Next]_vars, NEW e \in Event, ~Held(e), ~Told(e)
    PROVE  FateOf(e)' = FateOf(e) \/ FateOf(e)' = "working"
  <1>1. TypeOK /\ RunShape
    BY DEF IInv
  <1>2. ASSUME NEW t \in Task, Step(t)
        PROVE  FateOf(e)' = FateOf(e)
    <2>1. Touches(t)
      BY <1>2, StepTouches
    <2>2. e \notin EventsOf(todo[t])
      BY DEF Held
    <2>3. ~Held(e)'
      <3>1. \A u \in Task : u # t => todo'[u] = todo[u]
        BY <2>1 DEF Touches, OthersKept
      <3>. QED
        BY <2>1, <2>2, <3>1 DEF Touches, Held
    <2>4. ~Told(e)'
      <3>. SUFFICES ASSUME NEW i \in Reached', rows'[i].event = e
                    PROVE  FALSE
        BY DEF Told
      <3>1. i \in DOMAIN rows
        BY <1>1, <2>1 DEF Touches, Reached, TypeOK
      <3>2. rows[i].event = e
        BY <2>1, <3>1 DEF Touches
      <3>3. i \notin Reached
        BY <3>2 DEF Told
      <3>. QED
        BY <2>1, <2>2, <3>2, <3>3 DEF Touches
    <2>5. (\E i \in DOMAIN rows' : rows'[i].event = e /\ ~rows'[i].handled)
            <=> \E i \in DOMAIN rows : rows[i].event = e /\ ~rows[i].handled
      BY <2>1, <2>2 DEF Touches
    <2>6. e \in casualty' <=> e \in casualty
      BY <2>1, <2>2 DEF Touches
    <2>7. (\E i \in stranded' : rows'[i].event = e) <=> \E i \in stranded : rows[i].event = e
      <3>1. stranded \subseteq DOMAIN rows
        BY <1>1 DEF TypeOK
      <3>. QED
        BY <2>1, <2>2, <3>1 DEF Touches
    <2>. QED
      BY <2>3, <2>4, <2>5, <2>6, <2>7 DEF FateOf, Told, Held
  <1>3. ASSUME NEW t \in Task, Receive(t)
        PROVE  FateOf(e)' = FateOf(e) \/ FateOf(e)' = "working"
    <2>1. /\ rows' = rows /\ Reached' = Reached /\ stranded' = stranded
          /\ casualty' = casualty
      BY <1>3 DEF Receive, history, Reached
    <2>2. CASE Held(e)'
      BY <2>1, <2>2 DEF FateOf, Told, Held
    <2>3. CASE ~Held(e)'
      BY <2>1, <2>3 DEF FateOf, Told, Held
    <2>. QED
      BY <2>2, <2>3
  <1>4. CASE Crash
    <2>1. /\ rows' = rows /\ Reached' = Reached
          /\ todo' = [t \in Task |-> <<>>]
          /\ casualty' = casualty \cup UNION {EventsOf(todo[t]) : t \in Task}
          /\ stranded' = stranded \cup ({run[t].row : t \in Task} \ {0})
      BY <1>4 DEF Crash, Reached
    <2>2. ~Held(e)' /\ (e \in casualty' <=> e \in casualty)
      BY <2>1, EventsOfNothing DEF Held
    <2>3. ASSUME NEW t \in Task, run[t].row # 0
          PROVE  rows[run[t].row].event # e
      <3>1. pc[t] \in HasRow /\ rows[run[t].row].event = Current(t)
        BY <1>1, <2>3 DEF RunShape
      <3>2. Current(t) \in EventsOf(todo[t])
        BY <1>1, <3>1, CurrentIsHeld DEF HasRow
      <3>. QED
        BY <3>1, <3>2 DEF Held
    <2>4. (\E i \in stranded' : rows'[i].event = e) <=> \E i \in stranded : rows[i].event = e
      BY <2>1, <2>3
    <2>. QED
      BY <2>1, <2>2, <2>4 DEF FateOf, Told, Held
  <1>5. CASE UNCHANGED vars
    BY <1>5 DEF vars, history, FateOf, Reached
  <1>. QED
    BY <1>2, <1>3, <1>4, <1>5 DEF Next

\* Every step moves the fate of every event as MessagePromise allows.
LEMMA FateMoves ==
    ASSUME IInv, Traced, [Next]_vars, NEW e \in Event
    PROVE  \/ FateOf(e) \in {"unseen", "pending", "cut"} /\ FateOf(e)' = "working"
           \/ FateOf(e) = "working" /\ FateOf(e)' \in {"told", "pending"}
           \/ Faults # {} /\ FateOf(e) = "working" /\ FateOf(e)' = "cut"
           \/ FateOf(e)' = FateOf(e)
  <1>1. RestIsBacklog'
    <2>1. IInv' /\ Traced'
      BY NextIInv, NextTraced
    <2>. QED
      BY <2>1, FateAtRest, PTL
  <1>2. CASE Told(e)
    <2>1. Told(e)'
      BY <1>2, ToldStaysTold
    <2>. QED
      BY <1>2, <2>1 DEF FateOf, Told
  <1>3. CASE ~Told(e) /\ Held(e)
    <2>1. FateOf(e) = "working"
      BY <1>3, FateCases
    <2>2. deliveries'[e] # 0
      BY <1>3, ToldStaysTold DEF Traced, TodoShape
    <2>3. CASE Told(e)'
      BY <2>1, <2>3 DEF FateOf, Told
    <2>4. CASE ~Told(e)' /\ Held(e)'
      BY <2>1, <2>4 DEF FateOf, Told, Held
    <2>5. CASE ~Told(e)' /\ ~Held(e)'
      <3>1. FateOf(e)' = "pending" \/ (FateOf(e)' = "cut" /\ Faults # {})
        BY <1>1, <2>2, <2>5 DEF RestIsBacklog
      <3>. QED
        BY <2>1, <3>1
    <2>. QED
      BY <2>3, <2>4, <2>5
  <1>4. CASE ~Told(e) /\ ~Held(e)
    <2>1. FateOf(e) \in {"unseen", "pending", "cut"}
      BY <1>4, FateCases
    <2>. QED
      BY <1>4, <2>1, RestStaysRest
  <1>. QED
    BY <1>2, <1>3, <1>4

\* Webhook implements MessagePromise: a message that reached somebody stays
\* told, work on one ends told or pending, and only a fault cuts one short.
THEOREM PipelineKeepsPromise == Spec => KeepsPromise
  <1>. DEFINE fates == [e \in Event |-> FateOf(e)]
  <1>1. Init => Promise!Init
    <2>. SUFFICES ASSUME Init
                  PROVE  Promise!Init
      OBVIOUS
    <2>1. \A e \in Event : FateOf(e) = "unseen"
      BY EventsOfNothing DEF Init, FateOf, Reached
    <2>. QED
      BY <2>1 DEF Promise!Init
  <1>2. IInv /\ Traced /\ [Next]_vars => [Promise!Next]_fates
    <2>. SUFFICES ASSUME IInv, Traced, [Next]_vars
                  PROVE  Promise!Next
      OBVIOUS
    <2>1. fates' \in [Event -> Promise!Fate]
      BY DEF FateOf, Promise!Fate
    <2>2. ASSUME NEW e \in Event
          PROVE  Promise!Take(e) \/ Promise!Finish(e) \/ Promise!Cut(e) \/ Promise!Keep(e)
      <3>1. fates[e] = FateOf(e) /\ fates'[e] = FateOf(e)'
        OBVIOUS
      <3>. QED
        BY <3>1, FateMoves DEF Promise!Take, Promise!Finish, Promise!Cut, Promise!Keep
    <2>. QED
      BY <2>1, <2>2 DEF Promise!Next
  <1>. QED
    BY <1>1, <1>2, TracedInvariance, PTL DEF Spec, KeepsPromise, Promise!Spec
=============================================================================
