---------------------------- MODULE StateProofs ----------------------------
(* Theorems about the memory of a conversation, for any messages, threads, *)
(* timeouts and crashes, with any number of rows.                          *)
EXTENDS ConversationState, SequenceTheorems, TLAPS

-----------------------------------------------------------------------------
(* The inductive invariant.                                                *)

IsList(s) == Len(s) \in Nat /\ s = [i \in 1..Len(s) |-> s[i]]

RowOK(r) ==
    /\ r = [status |-> r.status, slots |-> r.slots, off |-> r.off, current |-> r.current]
    /\ r.status \in {"in_progress", "completed", "expired"}
    /\ DOMAIN r.slots \subseteq Columns
    /\ r.off \in BOOLEAN
    /\ r.current \in BOOLEAN

RecordOK(e) == e = [msg |-> e.msg, slots |-> e.slots, due |-> e.due] /\ e.due \in BOOLEAN

\* Every row is well formed and has its list of what was recorded in it.
RowsOK ==
    /\ IsList(rows)
    /\ IsList(stated)
    /\ Len(stated) = Len(rows)
    /\ \A i \in DOMAIN rows :
          /\ RowOK(rows[i]) /\ IsList(stated[i])
          /\ \A n \in DOMAIN stated[i] : RecordOK(stated[i][n])

\* idx_conv_states_one_active.
OneOpen == \A i, j \in DOMAIN rows : Open(i) /\ Open(j) => i = j

HandOK(h) ==
    /\ h = [row |-> h.row, slots |-> h.slots, off |-> h.off]
    /\ h.row \in 0..Len(rows)
    /\ DOMAIN h.slots \subseteq Columns
    /\ h.off \in BOOLEAN

ThreadOK(t) ==
    /\ HandOK(hand[t])
    /\ at[t] # "idle" => msg[t] \in Message
    /\ at[t] \in {"complete", "clear"} => hand[t].row # 0
    /\ at[t] = "clear" => hand[t].off

\* What t has in hand, row 0 for none, is what the table has.
HandAgrees(t) ==
    IF hand[t].row = 0 THEN \A i \in DOMAIN rows : ~Open(i)
    ELSE /\ Open(hand[t].row)
         /\ hand[t].slots = rows[hand[t].row].slots
         /\ hand[t].off = rows[hand[t].row].off

\* No nudge about row i is due.
NothingDue(i) == \A n \in DOMAIN stated[i] : ~stated[i][n].due

\* A thread that nobody got in the way of: before it reads, every open row is
\* current, for Begin expired the others; from there until it writes, its hand
\* is the table, and so it is after the write when there is a row in it.  When
\* its nudge is out, nothing of the row is due any more.
Undisturbed(t) ==
    /\ at[t] = "read" => \A i \in DOMAIN rows : Open(i) => rows[i].current
    /\ at[t] = "write" => HandAgrees(t)
    /\ at[t] \in {"reply", "complete", "clear"} /\ hand[t].row # 0 => HandAgrees(t)
    /\ at[t] = "clear" => NothingDue(hand[t].row)
    /\ at[t] # "lost"

Labels == {"idle", "read", "write", "reply", "lost", "complete", "clear"}

ThreadsOK ==
    /\ at \in [Thread -> Labels]
    /\ raced \in [Thread -> BOOLEAN]
    /\ DOMAIN msg = Thread /\ msg = [t \in Thread |-> msg[t]]
    /\ DOMAIN hand = Thread /\ hand = [t \in Thread |-> hand[t]]
    /\ \A t \in Thread : ThreadOK(t) /\ (~raced[t] => Undisturbed(t))

DataInv == RowsOK /\ OneOpen /\ RowIsItsMessages /\ DueNudgeIsFlagged

IInv == DataInv /\ ThreadsOK

-----------------------------------------------------------------------------
(* Lists.                                                                  *)

\* A function on 1..n is a list of length n.
LEMMA FunctionIsList ==
    ASSUME NEW n \in Nat, NEW s, s = [i \in 1..n |-> s[i]]
    PROVE  IsList(s) /\ Len(s) = n /\ DOMAIN s = 1..n
  <1>. DEFINE S == {s[i] : i \in 1..n}
  <1>1. s \in [1..n -> S]
    OBVIOUS
  <1>2. s \in Seq(S)
    BY <1>1, SeqDef
  <1>3. Len(s) \in Nat /\ DOMAIN s = 1..Len(s)
    BY <1>2, LenProperties
  <1>4. DOMAIN s = 1..n
    OBVIOUS
  <1>5. Len(s) = n
    BY <1>3, <1>4
  <1>. QED
    BY <1>4, <1>5 DEF IsList

\* Append lengthens a list by the new element and keeps the others.
LEMMA ListAppend ==
    ASSUME NEW s, IsList(s), NEW e
    PROVE  /\ IsList(Append(s, e))
           /\ Len(Append(s, e)) = Len(s) + 1
           /\ DOMAIN s = 1..Len(s)
           /\ DOMAIN Append(s, e) = 1..(Len(s) + 1)
           /\ \A i \in 1..Len(s) : Append(s, e)[i] = s[i]
           /\ Append(s, e)[Len(s) + 1] = e
  <1>. DEFINE S == {s[i] : i \in 1..Len(s)} \cup {e}
              n == Len(s)
  <1>1. n \in Nat /\ s = [i \in 1..n |-> s[i]]
    BY DEF IsList
  <1>2. s \in [1..n -> S]
    BY <1>1
  <1>3. s \in Seq(S) /\ e \in S
    BY <1>1, <1>2, SeqDef
  <1>. HIDE DEF S
  <1>4. /\ Append(s, e) \in Seq(S)
        /\ Len(Append(s, e)) = n + 1
        /\ \A i \in 1..n : Append(s, e)[i] = s[i]
        /\ Append(s, e)[n + 1] = e
    BY <1>3, AppendProperties
  <1>5. DOMAIN Append(s, e) = 1..(n + 1)
    BY <1>4, LenProperties
  <1>6. Append(s, e) \in [1..(n + 1) -> S]
    BY <1>1, <1>4, ElementOfSeq, LenProperties
  <1>7. IsList(Append(s, e))
    <2>1. n + 1 \in Nat
      BY <1>1
    <2>2. Append(s, e) = [i \in 1..(n + 1) |-> Append(s, e)[i]]
      BY <1>6
    <2>. QED
      BY <2>1, <2>2, FunctionIsList
  <1>8. DOMAIN s = 1..n
    BY <1>2
  <1>. QED
    BY <1>4, <1>5, <1>7, <1>8

\* The lists of the state have the domains their lengths say.
LEMMA RowsDomain ==
    ASSUME RowsOK
    PROVE  /\ Len(rows) \in Nat
           /\ DOMAIN rows = 1..Len(rows)
           /\ DOMAIN stated = 1..Len(rows)
           /\ \A i \in DOMAIN rows : /\ Len(stated[i]) \in Nat
                                     /\ DOMAIN stated[i] = 1..Len(stated[i])
  BY DEF RowsOK, IsList

-----------------------------------------------------------------------------
(* The ways a step changes the rows.                                       *)

\* Nothing is recorded, and no nudge becomes due.
SameRecords ==
    /\ IsList(stated') /\ Len(stated') = Len(stated)
    /\ \A i \in DOMAIN rows :
          /\ IsList(stated'[i]) /\ DOMAIN stated'[i] = DOMAIN stated[i]
          /\ \A n \in DOMAIN stated[i] :
                /\ RecordOK(stated'[i][n])
                /\ stated'[i][n].slots = stated[i][n].slots
                /\ stated'[i][n].due => stated[i][n].due

LEMMA RecordsLeft ==
    ASSUME RowsOK, stated' = stated
    PROVE  SameRecords
  BY DEF SameRecords, RowsOK

\* A nudge that was shown, or written off, is not due.
LEMMA RecordsShown ==
    ASSUME RowsOK, NEW r \in DOMAIN rows, stated' = NoneDue(r)
    PROVE  SameRecords /\ NothingDue(r)'
  <1>. DEFINE list == [n \in DOMAIN stated[r] |-> [stated[r][n] EXCEPT !.due = FALSE]]
              no == FALSE
  <1>1. /\ Len(rows) \in Nat /\ DOMAIN rows = 1..Len(rows)
        /\ DOMAIN stated = 1..Len(rows) /\ Len(stated) = Len(rows)
        /\ Len(stated[r]) \in Nat /\ DOMAIN stated[r] = 1..Len(stated[r])
    BY RowsDomain DEF RowsOK
  <1>2. stated' = [stated EXCEPT ![r] = list]
    BY DEF NoneDue
  <1>3. ASSUME NEW n \in DOMAIN stated[r]
        PROVE  /\ RecordOK(list[n])
               /\ list[n].slots = stated[r][n].slots
               /\ ~list[n].due
    <2>. DEFINE e == stated[r][n]
    <2>1. e = [msg |-> e.msg, slots |-> e.slots, due |-> e.due]
      BY DEF RowsOK, RecordOK
    <2>2. list[n] = [e EXCEPT !.due = no]
      OBVIOUS
    <2>. HIDE DEF no, list, e
    <2>3. [e EXCEPT !.due = no] = [msg |-> e.msg, slots |-> e.slots, due |-> no]
      BY <2>1
    <2>4. list[n].msg = e.msg /\ list[n].slots = e.slots /\ list[n].due = no
      BY <2>2, <2>3
    <2>5. list[n] = [msg |-> list[n].msg, slots |-> list[n].slots, due |-> list[n].due]
      BY <2>2, <2>3, <2>4, Zenon
    <2>6. no \in BOOLEAN /\ ~no
      BY DEF no
    <2>. QED
      BY <2>4, <2>5, <2>6 DEF RecordOK, e
  <1>4. list = [n \in 1..Len(stated[r]) |-> list[n]] /\ DOMAIN list = DOMAIN stated[r]
    BY <1>1
  <1>5. IsList(list)
    BY <1>1, <1>4, FunctionIsList
  <1>. HIDE DEF list
  <1>6. /\ stated' = [i \in 1..Len(rows) |-> stated'[i]]
        /\ stated'[r] = list
        /\ \A i \in 1..Len(rows) : i # r => stated'[i] = stated[i]
    BY <1>1, <1>2
  <1>7. IsList(stated') /\ Len(stated') = Len(rows)
    BY <1>1, <1>6, FunctionIsList
  <1>. QED
    BY <1>1, <1>3, <1>4, <1>5, <1>6, <1>7 DEF SameRecords, RowsOK, NothingDue

\* Rows get another status, flag or expiry, none is opened, and none loses a
\* flag that is due.
LEMMA Relabelled ==
    ASSUME DataInv, SameRecords,
           rows' = [i \in 1..Len(rows) |-> rows'[i]],
           \A i \in 1..Len(rows) : /\ RowOK(rows'[i])
                                   /\ rows'[i].slots = rows[i].slots
                                   /\ rows'[i].status = "in_progress" => Open(i)
                                   /\ (rows[i].off => rows'[i].off) \/ NothingDue(i)'
    PROVE  DataInv' /\ Len(rows') = Len(rows)
  <1>1. RowsOK /\ OneOpen /\ RowIsItsMessages /\ DueNudgeIsFlagged
    BY DEF DataInv
  <1>2. /\ Len(rows) \in Nat /\ DOMAIN rows = 1..Len(rows)
        /\ DOMAIN stated = 1..Len(rows) /\ Len(stated) = Len(rows)
    BY <1>1, RowsDomain DEF RowsOK
  <1>3. IsList(rows') /\ Len(rows') = Len(rows) /\ DOMAIN rows' = 1..Len(rows)
    BY <1>2, FunctionIsList
  <1>4. RowsOK'
    BY <1>1, <1>2, <1>3 DEF RowsOK, SameRecords
  <1>5. OneOpen'
    BY <1>1, <1>2, <1>3 DEF OneOpen, Open
  <1>6. RowIsItsMessages'
    <2>. SUFFICES ASSUME NEW i \in 1..Len(rows)
                  PROVE  /\ \A k \in DOMAIN rows'[i].slots :
                               \E n \in DOMAIN stated'[i] : LastWord(i, k, n)'
                         /\ \A n \in DOMAIN stated'[i] :
                               DOMAIN stated'[i][n].slots \subseteq DOMAIN rows'[i].slots
      BY <1>3 DEF RowIsItsMessages
    <2>1. /\ rows'[i].slots = rows[i].slots /\ DOMAIN stated'[i] = DOMAIN stated[i]
          /\ \A n \in DOMAIN stated[i] : stated'[i][n].slots = stated[i][n].slots
      BY <1>2 DEF SameRecords
    <2>2. ASSUME NEW k \in DOMAIN rows[i].slots
          PROVE  \E n \in DOMAIN stated[i] : LastWord(i, k, n)'
      <3>1. PICK n \in DOMAIN stated[i] : LastWord(i, k, n)
        BY <1>1, <1>2 DEF RowIsItsMessages
      <3>2. LastWord(i, k, n)'
        BY <2>1, <3>1 DEF LastWord
      <3>. QED
        BY <3>2
    <2>3. \A n \in DOMAIN stated[i] : DOMAIN stated[i][n].slots \subseteq DOMAIN rows[i].slots
      BY <1>1, <1>2 DEF RowIsItsMessages
    <2>. QED
      BY <2>1, <2>2, <2>3
  <1>7. DueNudgeIsFlagged'
    BY <1>1, <1>2, <1>3 DEF DueNudgeIsFlagged, SameRecords, NothingDue
  <1>. QED
    BY <1>3, <1>4, <1>5, <1>6, <1>7 DEF DataInv

\* Nothing is written to the rows.
LEMMA RowsLeft ==
    ASSUME DataInv, rows' = rows, SameRecords
    PROVE  DataInv'
  <1>1. rows = [i \in 1..Len(rows) |-> rows[i]] /\ \A i \in 1..Len(rows) : RowOK(rows[i])
    BY DEF DataInv, RowsOK, IsList
  <1>. QED
    BY <1>1, Relabelled DEF Open

\* The rows as they are, with no open one among them.
NoneOpen(base) ==
    /\ IsList(base) /\ Len(base) = Len(rows)
    /\ \A i \in 1..Len(rows) : /\ RowOK(base[i])
                               /\ base[i].slots = rows[i].slots
                               /\ base[i].off = rows[i].off
                               /\ base[i].status # "in_progress"

\* A row is opened, with what its first message stated, when every row of base
\* is closed.
LEMMA Opened ==
    ASSUME DataInv,
           NEW base, NoneOpen(base),
           NEW slots, DOMAIN slots \subseteq Columns, NEW off \in BOOLEAN,
           NEW record, RecordOK(record), record.slots = slots, record.due => off,
           rows' = Append(base, Row("in_progress", slots, off)),
           stated' = Append(stated, <<record>>)
    PROVE  /\ DataInv'
           /\ Len(rows') = Len(rows) + 1
           /\ \A i \in 1..Len(rows) : rows'[i] = base[i]
           /\ rows'[Len(rows) + 1] = Row("in_progress", slots, off)
  <1>. USE DEF NoneOpen
  <1>. DEFINE n == Len(rows)
              new == Row("in_progress", slots, off)
  <1>1. RowsOK /\ OneOpen /\ RowIsItsMessages /\ DueNudgeIsFlagged
    BY DEF DataInv
  <1>2. /\ n \in Nat /\ DOMAIN rows = 1..n /\ DOMAIN stated = 1..n
        /\ IsList(stated) /\ Len(stated) = n
    BY <1>1, RowsDomain DEF RowsOK
  <1>3. /\ new.status = "in_progress" /\ new.slots = slots /\ new.off = off /\ RowOK(new)
    BY DEF Row, RowOK
  <1>. HIDE DEF new
  <1>4. /\ IsList(rows') /\ Len(rows') = n + 1
        /\ DOMAIN rows' = 1..(n + 1)
        /\ \A i \in 1..n : rows'[i] = base[i]
        /\ rows'[n + 1] = new
    BY ListAppend DEF new
  <1>5. /\ IsList(stated') /\ Len(stated') = n + 1
        /\ DOMAIN stated' = 1..(n + 1)
        /\ \A i \in 1..n : stated'[i] = stated[i]
        /\ stated'[n + 1] = <<record>>
    BY <1>2, ListAppend
  <1>6. IsList(<<record>>) /\ DOMAIN <<record>> = {1} /\ <<record>>[1] = record
    BY DEF IsList
  <1>. HIDE DEF n
  <1>7. RowsOK'
    <2>1. ASSUME NEW i \in 1..(n + 1)
          PROVE  /\ RowOK(rows'[i]) /\ IsList(stated'[i])
                 /\ \A k \in DOMAIN stated'[i] : RecordOK(stated'[i][k])
      <3>1. CASE i \in 1..n
        BY <1>1, <1>2, <1>4, <1>5, <3>1 DEF RowsOK, n
      <3>2. CASE i = n + 1
        BY <1>3, <1>4, <1>5, <1>6, <3>2
      <3>. QED
        BY <1>2, <3>1, <3>2
    <2>. QED
      BY <1>4, <1>5, <2>1 DEF RowsOK
  <1>8. OneOpen'
    <2>1. \A i \in 1..(n + 1) : rows'[i].status = "in_progress" => i = n + 1
      BY <1>2, <1>4 DEF n
    <2>. QED
      BY <1>4, <2>1 DEF OneOpen, Open
  <1>9. RowIsItsMessages'
    <2>. SUFFICES ASSUME NEW i \in 1..(n + 1)
                  PROVE  /\ \A k \in DOMAIN rows'[i].slots :
                               \E j \in DOMAIN stated'[i] : LastWord(i, k, j)'
                         /\ \A j \in DOMAIN stated'[i] :
                               DOMAIN stated'[i][j].slots \subseteq DOMAIN rows'[i].slots
      BY <1>4 DEF RowIsItsMessages
    <2>1. CASE i \in 1..n
      <3>1. stated'[i] = stated[i] /\ rows'[i].slots = rows[i].slots
        BY <1>4, <1>5, <2>1 DEF n
      <3>2. /\ \A k \in DOMAIN rows[i].slots : \E j \in DOMAIN stated[i] : LastWord(i, k, j)
            /\ \A j \in DOMAIN stated[i] : DOMAIN stated[i][j].slots \subseteq DOMAIN rows[i].slots
        BY <1>1, <1>2, <2>1 DEF RowIsItsMessages
      <3>3. ASSUME NEW k \in DOMAIN rows[i].slots, NEW j \in DOMAIN stated[i], LastWord(i, k, j)
            PROVE  LastWord(i, k, j)'
        BY <3>1, <3>3 DEF LastWord
      <3>. QED
        BY <3>1, <3>2, <3>3
    <2>2. CASE i = n + 1
      <3>1. /\ stated'[i] = <<record>> /\ rows'[i].slots = slots
            /\ DOMAIN <<record>> = {1} /\ <<record>>[1].slots = slots
        BY <1>3, <1>4, <1>5, <1>6, <2>2
      <3>2. ASSUME NEW k \in DOMAIN slots
            PROVE  \E j \in DOMAIN stated'[i] : LastWord(i, k, j)'
        <4>1. PICK one \in DOMAIN stated'[i] :
                 /\ stated'[i][one].slots = slots
                 /\ \A m \in DOMAIN stated'[i] : ~(m > one)
          <5>1. stated'[i] = <<record>> /\ 1 \in DOMAIN stated'[i] /\ stated'[i][1].slots = slots
            BY <3>1
          <5>2. \A m \in DOMAIN stated'[i] : m = 1
            BY <3>1
          <5>3. \A m \in DOMAIN stated'[i] : ~(m > 1)
            <6>1. ~(1 > 1)
              OBVIOUS
            <6>. QED
              BY <5>2, <6>1, Zenon
          <5>. QED
            BY <5>1, <5>3
        <4>2. k \in DOMAIN rows'[i].slots /\ rows'[i].slots = slots
          BY <3>1, <3>2
        <4>3. LastWord(i, k, one)'
          BY <4>1, <4>2 DEF LastWord
        <4>. QED
          BY <4>3
      <3>3. \A j \in DOMAIN stated'[i] : stated'[i][j].slots = slots
        BY <3>1
      <3>. QED
        BY <3>1, <3>2, <3>3
    <2>. QED
      BY <1>2, <2>1, <2>2
  <1>10. DueNudgeIsFlagged'
    <2>. SUFFICES ASSUME NEW i \in 1..(n + 1), NEW j \in DOMAIN stated'[i], stated'[i][j].due
                  PROVE  rows'[i].off
      BY <1>4 DEF DueNudgeIsFlagged
    <2>1. CASE i \in 1..n
      BY <1>1, <1>2, <1>4, <1>5, <2>1 DEF DueNudgeIsFlagged, n
    <2>2. CASE i = n + 1
      BY <1>3, <1>4, <1>5, <1>6, <2>2
    <2>. QED
      BY <1>2, <2>1, <2>2
  <1>. QED
    BY <1>4, <1>7, <1>8, <1>9, <1>10 DEF DataInv, n, new

\* What a message states is merged into row r.
LEMMA Merged ==
    ASSUME DataInv,
           NEW r \in DOMAIN rows, NEW slots,
           NEW record, RecordOK(record), record.slots = slots,
           rows' = [i \in 1..Len(rows) |-> rows'[i]],
           stated' = [i \in 1..Len(rows) |-> stated'[i]],
           \A i \in 1..Len(rows) : i # r => rows'[i] = rows[i] /\ stated'[i] = stated[i],
           RowOK(rows'[r]),
           rows'[r].status = rows[r].status,
           rows'[r].slots = Merge(rows[r].slots, slots),
           rows[r].off \/ record.due => rows'[r].off,
           stated'[r] = Append(stated[r], record)
    PROVE  DataInv' /\ Len(rows') = Len(rows)
  <1>. DEFINE n == Len(rows)
              merged == Merge(rows[r].slots, slots)
  <1>1. RowsOK /\ OneOpen /\ RowIsItsMessages /\ DueNudgeIsFlagged
    BY DEF DataInv
  <1>2. /\ n \in Nat /\ DOMAIN rows = 1..n /\ DOMAIN stated = 1..n
        /\ IsList(rows) /\ IsList(stated) /\ Len(stated) = n
        /\ RowOK(rows[r]) /\ IsList(stated[r])
        /\ DOMAIN stated[r] = 1..Len(stated[r])
    BY <1>1, RowsDomain DEF RowsOK
  <1>3. DOMAIN merged = DOMAIN rows[r].slots \cup DOMAIN slots
    BY DEF Merge
  <1>4. \A k \in DOMAIN merged :
            merged[k] = IF k \in DOMAIN slots THEN slots[k] ELSE rows[r].slots[k]
    BY DEF Merge
  <1>. HIDE DEF merged
  <1>7. /\ DOMAIN rows' = 1..n
        /\ rows'[r].slots = merged
        /\ \A i \in 1..n : i # r => rows'[i] = rows[i]
        /\ rows' = [i \in 1..n |-> rows'[i]]
    BY DEF merged
  <1>8. IsList(rows') /\ Len(rows') = n
    BY <1>2, <1>7, FunctionIsList
  <1>9. /\ IsList(Append(stated[r], record))
        /\ Len(Append(stated[r], record)) = Len(stated[r]) + 1
        /\ DOMAIN Append(stated[r], record) = 1..(Len(stated[r]) + 1)
        /\ \A j \in 1..Len(stated[r]) : Append(stated[r], record)[j] = stated[r][j]
        /\ Append(stated[r], record)[Len(stated[r]) + 1] = record
    BY <1>2, ListAppend
  <1>10. /\ DOMAIN stated' = 1..n
         /\ stated'[r] = Append(stated[r], record)
         /\ \A i \in 1..n : i # r => stated'[i] = stated[i]
         /\ stated' = [i \in 1..n |-> stated'[i]]
    BY <1>2
  <1>11. IsList(stated') /\ Len(stated') = n
    BY <1>2, <1>10, FunctionIsList
  <1>. HIDE DEF n
  <1>12. RowsOK'
    <2>1. ASSUME NEW j \in DOMAIN stated'[r]
          PROVE  RecordOK(stated'[r][j])
      <3>1. j = Len(stated[r]) + 1 \/ j \in DOMAIN stated[r]
        BY <1>2, <1>9, <1>10 DEF IsList
      <3>2. \A m \in DOMAIN stated[r] : RecordOK(stated[r][m])
        BY <1>1 DEF RowsOK
      <3>. QED
        BY <1>2, <1>9, <1>10, <3>1, <3>2
    <2>2. ASSUME NEW i \in 1..n
          PROVE  /\ RowOK(rows'[i]) /\ IsList(stated'[i])
                 /\ \A j \in DOMAIN stated'[i] : RecordOK(stated'[i][j])
      <3>1. CASE i = r
        BY <1>9, <1>10, <2>1, <3>1
      <3>2. CASE i # r
        BY <1>1, <1>2, <1>7, <1>10, <3>2 DEF RowsOK
      <3>. QED
        BY <3>1, <3>2
    <2>. QED
      BY <1>7, <1>8, <1>11, <2>2 DEF RowsOK
  <1>13. OneOpen'
    BY <1>1, <1>2, <1>7 DEF OneOpen, Open
  <1>. DEFINE last == Len(stated[r]) + 1
  <1>14. /\ DOMAIN stated'[r] = 1..last /\ last \in Nat
         /\ DOMAIN stated[r] = 1..(last - 1)
         /\ \A j \in DOMAIN stated[r] : stated'[r][j] = stated[r][j]
         /\ stated'[r][last] = record
    BY <1>2, <1>9, <1>10 DEF IsList
  <1>. HIDE DEF last
  <1>15. RowIsItsMessages'
    <2>. SUFFICES ASSUME NEW i \in 1..n
                  PROVE  /\ \A k \in DOMAIN rows'[i].slots :
                               \E j \in DOMAIN stated'[i] : LastWord(i, k, j)'
                         /\ \A j \in DOMAIN stated'[i] :
                               DOMAIN stated'[i][j].slots \subseteq DOMAIN rows'[i].slots
      BY <1>7 DEF RowIsItsMessages
    <2>1. /\ \A k \in DOMAIN rows[i].slots : \E j \in DOMAIN stated[i] : LastWord(i, k, j)
          /\ \A j \in DOMAIN stated[i] : DOMAIN stated[i][j].slots \subseteq DOMAIN rows[i].slots
      BY <1>1, <1>2 DEF RowIsItsMessages
    <2>2. CASE i # r
      <3>1. stated'[i] = stated[i] /\ rows'[i].slots = rows[i].slots
        BY <1>7, <1>10, <2>2
      <3>. QED
        BY <2>1, <3>1 DEF LastWord
    <2>3. CASE i = r
      <3>1. ASSUME NEW k \in DOMAIN merged
            PROVE  \E j \in 1..last : LastWord(r, k, j)'
        <4>1. CASE k \in DOMAIN slots
          <5>1. merged[k] = slots[k]
            BY <1>4, <4>1
          <5>2. last \in 1..last
            <6>1. last = Len(stated[r]) + 1 /\ Len(stated[r]) \in Nat
              BY <1>2 DEF last, IsList
            <6>. QED
              BY <6>1
          <5>3. PICK e \in 1..last : /\ stated'[r][e] = record
                                     /\ \A m \in 1..last : ~(m > e)
            BY <1>14, <5>2
          <5>4. LastWord(r, k, e)'
            BY <1>7, <1>14, <4>1, <5>1, <5>3 DEF LastWord
          <5>. QED
            BY <5>4
        <4>2. CASE k \notin DOMAIN slots
          <5>1. k \in DOMAIN rows[r].slots /\ merged[k] = rows[r].slots[k]
            BY <1>3, <1>4, <4>2
          <5>2. PICK j \in DOMAIN stated[r] : LastWord(r, k, j)
            BY <2>1, <2>3, <5>1
          <5>3. \A m \in 1..last : m \in DOMAIN stated[r] \/ m = last
            BY <1>14
          <5>4. LastWord(r, k, j)'
            BY <1>7, <1>14, <4>2, <5>1, <5>2, <5>3 DEF LastWord
          <5>. QED
            BY <1>14, <5>2, <5>4
        <4>. QED
          BY <4>1, <4>2
      <3>2. ASSUME NEW j \in 1..last
            PROVE  DOMAIN stated'[r][j].slots \subseteq DOMAIN merged
        <4>1. CASE j = last
          BY <1>3, <1>14, <4>1
        <4>2. CASE j # last
          <5>1. j \in DOMAIN stated[r]
            BY <1>14, <4>2
          <5>. QED
            BY <1>3, <1>14, <2>1, <2>3, <5>1
        <4>. QED
          BY <4>1, <4>2
      <3>. QED
        BY <1>7, <1>14, <2>3, <3>1, <3>2
    <2>. QED
      BY <2>2, <2>3
  <1>16. DueNudgeIsFlagged'
    <2>. SUFFICES ASSUME NEW i \in 1..n, NEW j \in DOMAIN stated'[i], stated'[i][j].due
                  PROVE  rows'[i].off
      BY <1>7 DEF DueNudgeIsFlagged
    <2>1. CASE i # r
      BY <1>1, <1>2, <1>7, <1>10, <2>1 DEF DueNudgeIsFlagged
    <2>2. CASE i = r /\ j = last
      BY <1>14, <2>2
    <2>3. CASE i = r /\ j # last
      <3>1. j \in DOMAIN stated[r]
        BY <1>14, <2>3
      <3>. QED
        BY <1>1, <1>14, <2>3, <3>1 DEF DueNudgeIsFlagged
    <2>. QED
      BY <2>1, <2>2, <2>3
  <1>. QED
    BY <1>2, <1>7, <1>8, <1>12, <1>13, <1>15, <1>16 DEF DataInv, n

-----------------------------------------------------------------------------
(* The threads at a step.                                                  *)

\* Whoever is not at the step either is idle, or sees the rows it saw before,
\* or is marked as raced.
Bystander(u) ==
    /\ at'[u] = at[u]
    /\ hand'[u] = hand[u]
    /\ msg'[u] = msg[u]
    /\ \/ at[u] = "idle"
       \/ raced'[u]
       \/ raced'[u] = raced[u] /\ rows' = rows /\ SameRecords

LEMMA BystanderOK ==
    ASSUME IInv, NEW u \in Thread, Bystander(u),
           Len(rows) \in Nat, Len(rows') \in Nat, Len(rows) <= Len(rows')
    PROVE  ThreadOK(u)' /\ (~raced'[u] => Undisturbed(u)')
  <1>1. ThreadOK(u) /\ (~raced[u] => Undisturbed(u))
    BY DEF IInv, ThreadsOK
  <1>2. ThreadOK(u)'
    BY <1>1 DEF Bystander, ThreadOK, HandOK
  <1>3. ASSUME ~raced'[u]
        PROVE  Undisturbed(u)'
    <2>1. CASE at[u] = "idle"
      BY <2>1 DEF Bystander, Undisturbed
    <2>2. CASE raced'[u] = raced[u] /\ rows' = rows /\ SameRecords
      <3>1. Undisturbed(u) /\ at'[u] = at[u] /\ hand'[u] = hand[u]
        BY <1>1, <1>3, <2>2 DEF Bystander
      <3>2. at[u] = "clear" => hand[u].row \in DOMAIN rows
        BY <1>1 DEF ThreadOK, HandOK, IInv, DataInv, RowsOK, IsList
      <3>3. at[u] = "clear" => NothingDue(hand[u].row)'
        BY <3>1, <3>2, <2>2 DEF Undisturbed, NothingDue, SameRecords
      <3>. QED
        BY <3>1, <3>3, <2>2 DEF Undisturbed, HandAgrees, Open, NothingDue
    <2>. QED
      BY <1>3, <2>1, <2>2 DEF Bystander
  <1>. QED
    BY <1>2, <1>3

\* A step of t keeps the invariant when it keeps what t needs and the rows.
LEMMA ThreadStep ==
    ASSUME IInv, NEW t \in Thread, DataInv', Len(rows) <= Len(rows'),
           at' \in [Thread -> Labels], raced' \in [Thread -> BOOLEAN],
           DOMAIN msg' = Thread, msg' = [u \in Thread |-> msg'[u]],
           DOMAIN hand' = Thread, hand' = [u \in Thread |-> hand'[u]],
           ThreadOK(t)', ~raced'[t] => Undisturbed(t)',
           \A u \in Thread : u # t => Bystander(u)
    PROVE  IInv'
  <1>1. Len(rows) \in Nat /\ Len(rows') \in Nat
    BY DEF IInv, DataInv, RowsOK, IsList
  <1>2. ASSUME NEW u \in Thread
        PROVE  ThreadOK(u)' /\ (~raced'[u] => Undisturbed(u)')
    BY <1>1, BystanderOK
  <1>. QED
    BY <1>2 DEF IInv, ThreadsOK

\* A write to the rows races with every other thread at work.
LEMMA TouchRaces ==
    ASSUME ThreadsOK, NEW t \in Thread, NEW new, Touch(t, new)
    PROVE  /\ rows' = new
           /\ raced' \in [Thread -> BOOLEAN]
           /\ raced'[t] = raced[t]
           /\ \A u \in Thread : u # t => at[u] = "idle" \/ raced'[u]
  BY DEF Touch, ThreadsOK

\* A single count is a slot.
LEMMA CountIsSlot ==
    ASSUME NEW n
    PROVE  DOMAIN [rooms |-> n] \subseteq Columns /\ DOMAIN [pets |-> n] \subseteq Columns
  BY DEF Columns, SlotKeys

\* What a message may be read as are slots.
LEMMA ReadingsAreSlots ==
    ASSUME NEW m \in Message, NEW active, NEW slots \in Readings(m, active)
    PROVE  DOMAIN slots \subseteq Columns
  <1>1. DOMAIN m.slots \subseteq Columns
    BY ConversationAssumption
  <1>2. ASSUME NEW s, DOMAIN s \subseteq Columns, NEW keys
        PROVE  DOMAIN Without(s, keys) \subseteq Columns
    BY <1>2 DEF Without
  <1>3. ASSUME NEW s, DOMAIN s \subseteq Columns, NEW new, DOMAIN new \subseteq Columns
        PROVE  DOMAIN Merge(s, new) \subseteq Columns
    BY <1>3 DEF Merge
  <1>4. ASSUME NEW s \in RoomReadings(m, active)
        PROVE  DOMAIN s \subseteq Columns
    <2>. DEFINE own == IF m.bare THEN Without(m.slots, {"adults"}) ELSE m.slots
    <2>1. DOMAIN own \subseteq Columns
      <3>1. CASE m.bare
        <4>1. own = Without(m.slots, {"adults"})
          BY <3>1
        <4>. QED
          BY <1>1, <1>2, <4>1
      <3>2. CASE ~m.bare
        BY <1>1, <3>2
      <3>. QED
        BY <3>1, <3>2
    <2>. HIDE DEF own
    <2>2. \/ s = m.slots
          \/ \E n \in m.asRooms : s = Merge(own, [rooms |-> n])
          \/ s = own
          \/ s = Without(own, {"rooms"})
      BY <1>4 DEF RoomReadings, own
    <2>3. CASE \E n \in m.asRooms : s = Merge(own, [rooms |-> n])
      <3>1. PICK n \in m.asRooms : s = Merge(own, [rooms |-> n])
        BY <2>3
      <3>2. DOMAIN [rooms |-> n] \subseteq Columns
        BY CountIsSlot
      <3>. QED
        BY <1>3, <2>1, <3>1, <3>2
    <2>. QED
      BY <1>1, <1>2, <2>1, <2>2, <2>3
  <1>5. ASSUME NEW r \in RoomReadings(m, active), NEW s \in PetReadings(m, r, active)
        PROVE  DOMAIN s \subseteq Columns
    <2>1. s = r \/ \E n \in m.asPets : s = Merge(r, [pets |-> n])
      BY <1>5 DEF PetReadings
    <2>2. CASE \E n \in m.asPets : s = Merge(r, [pets |-> n])
      <3>1. PICK n \in m.asPets : s = Merge(r, [pets |-> n])
        BY <2>2
      <3>2. DOMAIN [pets |-> n] \subseteq Columns
        BY CountIsSlot
      <3>. QED
        BY <1>3, <1>4, <3>1, <3>2
    <2>. QED
      BY <1>4, <2>1, <2>2
  <1>6. PICK r \in RoomReadings(m, active) : \E s \in PetReadings(m, r, active) :
            slots = GuardIntent(s, active)
    BY DEF Readings
  <1>7. PICK s \in PetReadings(m, r, active) : slots = GuardIntent(s, active)
    BY <1>6
  <1>8. slots = s \/ slots = Without(s, {"intent"})
    BY <1>7 DEF GuardIntent
  <1>. QED
    BY <1>2, <1>5, <1>8

-----------------------------------------------------------------------------
(* The actions.                                                            *)

\* Empty hands are well formed.
LEMMA NoHandOK ==
    ASSUME Len(rows) \in Nat
    PROVE  HandOK(NoHand) /\ NoHand.row = 0
  BY DEF HandOK, NoHand

\* The initial state.
LEMMA InitIInv == Init => IInv
  <1>. SUFFICES ASSUME Init
                PROVE  IInv
    OBVIOUS
  <1>1. IsList(<<>>) /\ Len(<<>>) = 0 /\ DOMAIN <<>> = {}
    BY DEF IsList
  <1>2. DataInv
    BY <1>1 DEF Init, DataInv, RowsOK, OneOpen, RowIsItsMessages, DueNudgeIsFlagged
  <1>3. ASSUME NEW t \in Thread
        PROVE  ThreadOK(t) /\ Undisturbed(t)
    <2>1. at[t] = "idle" /\ hand[t] = NoHand
      BY DEF Init
    <2>2. HandOK(NoHand)
      BY <1>1, NoHandOK DEF Init
    <2>. QED
      BY <2>1, <2>2 DEF ThreadOK, Undisturbed
  <1>. QED
    BY <1>2, <1>3 DEF Init, IInv, ThreadsOK, Labels

\* A row with another status.
LEMMA SetStatus ==
    ASSUME NEW r, RowOK(r), NEW s \in {"in_progress", "completed", "expired"},
           NEW new, new = [r EXCEPT !.status = s]
    PROVE  /\ RowOK(new) /\ new.slots = r.slots /\ new.off = r.off
           /\ new.status = s
  <1>1. r = [status |-> r.status, slots |-> r.slots, off |-> r.off, current |-> r.current]
    BY DEF RowOK
  <1>2. new = [status |-> s, slots |-> r.slots, off |-> r.off, current |-> r.current]
    BY <1>1
  <1>. QED
    BY <1>2 DEF RowOK

\* A step that writes no row.
LEMMA QuietStep ==
    ASSUME IInv, NEW t \in Thread, rows' = rows, SameRecords, msg' = msg,
           raced' = raced, NEW label \in Labels, at' = [at EXCEPT ![t] = label],
           NEW h, hand' = [hand EXCEPT ![t] = h], HandOK(h),
           label # "idle" => at[t] # "idle",
           label \in {"complete", "clear"} => h.row # 0,
           label = "clear" => h.off,
           ~raced[t] => Undisturbed(t)'
    PROVE  IInv'
  <1>1. DataInv /\ ThreadsOK /\ ThreadOK(t)
    BY DEF IInv, ThreadsOK
  <1>2. DataInv'
    BY <1>1, RowsLeft
  <1>3. Len(rows) \in Nat
    BY <1>1 DEF DataInv, RowsOK, IsList
  <1>4. /\ at' \in [Thread -> Labels] /\ at'[t] = label
        /\ DOMAIN hand' = Thread /\ hand' = [u \in Thread |-> hand'[u]] /\ hand'[t] = h
        /\ \A u \in Thread : u # t => at'[u] = at[u] /\ hand'[u] = hand[u]
    BY <1>1 DEF ThreadsOK
  <1>5. ThreadOK(t)'
    BY <1>1, <1>4 DEF ThreadOK, HandOK
  <1>. QED
    BY <1>1, <1>2, <1>3, <1>4, <1>5, ThreadStep DEF Bystander, ThreadsOK

LEMMA BeginStep ==
    ASSUME IInv, NEW t \in Thread, Begin(t)
    PROVE  IInv'
  <1>1. /\ DataInv /\ ThreadsOK /\ RowsOK /\ ThreadOK(t)
        /\ Len(rows) \in Nat /\ DOMAIN rows = 1..Len(rows)
    BY RowsDomain DEF IInv, DataInv, ThreadsOK
  <1>2. ASSUME NEW i \in 1..Len(rows)
        PROVE  /\ RowOK(rows'[i])
               /\ rows'[i].slots = rows[i].slots
               /\ rows'[i].status = "in_progress" => Open(i) /\ rows'[i].current
               /\ rows'[i].off = rows[i].off
    <2>1. RowOK(rows[i])
      BY <1>1 DEF RowsOK
    <2>2. CASE Open(i) /\ ~rows[i].current
      <3>1. rows'[i] = [rows[i] EXCEPT !.status = "expired"]
        BY <1>1, <2>2 DEF Begin
      <3>. QED
        BY <2>1, <3>1, SetStatus
    <2>3. CASE ~(Open(i) /\ ~rows[i].current)
      BY <1>1, <2>1, <2>3 DEF Begin, Open
    <2>. QED
      BY <2>2, <2>3
  <1>3. rows' = [i \in 1..Len(rows) |-> rows'[i]] /\ SameRecords
    BY <1>1, RecordsLeft DEF Begin
  <1>4. DataInv' /\ Len(rows') = Len(rows)
    BY <1>1, <1>2, <1>3, Relabelled
  <1>5. DOMAIN rows' = 1..Len(rows)
    BY <1>3
  <1>6. PICK m \in Message : msg' = [msg EXCEPT ![t] = m]
    BY DEF Begin
  <1>7. /\ at' \in [Thread -> Labels] /\ at'[t] = "read"
        /\ hand' = hand
        /\ DOMAIN msg' = Thread /\ msg' = [u \in Thread |-> msg'[u]] /\ msg'[t] = m
        /\ \A u \in Thread : u # t => at'[u] = at[u] /\ msg'[u] = msg[u]
    BY <1>1, <1>6 DEF Begin, Goto, ThreadsOK, Labels
  <1>8. /\ raced' \in [Thread -> BOOLEAN]
        /\ \A u \in Thread : u # t => \/ at[u] = "idle"
                                      \/ raced'[u]
                                      \/ raced'[u] = raced[u] /\ rows' = rows
    BY <1>1 DEF Begin, ThreadsOK
  <1>9. ThreadOK(t)'
    BY <1>1, <1>4, <1>7 DEF ThreadOK, HandOK
  <1>10. Undisturbed(t)'
    BY <1>2, <1>5, <1>7 DEF Undisturbed, Open
  <1>. QED
    BY <1>1, <1>3, <1>4, <1>7, <1>8, <1>9, <1>10, ThreadStep DEF Bystander, ThreadsOK

LEMMA ReadActiveStep ==
    ASSUME IInv, NEW t \in Thread, ReadActive(t)
    PROVE  IInv'
  <1>1. /\ DataInv /\ ThreadsOK /\ RowsOK
        /\ ~raced[t] => Undisturbed(t)
        /\ Len(rows) \in Nat /\ DOMAIN rows = 1..Len(rows)
    BY RowsDomain DEF IInv, DataInv, ThreadsOK
  <1>2. /\ at[t] = "read" /\ at' = [at EXCEPT ![t] = "write"]
        /\ rows' = rows /\ SameRecords /\ msg' = msg /\ raced' = raced
        /\ at'[t] = "write"
    BY <1>1, RecordsLeft DEF ReadActive, Goto, ThreadsOK
  <1>3. CASE \E i \in DOMAIN rows :
               /\ Open(i) /\ rows[i].current
               /\ Hold(t, [row |-> i, slots |-> rows[i].slots, off |-> rows[i].off])
    <2>1. PICK i \in DOMAIN rows :
               /\ Open(i) /\ rows[i].current
               /\ Hold(t, [row |-> i, slots |-> rows[i].slots, off |-> rows[i].off])
      BY <1>3
    <2>. DEFINE h == [row |-> i, slots |-> rows[i].slots, off |-> rows[i].off]
    <2>2. hand' = [hand EXCEPT ![t] = h] /\ hand'[t] = h
      BY <1>1, <2>1 DEF Hold, ThreadsOK
    <2>3. h.row = i /\ h.slots = rows[i].slots /\ h.off = rows[i].off
      OBVIOUS
    <2>4. i # 0 /\ RowOK(rows[i])
      BY <1>1 DEF RowsOK
    <2>5. HandOK(h)
      BY <1>1, <2>3, <2>4 DEF HandOK, RowOK
    <2>. HIDE DEF h
    <2>6. Undisturbed(t)'
      BY <1>2, <2>1, <2>2, <2>3, <2>4 DEF Undisturbed, HandAgrees, Open
    <2>. QED
      BY <1>2, <2>2, <2>5, <2>6, QuietStep DEF Labels
  <1>4. CASE /\ ~\E i \in DOMAIN rows : Open(i) /\ rows[i].current
             /\ Hold(t, NoHand)
    <2>1. hand' = [hand EXCEPT ![t] = NoHand] /\ hand'[t] = NoHand
      BY <1>1, <1>4 DEF Hold, ThreadsOK
    <2>2. HandOK(NoHand) /\ NoHand.row = 0
      BY <1>1, NoHandOK
    <2>3. ASSUME ~raced[t]
          PROVE  Undisturbed(t)'
      <3>1. \A i \in DOMAIN rows : ~Open(i)
        BY <1>1, <1>2, <1>4, <2>3 DEF Undisturbed
      <3>. QED
        BY <1>2, <2>1, <2>2, <3>1 DEF Undisturbed, HandAgrees, Open
    <2>. QED
      BY <1>2, <2>1, <2>2, <2>3, QuietStep DEF Labels
  <1>. QED
    BY <1>3, <1>4 DEF ReadActive

\* A step that writes: the thread goes on with a hand h, in agreement with the
\* rows when it was in agreement before.
LEMMA WriteStep ==
    ASSUME IInv, NEW t \in Thread, DataInv', Len(rows) <= Len(rows'),
           NEW new, Touch(t, new), msg' = msg,
           NEW label \in {"idle", "reply"}, at' = [at EXCEPT ![t] = label],
           at[t] # "idle",
           NEW h, hand' = [hand EXCEPT ![t] = h], HandOK(h)',
           ~raced[t] /\ label = "reply" => HandAgrees(t)'
    PROVE  IInv'
  <1>1. DataInv /\ ThreadsOK /\ ThreadOK(t)
    BY DEF IInv, ThreadsOK
  <1>2. /\ at' \in [Thread -> Labels] /\ at'[t] = label
        /\ DOMAIN hand' = Thread /\ hand' = [u \in Thread |-> hand'[u]] /\ hand'[t] = h
        /\ \A u \in Thread : u # t => at'[u] = at[u] /\ hand'[u] = hand[u]
    BY <1>1 DEF ThreadsOK, Labels
  <1>3. ThreadOK(t)'
    BY <1>1, <1>2 DEF ThreadOK
  <1>4. /\ raced' \in [Thread -> BOOLEAN]
        /\ raced'[t] = raced[t]
        /\ \A u \in Thread : u # t => at[u] = "idle" \/ raced'[u]
    BY <1>1, TouchRaces
  <1>5. ~raced'[t] => Undisturbed(t)'
    BY <1>2, <1>4 DEF Undisturbed
  <1>. QED
    BY <1>1, <1>2, <1>3, <1>4, <1>5, ThreadStep DEF Bystander, ThreadsOK

\* The step that opens a row and takes it in hand.
LEMMA OpenStep ==
    ASSUME IInv, NEW t \in Thread, at[t] = "write", msg' = msg, Goto(t, "reply"),
           NEW base, IsList(base), Len(base) = Len(rows),
           \A i \in 1..Len(rows) : /\ RowOK(base[i])
                                   /\ base[i].slots = rows[i].slots
                                   /\ base[i].off = rows[i].off
                                   /\ base[i].status # "in_progress",
           Touch(t, Append(base, Row("in_progress", msg[t].slots, msg[t].off))),
           stated' = Append(stated, <<Record(t, msg[t].slots)>>),
           Hold(t, [row |-> Len(rows) + 1, slots |-> msg[t].slots, off |-> msg[t].off])
    PROVE  /\ IInv'
           /\ Len(rows') = Len(rows) + 1
           /\ \A i \in 1..Len(rows) : rows'[i] = base[i]
  <1>. DEFINE slots == msg[t].slots
              off == msg[t].off
              new == Append(base, Row("in_progress", slots, off))
  <1>1. DataInv /\ ThreadsOK /\ ThreadOK(t) /\ msg[t] \in Message /\ Len(rows) \in Nat
    BY DEF IInv, ThreadsOK, ThreadOK, DataInv, RowsOK, IsList
  <1>2. DOMAIN slots \subseteq Columns /\ off \in BOOLEAN
    BY <1>1, ConversationAssumption
  <1>3. /\ Record(t, slots).slots = slots /\ Record(t, slots).due = off
        /\ RecordOK(Record(t, slots))
    BY <1>2 DEF Record, RecordOK
  <1>4. rows' = new
    BY <1>1, TouchRaces
  <1>. HIDE DEF slots, off
  <1>5. /\ DataInv'
        /\ Len(rows') = Len(rows) + 1
        /\ \A i \in 1..Len(rows) : rows'[i] = base[i]
        /\ rows'[Len(rows) + 1] = Row("in_progress", slots, off)
    <2>1. PICK record : record = Record(t, slots)
      OBVIOUS
    <2>2. /\ record.slots = slots /\ RecordOK(record) /\ (record.due => off)
          /\ stated' = Append(stated, <<record>>)
      BY <1>3, <2>1 DEF slots
    <2>3. rows' = Append(base, Row("in_progress", slots, off))
      BY <1>4
    <2>. HIDE DEF new
    <2>4. DataInv /\ DOMAIN slots \subseteq Columns /\ off \in BOOLEAN
      BY <1>1, <1>2
    <2>5. NoneOpen(base)
      BY DEF NoneOpen
    <2>6. \A b, s, r :
             NoneOpen(b) /\ DOMAIN s \subseteq Columns
             /\ r.slots = s /\ RecordOK(r) /\ (r.due => off)
             /\ rows' = Append(b, Row("in_progress", s, off)) /\ stated' = Append(stated, <<r>>)
             => /\ DataInv'
                /\ Len(rows') = Len(rows) + 1
                /\ \A i \in 1..Len(rows) : rows'[i] = b[i]
                /\ rows'[Len(rows) + 1] = Row("in_progress", s, off)
      BY <2>4, Opened
    <2>. QED
      BY <2>2, <2>3, <2>4, <2>5, <2>6
  <1>0. PICK h : h = [row |-> Len(rows) + 1, slots |-> slots, off |-> off]
    OBVIOUS
  <1>6. h.row = Len(rows) + 1 /\ h.slots = slots /\ h.off = off
    BY <1>0
  <1>7. HandOK(h)'
    <2>1. Len(rows) + 1 \in 0..Len(rows')
      BY <1>1, <1>5
    <2>2. h = [row |-> h.row, slots |-> h.slots, off |-> h.off]
      BY <1>0
    <2>. QED
      BY <1>2, <1>6, <2>1, <2>2 DEF HandOK
  <1>8. hand' = [hand EXCEPT ![t] = h] /\ hand'[t] = h
    BY <1>1, <1>0 DEF Hold, ThreadsOK, slots, off
  <1>9. HandAgrees(t)'
    <2>1. Row("in_progress", slots, off).status = "in_progress"
          /\ Row("in_progress", slots, off).slots = slots
          /\ Row("in_progress", slots, off).off = off
      BY DEF Row
    <2>2. Len(rows) + 1 # 0
      BY <1>1
    <2>. QED
      BY <1>5, <1>6, <1>8, <2>1, <2>2 DEF HandAgrees, Open
  <1>10. Touch(t, new) /\ at' = [at EXCEPT ![t] = "reply"]
    BY DEF new, slots, off, Goto
  <1>. HIDE DEF new
  <1>11. IInv'
    <2>1. "reply" \in {"idle", "reply"} /\ at[t] # "idle" /\ Len(rows) <= Len(rows')
      BY <1>1, <1>5
    <2>. QED
      BY <1>5, <1>7, <1>8, <1>9, <1>10, <2>1, WriteStep
  <1>. QED
    BY <1>5, <1>11

LEMMA CreateStep ==
    ASSUME IInv, NEW t \in Thread, Create(t)
    PROVE  /\ IInv'
           /\ \A i \in DOMAIN rows : rows'[i] = rows[i]
  <1>1. /\ RowsOK /\ IsList(rows) /\ DOMAIN rows = 1..Len(rows)
    BY RowsDomain DEF IInv, DataInv, RowsOK
  <1>2. \A i \in 1..Len(rows) : RowOK(rows[i]) /\ rows[i].status # "in_progress"
    BY <1>1 DEF Create, Open, RowsOK
  <1>3. /\ IInv' /\ Len(rows') = Len(rows) + 1
        /\ \A i \in 1..Len(rows) : rows'[i] = rows[i]
    BY <1>1, <1>2, OpenStep DEF Create
  <1>. QED
    BY <1>1, <1>3

\* supersede closes the row in hand, the only one that may be open.
LEMMA SupersedeStep ==
    ASSUME IInv, NEW t \in Thread, Supersede(t)
    PROVE  /\ IInv'
           /\ \A i \in DOMAIN rows : rows'[i].status # "in_progress"
  <1>. DEFINE r == hand[t].row
              base == [rows EXCEPT ![r].status = "expired"]
  <1>1. /\ RowsOK /\ IsList(rows) /\ DOMAIN rows = 1..Len(rows) /\ Len(rows) \in Nat
        /\ ThreadOK(t)
    BY RowsDomain DEF IInv, DataInv, RowsOK, ThreadsOK
  <1>2. r \in 1..Len(rows)
    BY <1>1 DEF Supersede, ThreadOK, HandOK
  <1>3. /\ base = [i \in 1..Len(rows) |-> base[i]]
        /\ base[r] = [rows[r] EXCEPT !.status = "expired"]
        /\ \A i \in 1..Len(rows) : i # r => base[i] = rows[i]
    BY <1>1, <1>2
  <1>4. \A i \in 1..Len(rows) : i # r => rows[i].status # "in_progress"
    BY <1>1 DEF Supersede, Open
  <1>5. /\ at[t] = "write" /\ msg' = msg /\ Goto(t, "reply")
        /\ Touch(t, Append(base, Row("in_progress", msg[t].slots, msg[t].off)))
        /\ stated' = Append(stated, <<Record(t, msg[t].slots)>>)
        /\ Hold(t, [row |-> Len(rows) + 1, slots |-> msg[t].slots, off |-> msg[t].off])
    BY DEF Supersede
  <1>. HIDE DEF base, r
  <1>6. IsList(base) /\ Len(base) = Len(rows)
    BY <1>1, <1>3, FunctionIsList
  <1>7. ASSUME NEW i \in 1..Len(rows)
        PROVE  /\ RowOK(base[i])
               /\ base[i].slots = rows[i].slots /\ base[i].off = rows[i].off
               /\ base[i].status # "in_progress"
    <2>1. RowOK(rows[i])
      BY <1>1 DEF RowsOK
    <2>2. CASE i = r
      BY <1>3, <2>1, <2>2, SetStatus
    <2>3. CASE i # r
      BY <1>3, <1>4, <2>1, <2>3
    <2>. QED
      BY <2>2, <2>3
  <1>8. IInv' /\ \A i \in 1..Len(rows) : rows'[i] = base[i]
    BY <1>5, <1>6, <1>7, OpenStep
  <1>. QED
    BY <1>1, <1>7, <1>8

\* A refusal needs an open row besides the one in hand, and an undisturbed
\* thread's hand is the open row, or no row is open.
LEMMA InsertRefusedStep ==
    ASSUME IInv, NEW t \in Thread, InsertRefused(t)
    PROVE  IInv' /\ raced[t]
  <1>1. /\ DataInv /\ ThreadsOK /\ RowsOK /\ OneOpen /\ ThreadOK(t)
        /\ ~raced[t] => Undisturbed(t)
        /\ Len(rows) \in Nat /\ DOMAIN rows = 1..Len(rows)
    BY RowsDomain DEF IInv, DataInv, ThreadsOK
  <1>2. raced[t]
    <2>. SUFFICES ASSUME ~raced[t]
                  PROVE  FALSE
      OBVIOUS
    <2>1. PICK i \in DOMAIN rows : Open(i) /\ i # hand[t].row
      BY DEF InsertRefused
    <2>2. HandAgrees(t)
      BY <1>1 DEF InsertRefused, Undisturbed
    <2>3. hand[t].row # 0
      BY <2>1, <2>2 DEF HandAgrees
    <2>4. Open(hand[t].row) /\ hand[t].row \in DOMAIN rows
      BY <1>1, <2>2, <2>3 DEF HandAgrees, ThreadOK, HandOK
    <2>. QED
      BY <1>1, <2>1, <2>4 DEF OneOpen
  <1>3. HandOK(NoHand) /\ NoHand.row = 0
    BY <1>1, NoHandOK
  <1>4. /\ rows' = rows /\ SameRecords /\ msg' = msg /\ raced' = raced
        /\ at' = [at EXCEPT ![t] = "lost"] /\ at[t] # "idle"
        /\ hand' = [hand EXCEPT ![t] = NoHand]
        /\ "lost" \in Labels
    BY <1>1, RecordsLeft DEF InsertRefused, Goto, Hold, Labels
  <1>. QED
    BY <1>2, <1>3, <1>4, QuietStep

\* COALESCE in SQL and _merge_row in Python come to the same.
LEMMA UpdateStep ==
    ASSUME IInv, NEW t \in Thread, Update(t)
    PROVE  /\ IInv'
           /\ \A i \in DOMAIN rows : rows'[i].status = rows[i].status
  <1>. DEFINE r == hand[t].row
              off == msg[t].off
  <1>1. /\ DataInv /\ ThreadsOK /\ RowsOK /\ ThreadOK(t)
        /\ ~raced[t] => Undisturbed(t)
        /\ Len(rows) \in Nat /\ DOMAIN rows = 1..Len(rows) /\ DOMAIN stated = 1..Len(rows)
    BY RowsDomain DEF IInv, DataInv, ThreadsOK
  <1>2. r \in 1..Len(rows) /\ at[t] = "write" /\ msg[t] \in Message
    <2>1. at[t] = "write" /\ r # 0
      BY DEF Update
    <2>2. r \in 0..Len(rows)
      BY <1>1 DEF ThreadOK, HandOK
    <2>. QED
      BY <1>1, <2>1, <2>2 DEF ThreadOK
  <1>3. off \in BOOLEAN
    BY <1>2, ConversationAssumption
  <1>. DEFINE new(s) == [rows EXCEPT ![r].slots = Merge(@, s), ![r].off = @ \/ off,
                                     ![r].current = TRUE]
              kept(s) == [row |-> r, slots |-> Merge(hand[t].slots, s),
                          off |-> hand[t].off \/ off]
  <1>4. PICK slots \in Readings(msg[t], hand[t].slots) :
            /\ Touch(t, new(slots))
            /\ stated' = [stated EXCEPT ![r] = Append(@, Record(t, slots))]
            /\ Hold(t, kept(slots))
    BY DEF Update
  <1>5. DOMAIN slots \subseteq Columns
    BY <1>2, ReadingsAreSlots
  <1>6. rows' = new(slots)
    BY <1>1, <1>4, TouchRaces
  <1>7. RowOK(rows[r]) /\ DOMAIN hand[t].slots \subseteq Columns /\ hand[t].off \in BOOLEAN
    BY <1>1, <1>2 DEF RowsOK, ThreadOK, HandOK
  <1>8. rows'[r] = [status |-> rows[r].status, slots |-> Merge(rows[r].slots, slots),
                    off |-> rows[r].off \/ off, current |-> TRUE]
    <2>. DEFINE row == rows[r]
                merged == Merge(row.slots, slots)
                both == row.off \/ off
                yes == TRUE
                row1 == [row EXCEPT !.slots = merged]
                row2 == [row1 EXCEPT !.off = both]
                row3 == [row2 EXCEPT !.current = yes]
    <2>1. row = [status |-> row.status, slots |-> row.slots, off |-> row.off,
                 current |-> row.current]
      BY <1>7 DEF RowOK
    <2>. HIDE DEF merged, both, yes
    <2>2. row1 = [status |-> row.status, slots |-> merged, off |-> row.off,
                  current |-> row.current]
      BY <2>1
    <2>. HIDE DEF row1
    <2>3. row2 = [status |-> row.status, slots |-> merged, off |-> both,
                  current |-> row.current]
      BY <2>2
    <2>. HIDE DEF row2
    <2>4. row3 = [status |-> row.status, slots |-> merged, off |-> both, current |-> yes]
      BY <2>3
    <2>5. [row EXCEPT !.slots = merged, !.off = both, !.current = yes] = row3
      BY DEF row1, row2, row3
    <2>6. [row EXCEPT !.slots = Merge(@, slots), !.off = @ \/ off, !.current = TRUE]
            = [row EXCEPT !.slots = merged, !.off = both, !.current = yes]
      BY DEF merged, both, yes
    <2>7. [status |-> row.status, slots |-> Merge(row.slots, slots),
           off |-> row.off \/ off, current |-> TRUE]
            = [status |-> row.status, slots |-> merged, off |-> both, current |-> yes]
      BY Zenon DEF merged, both, yes
    <2>8. rows'[r] = [row EXCEPT !.slots = Merge(@, slots), !.off = @ \/ off,
                                 !.current = TRUE]
      BY <1>1, <1>2, <1>6
    <2>. HIDE DEF row3
    <2>. QED
      BY <2>4, <2>5, <2>6, <2>7, <2>8, Zenon
  <1>18. /\ rows'[r].status = rows[r].status
         /\ rows'[r].slots = Merge(rows[r].slots, slots)
         /\ rows'[r].off = (rows[r].off \/ off)
         /\ RowOK(rows'[r])
    <2>1. DOMAIN Merge(rows[r].slots, slots) \subseteq Columns
      BY <1>5, <1>7 DEF Merge, RowOK
    <2>. DEFINE merged == Merge(rows[r].slots, slots)
                both == rows[r].off \/ off
                yes == TRUE
    <2>2. both \in BOOLEAN /\ yes \in BOOLEAN
      OBVIOUS
    <2>. HIDE DEF merged, both, yes
    <2>3. rows'[r] = [status |-> rows[r].status, slots |-> merged, off |-> both,
                      current |-> yes]
      BY <1>8, Zenon DEF merged, both, yes
    <2>4. /\ rows'[r].status = rows[r].status /\ rows'[r].slots = merged
          /\ rows'[r].off = both /\ rows'[r].current = yes
      <3>1. rows'[r].status = rows[r].status
        BY <2>3
      <3>2. rows'[r].slots = merged
        BY <2>3
      <3>3. rows'[r].off = both
        BY <2>3
      <3>4. rows'[r].current = yes
        BY <2>3
      <3>. QED
        BY <3>1, <3>2, <3>3, <3>4
    <2>5. rows'[r] = [status |-> rows'[r].status, slots |-> rows'[r].slots,
                      off |-> rows'[r].off, current |-> rows'[r].current]
      BY <2>3, <2>4, Zenon
    <2>6. RowOK(rows'[r])
      BY <1>7, <2>1, <2>2, <2>4, <2>5 DEF RowOK, merged
    <2>. QED
      BY <2>4, <2>6, Zenon DEF merged, both
  <1>9. /\ rows' = [i \in 1..Len(rows) |-> rows'[i]]
        /\ \A i \in 1..Len(rows) : i # r => rows'[i] = rows[i]
    BY <1>1, <1>2, <1>6
  <1>10. /\ Record(t, slots).slots = slots /\ Record(t, slots).due = off
         /\ RecordOK(Record(t, slots))
    BY <1>3 DEF Record, RecordOK
  <1>11. PICK record : record = Record(t, slots)
    OBVIOUS
  <1>12. /\ stated' = [i \in 1..Len(rows) |-> stated'[i]]
         /\ stated'[r] = Append(stated[r], record)
         /\ \A i \in 1..Len(rows) : i # r => stated'[i] = stated[i]
    BY <1>1, <1>2, <1>4, <1>11
  <1>. HIDE DEF new, off, r
  <1>23. rows[r].off \/ record.due => rows'[r].off
    BY <1>10, <1>11, <1>18, Zenon
  <1>13. DataInv' /\ Len(rows') = Len(rows)
    BY <1>1, <1>2, <1>9, <1>10, <1>11, <1>12, <1>18, <1>23, Merged
  <1>14. PICK h : h = kept(slots)
    OBVIOUS
  <1>15. /\ h = [row |-> h.row, slots |-> h.slots, off |-> h.off]
         /\ h.row = r /\ h.slots = Merge(hand[t].slots, slots) /\ h.off = (hand[t].off \/ off)
    BY <1>14
  <1>16. HandOK(h)'
    <2>1. DOMAIN Merge(hand[t].slots, slots) \subseteq Columns
      BY <1>5, <1>7 DEF Merge
    <2>2. (hand[t].off \/ off) \in BOOLEAN
      OBVIOUS
    <2>. QED
      BY <1>1, <1>2, <1>13, <1>15, <2>1, <2>2 DEF HandOK
  <1>17. hand' = [hand EXCEPT ![t] = h] /\ hand'[t] = h
    BY <1>1, <1>4, <1>14 DEF Hold, ThreadsOK
  <1>19. ASSUME ~raced[t]
         PROVE  HandAgrees(t)'
    <2>1. HandAgrees(t) /\ r # 0
      BY <1>1, <1>2, <1>19 DEF Undisturbed
    <2>2. Open(r) /\ hand[t].slots = rows[r].slots /\ hand[t].off = rows[r].off
      BY <2>1 DEF HandAgrees, r
    <2>3. h.slots = rows'[r].slots /\ h.off = rows'[r].off /\ rows'[r].status = "in_progress"
      BY <1>15, <1>18, <2>2, Zenon DEF Open
    <2>. QED
      BY <1>15, <1>17, <2>1, <2>3 DEF HandAgrees, Open
  <1>20. /\ at' = [at EXCEPT ![t] = "reply"] /\ at[t] # "idle" /\ msg' = msg
         /\ "reply" \in {"idle", "reply"} /\ Len(rows) <= Len(rows')
    <2>1. at' = [at EXCEPT ![t] = "reply"] /\ msg' = msg
      BY DEF Update, Goto
    <2>. QED
      BY <1>1, <1>2, <1>13, <2>1
  <1>21. IInv'
    BY <1>4, <1>13, <1>16, <1>17, <1>19, <1>20, WriteStep
  <1>22. ASSUME NEW i \in DOMAIN rows
         PROVE  rows'[i].status = rows[i].status
    BY <1>1, <1>9, <1>18
  <1>. QED
    BY <1>21, <1>22

LEMMA RecordNothingStep ==
    ASSUME IInv, NEW t \in Thread, RecordNothing(t)
    PROVE  IInv'
  <1>1. /\ ThreadsOK /\ ThreadOK(t) /\ RowsOK
        /\ ~raced[t] => Undisturbed(t)
    BY DEF IInv, ThreadsOK, DataInv
  <1>2. /\ rows' = rows /\ SameRecords /\ msg' = msg /\ raced' = raced
        /\ at[t] = "write" /\ at' = [at EXCEPT ![t] = "reply"] /\ at'[t] = "reply"
        /\ hand' = [hand EXCEPT ![t] = hand[t]] /\ hand' = hand
    BY <1>1, RecordsLeft DEF RecordNothing, Goto, ThreadsOK
  <1>3. ~raced[t] => Undisturbed(t)'
    BY <1>1, <1>2 DEF Undisturbed, HandAgrees, Open
  <1>. QED
    BY <1>1, <1>2, <1>3, QuietStep DEF ThreadOK, Labels

\* The steps after which the thread is done, and wrote nothing.
LEMMA LeaveStep ==
    ASSUME IInv, NEW t \in Thread, ReplyOnly(t) \/ AfterReplyRaises(t)
    PROVE  IInv'
  <1>1. ThreadsOK /\ RowsOK /\ Len(rows) \in Nat
    BY DEF IInv, ThreadsOK, DataInv, RowsOK, IsList
  <1>2. /\ rows' = rows /\ SameRecords /\ msg' = msg /\ raced' = raced
        /\ at' = [at EXCEPT ![t] = "idle"] /\ at'[t] = "idle"
        /\ hand' = [hand EXCEPT ![t] = NoHand]
    BY <1>1, RecordsLeft DEF ReplyOnly, AfterReplyRaises, Goto, Hold, ThreadsOK
  <1>3. HandOK(NoHand) /\ Undisturbed(t)'
    BY <1>1, <1>2, NoHandOK DEF Undisturbed
  <1>. QED
    BY <1>2, <1>3, QuietStep DEF Labels

\* A nudge that an undisturbed thread sends shows everything recorded in the
\* row.
LEMMA ReplyStep ==
    ASSUME IInv, NEW t \in Thread, ReplyCompletes(t) \/ ReplyNudges(t)
    PROVE  IInv'
  <1>1. /\ ThreadsOK /\ ThreadOK(t) /\ DataInv /\ RowsOK
        /\ ~raced[t] => Undisturbed(t)
        /\ DOMAIN rows = 1..Len(rows) /\ Len(rows) \in Nat
    BY RowsDomain DEF IInv, ThreadsOK, DataInv
  <1>2. PICK label \in {"complete", "clear"} :
            /\ rows' = rows /\ msg' = msg /\ raced' = raced
            /\ at[t] = "reply" /\ hand[t].row # 0
            /\ at' = [at EXCEPT ![t] = label]
            /\ hand' = [hand EXCEPT ![t] = hand[t]]
            /\ label = "clear" => hand[t].off
            /\ \/ stated' = stated /\ (label = "clear" => raced[t])
               \/ stated' = NoneDue(hand[t].row)
    BY <1>1 DEF ReplyCompletes, ReplyNudges, Goto, ThreadsOK
  <1>3. at'[t] = label /\ hand'[t] = hand[t] /\ hand[t].row \in DOMAIN rows
    BY <1>1, <1>2 DEF ThreadsOK, ThreadOK, HandOK
  <1>4. SameRecords /\ (label = "clear" /\ ~raced[t] => NothingDue(hand[t].row)')
    BY <1>1, <1>2, <1>3, RecordsLeft, RecordsShown
  <1>5. ASSUME ~raced[t]
        PROVE  Undisturbed(t)'
    <2>1. HandAgrees(t)
      BY <1>1, <1>2, <1>5 DEF Undisturbed
    <2>2. HandAgrees(t)'
      BY <1>2, <1>3, <2>1 DEF HandAgrees, Open
    <2>. QED
      BY <1>2, <1>3, <1>4, <1>5, <2>2 DEF Undisturbed, NothingDue
  <1>. QED
    BY <1>1, <1>2, <1>4, <1>5, QuietStep DEF ThreadOK, Labels

\* mark_completed and clear_accumulated_while_off write one column of the row
\* in hand.
LEMMA AfterReplyStep ==
    ASSUME IInv, NEW t \in Thread, MarkCompleted(t) \/ ClearOff(t)
    PROVE  /\ IInv'
           /\ \A i \in DOMAIN rows : rows'[i].status = "in_progress" => Open(i)
  <1>0. PICK r : r = hand[t].row
    OBVIOUS
  <1>1. /\ DataInv /\ ThreadsOK /\ RowsOK /\ ThreadOK(t)
        /\ ~raced[t] => Undisturbed(t)
        /\ Len(rows) \in Nat /\ DOMAIN rows = 1..Len(rows)
    BY RowsDomain DEF IInv, DataInv, ThreadsOK
  <1>2. r \in 1..Len(rows) /\ at[t] # "idle"
    BY <1>0, <1>1 DEF MarkCompleted, ClearOff, ThreadOK, HandOK
  <1>3. \/ /\ Touch(t, [rows EXCEPT ![r].status = "completed"])
           /\ SameRecords
        \/ /\ Touch(t, [rows EXCEPT ![r].off = FALSE])
           /\ SameRecords /\ NothingDue(r)'
    <2>1. CASE MarkCompleted(t)
      BY <1>0, <1>1, <2>1, RecordsLeft DEF MarkCompleted
    <2>2. CASE ClearOff(t) /\ raced[t]
      <3>1. stated' = NoneDue(r) /\ Touch(t, [rows EXCEPT ![r].off = FALSE])
        BY <1>0, <2>2 DEF ClearOff
      <3>2. SameRecords /\ NothingDue(r)'
        BY <1>1, <1>2, <3>1, RecordsShown
      <3>. QED
        BY <3>1, <3>2
    <2>3. CASE ClearOff(t) /\ ~raced[t]
      <3>1. NothingDue(r) /\ stated' = stated
        BY <1>0, <1>1, <2>3 DEF ClearOff, Undisturbed, NothingDue
      <3>2. NothingDue(r)'
        BY <3>1 DEF NothingDue
      <3>3. SameRecords /\ Touch(t, [rows EXCEPT ![r].off = FALSE])
        BY <1>0, <1>1, <2>3, <3>1, RecordsLeft DEF ClearOff
      <3>. QED
        BY <3>2, <3>3
    <2>. QED
      BY <2>1, <2>2, <2>3
  <1>4. /\ SameRecords
        /\ \/ rows' = [rows EXCEPT ![r].status = "completed"]
           \/ rows' = [rows EXCEPT ![r].off = FALSE] /\ NothingDue(r)'
    BY <1>1, <1>3, TouchRaces
  <1>5. /\ rows' = [i \in 1..Len(rows) |-> rows'[i]]
        /\ \A i \in 1..Len(rows) : i # r => rows'[i] = rows[i]
    BY <1>1, <1>2, <1>4
  <1>6. RowOK(rows[r])
    BY <1>1, <1>2 DEF RowsOK
  <1>7. /\ RowOK(rows'[r]) /\ rows'[r].slots = rows[r].slots
        /\ rows'[r].status = "in_progress" => rows[r].status = "in_progress"
        /\ rows'[r].off = rows[r].off \/ NothingDue(r)'
    <2>1. CASE rows' = [rows EXCEPT ![r].status = "completed"]
      <3>1. rows'[r] = [rows[r] EXCEPT !.status = "completed"]
        BY <1>1, <1>2, <2>1
      <3>. QED
        BY <1>6, <3>1, SetStatus
    <2>2. CASE rows' = [rows EXCEPT ![r].off = FALSE] /\ NothingDue(r)'
      <3>. DEFINE row == rows[r]
                  no == FALSE
      <3>1. row = [status |-> row.status, slots |-> row.slots, off |-> row.off,
                   current |-> row.current]
        BY <1>6 DEF RowOK
      <3>2. rows'[r] = [row EXCEPT !.off = FALSE]
        BY <1>1, <1>2, <2>2
      <3>. HIDE DEF no
      <3>3. [row EXCEPT !.off = no]
              = [status |-> row.status, slots |-> row.slots, off |-> no,
                 current |-> row.current]
        BY <3>1
      <3>4. rows'[r] = [status |-> row.status, slots |-> row.slots, off |-> FALSE,
                        current |-> row.current]
        BY <3>2, <3>3, Zenon DEF no
      <3>5. /\ rows'[r].status = row.status /\ rows'[r].slots = row.slots
            /\ rows'[r].off = FALSE /\ rows'[r].current = row.current
        BY <3>4
      <3>6. rows'[r] = [status |-> rows'[r].status, slots |-> rows'[r].slots,
                        off |-> rows'[r].off, current |-> rows'[r].current]
        BY <3>4, <3>5, Zenon
      <3>7. RowOK(rows'[r])
        BY <1>6, <3>5, <3>6 DEF RowOK
      <3>. QED
        BY <2>2, <3>5, <3>7
    <2>. QED
      BY <1>4, <2>1, <2>2
  <1>8. PICK new : Touch(t, new)
    BY <1>3
  <1>9. /\ msg' = msg /\ at' = [at EXCEPT ![t] = "idle"]
        /\ hand' = [hand EXCEPT ![t] = NoHand]
    BY DEF MarkCompleted, ClearOff, Goto, Hold
  <1>10. ASSUME NEW i \in 1..Len(rows)
         PROVE  /\ RowOK(rows'[i])
                /\ rows'[i].slots = rows[i].slots
                /\ rows'[i].status = "in_progress" => Open(i)
                /\ rows'[i].off = rows[i].off \/ NothingDue(i)'
    <2>1. CASE i = r
      BY <1>7, <2>1 DEF Open
    <2>2. CASE i # r
      BY <1>1, <1>5, <2>2 DEF RowsOK, Open
    <2>. QED
      BY <2>1, <2>2
  <1>11. DataInv' /\ Len(rows') = Len(rows)
    BY <1>1, <1>4, <1>5, <1>10, Relabelled
  <1>12. HandOK(NoHand)'
    BY <1>1, <1>11, NoHandOK DEF HandOK, NoHand
  <1>13. IInv'
    <2>1. "idle" \in {"idle", "reply"} /\ Len(rows) <= Len(rows')
      BY <1>1, <1>11
    <2>. QED
      BY <1>2, <1>8, <1>9, <1>11, <1>12, <2>1, WriteStep
  <1>. QED
    BY <1>1, <1>10, <1>13

\* A row's time runs out under every thread at work.
LEMMA TimeOutStep ==
    ASSUME IInv, TimeOut
    PROVE  /\ IInv'
           /\ \A i \in DOMAIN rows : rows'[i].status = rows[i].status
  <1>1. /\ DataInv /\ ThreadsOK /\ RowsOK
        /\ Len(rows) \in Nat /\ DOMAIN rows = 1..Len(rows)
    BY RowsDomain DEF IInv, DataInv, ThreadsOK
  <1>2. PICK r \in DOMAIN rows : rows' = [rows EXCEPT ![r].current = FALSE]
    BY DEF TimeOut
  <1>3. /\ rows' = [i \in 1..Len(rows) |-> rows'[i]]
        /\ \A i \in 1..Len(rows) : i # r => rows'[i] = rows[i]
    BY <1>1, <1>2
  <1>4. RowOK(rows[r])
    BY <1>1 DEF RowsOK
  <1>5. /\ RowOK(rows'[r]) /\ rows'[r].slots = rows[r].slots
        /\ rows'[r].status = rows[r].status /\ rows'[r].off = rows[r].off
    <2>. DEFINE row == rows[r]
                no == FALSE
    <2>1. row = [status |-> row.status, slots |-> row.slots, off |-> row.off,
                 current |-> row.current]
      BY <1>4 DEF RowOK
    <2>2. rows'[r] = [row EXCEPT !.current = FALSE]
      BY <1>1, <1>2
    <2>. HIDE DEF no
    <2>3. [row EXCEPT !.current = no]
            = [status |-> row.status, slots |-> row.slots, off |-> row.off, current |-> no]
      BY <2>1
    <2>4. rows'[r] = [status |-> row.status, slots |-> row.slots, off |-> row.off,
                      current |-> FALSE]
      BY <2>2, <2>3, Zenon DEF no
    <2>5. /\ rows'[r].status = row.status /\ rows'[r].slots = row.slots
          /\ rows'[r].off = row.off /\ rows'[r].current = FALSE
      BY <2>4
    <2>6. rows'[r] = [status |-> rows'[r].status, slots |-> rows'[r].slots,
                      off |-> rows'[r].off, current |-> rows'[r].current]
      BY <2>4, <2>5, Zenon
    <2>. QED
      BY <1>4, <2>5, <2>6 DEF RowOK
  <1>6. ASSUME NEW i \in 1..Len(rows)
        PROVE  /\ RowOK(rows'[i])
               /\ rows'[i].slots = rows[i].slots
               /\ rows'[i].status = rows[i].status
               /\ rows'[i].off = rows[i].off
    BY <1>1, <1>3, <1>5 DEF RowsOK
  <1>7. /\ SameRecords /\ at' = at /\ msg' = msg /\ hand' = hand
        /\ raced' = [t \in Thread |-> raced[t] \/ at[t] # "idle"]
    BY <1>1, RecordsLeft DEF TimeOut
  <1>8. DataInv' /\ Len(rows') = Len(rows)
    BY <1>1, <1>3, <1>6, <1>7, Relabelled DEF Open
  <1>9. ASSUME NEW u \in Thread
        PROVE  ThreadOK(u)' /\ (~raced'[u] => Undisturbed(u)')
    <2>1. Bystander(u)
      BY <1>1, <1>7 DEF Bystander
    <2>. QED
      BY <1>1, <1>8, <2>1, BystanderOK
  <1>10. raced' \in [Thread -> BOOLEAN]
    BY <1>1, <1>7 DEF ThreadsOK
  <1>. QED
    BY <1>1, <1>6, <1>7, <1>8, <1>9, <1>10 DEF IInv, ThreadsOK

LEMMA CrashStep ==
    ASSUME IInv, Crash
    PROVE  IInv'
  <1>1. DataInv /\ ThreadsOK /\ RowsOK /\ Len(rows) \in Nat
    BY DEF IInv, DataInv, RowsOK, IsList
  <1>2. /\ rows' = rows /\ SameRecords /\ msg' = msg /\ raced' = raced
        /\ at' = [t \in Thread |-> "idle"] /\ hand' = [t \in Thread |-> NoHand]
    BY <1>1, RecordsLeft DEF Crash
  <1>3. DataInv'
    BY <1>1, <1>2, RowsLeft
  <1>4. HandOK(NoHand)'
    BY <1>1, <1>2, NoHandOK DEF HandOK, NoHand
  <1>5. ASSUME NEW t \in Thread
        PROVE  ThreadOK(t)' /\ Undisturbed(t)'
    <2>1. at'[t] = "idle" /\ hand'[t] = NoHand
      BY <1>2
    <2>. QED
      BY <1>4, <2>1 DEF ThreadOK, Undisturbed
  <1>6. at' \in [Thread -> Labels]
    BY <1>2 DEF Labels
  <1>. QED
    BY <1>1, <1>2, <1>3, <1>5, <1>6 DEF IInv, ThreadsOK

-----------------------------------------------------------------------------
(* The invariant, and what every step does to the rows that are there.     *)

\* Steps that write no row.
LEMMA QuietActions ==
    ASSUME NEW t \in Thread,
           \/ ReadActive(t) \/ InsertRefused(t) \/ RecordNothing(t) \/ ReplyOnly(t)
           \/ ReplyCompletes(t) \/ ReplyNudges(t) \/ AfterReplyRaises(t)
    PROVE  rows' = rows
  BY DEF ReadActive, InsertRefused, RecordNothing, ReplyOnly, ReplyCompletes, ReplyNudges,
         AfterReplyRaises

\* Begin closes rows only.
LEMMA BeginCloses ==
    ASSUME IInv, NEW t \in Thread, Begin(t)
    PROVE  \A i \in DOMAIN rows : rows'[i].status = "in_progress" => Open(i)
  <1>. SUFFICES ASSUME NEW i \in DOMAIN rows
                PROVE  rows'[i].status = "in_progress" => Open(i)
    OBVIOUS
  <1>1. RowOK(rows[i])
    BY DEF IInv, DataInv, RowsOK
  <1>2. CASE Open(i) /\ ~rows[i].current
    <2>1. rows'[i] = [rows[i] EXCEPT !.status = "expired"]
      BY <1>2 DEF Begin
    <2>. QED
      BY <1>1, <1>2, <2>1, SetStatus
  <1>3. CASE ~(Open(i) /\ ~rows[i].current)
    BY <1>3 DEF Begin, Open
  <1>. QED
    BY <1>2, <1>3

\* No row that is there is opened.
OldRowsKeep == \A i \in DOMAIN rows : ~Open(i) => rows'[i].status # "in_progress"

LEMMA StepKeeps ==
    ASSUME IInv, [Next]_vars
    PROVE  IInv' /\ OldRowsKeep
  <1>1. ASSUME NEW t \in Thread, Step(t)
        PROVE  IInv' /\ OldRowsKeep
    <2>1. CASE Begin(t)
      BY <2>1, BeginStep, BeginCloses DEF OldRowsKeep
    <2>2. CASE ReadActive(t)
      BY <2>2, ReadActiveStep, QuietActions DEF OldRowsKeep, Open
    <2>3. CASE Create(t)
      BY <2>3, CreateStep DEF OldRowsKeep, Open
    <2>4. CASE Supersede(t)
      BY <2>4, SupersedeStep DEF OldRowsKeep, Open
    <2>5. CASE InsertRefused(t)
      BY <2>5, InsertRefusedStep, QuietActions DEF OldRowsKeep, Open
    <2>6. CASE Update(t)
      BY <2>6, UpdateStep DEF OldRowsKeep, Open
    <2>7. CASE RecordNothing(t)
      BY <2>7, RecordNothingStep, QuietActions DEF OldRowsKeep, Open
    <2>8. CASE ReplyOnly(t) \/ AfterReplyRaises(t)
      BY <2>8, LeaveStep, QuietActions DEF OldRowsKeep, Open
    <2>9. CASE ReplyCompletes(t) \/ ReplyNudges(t)
      BY <2>9, ReplyStep, QuietActions DEF OldRowsKeep, Open
    <2>10. CASE MarkCompleted(t) \/ ClearOff(t)
      BY <2>10, AfterReplyStep DEF OldRowsKeep, Open
    <2>. QED
      BY <1>1, <2>1, <2>2, <2>3, <2>4, <2>5, <2>6, <2>7, <2>8, <2>9, <2>10 DEF Step
  <1>2. CASE TimeOut
    BY <1>2, TimeOutStep DEF OldRowsKeep, Open
  <1>3. CASE Crash
    <2>1. rows' = rows
      BY <1>3 DEF Crash
    <2>. QED
      BY <1>3, <2>1, CrashStep DEF OldRowsKeep, Open
  <1>4. CASE UNCHANGED vars
    <2>1. rows' = rows
      BY <1>4 DEF vars
    <2>2. OldRowsKeep
      BY <2>1 DEF OldRowsKeep, Open
    <2>3. DataInv'
      BY <1>4, RecordsLeft, RowsLeft DEF vars, IInv, DataInv
    <2>4. ThreadsOK'
      BY <1>4 DEF vars, IInv, ThreadsOK, ThreadOK, HandOK, Undisturbed, HandAgrees, Open,
                  NothingDue
    <2>. QED
      BY <2>2, <2>3, <2>4 DEF IInv
  <1>. QED
    BY <1>1, <1>2, <1>3, <1>4 DEF Next

\* The inductive invariant holds throughout.
THEOREM Invariance == Spec => []IInv
  BY InitIInv, StepKeeps, PTL DEF Spec

-----------------------------------------------------------------------------
(* What it establishes.                                                    *)

\* Rows, hands and threads have their types, and a customer has at most one
\* conversation in progress.
THEOREM StateTypesHold == Spec => []StateTypeOK
  <1>1. IInv => StateTypeOK
    <2>. SUFFICES ASSUME IInv
                  PROVE  StateTypeOK
      OBVIOUS
    <2>1. RowsOK /\ OneOpen /\ ThreadsOK
      BY DEF IInv, DataInv
    <2>2. DOMAIN stated = DOMAIN rows
      BY <2>1, RowsDomain
    <2>. QED
      BY <2>1, <2>2 DEF StateTypeOK, RowsOK, RowOK, OneOpen, ThreadsOK, Labels, ThreadOK, HandOK
  <1>. QED
    BY Invariance, <1>1, PTL

\* The row an undisturbed thread replies from, and completes or clears by its id
\* after the reply, is the row in the table, open, with the slots and the flag
\* that _merge_row computed in Python.
THEOREM HandStaysRow == Spec => []HandIsRow
  <1>1. IInv => HandIsRow
    BY DEF IInv, ThreadsOK, HandIsRow, Undisturbed, HandAgrees
  <1>. QED
    BY Invariance, <1>1, PTL

\* Only a thread that was raced has its insert refused.
THEOREM RefusalsAreRaces == Spec => []RefusedOnlyInRace
  <1>1. IInv => RefusedOnlyInRace
    BY DEF IInv, ThreadsOK, RefusedOnlyInRace, Undisturbed
  <1>. QED
    BY Invariance, <1>1, PTL

\* Each slot of a row is the last word on it among the messages recorded in that
\* row, and nothing one of them stated is missing: no interleaving of update_slots
\* loses an update.
THEOREM RowsAreTheirMessages == Spec => []RowIsItsMessages
  <1>1. IInv => RowIsItsMessages
    BY DEF IInv, DataInv
  <1>. QED
    BY Invariance, <1>1, PTL

\* No conversation that ended is opened again.
THEOREM EndedConversationsStay == Spec => EndedStaysEnded
  <1>1. IInv /\ [Next]_vars
          => [\A i \in DOMAIN rows : ~Open(i) => rows'[i].status # "in_progress"]_vars
    BY StepKeeps DEF OldRowsKeep
  <1>. QED
    BY Invariance, <1>1, PTL DEF Spec, EndedStaysEnded

\* A row with something said while off that no nudge has shown is flagged, but
\* for what a raced thread cleared.
THEOREM DueNudgesAreFlagged == Spec => []DueNudgeIsFlagged
  <1>1. IInv => DueNudgeIsFlagged
    BY DEF IInv, DataInv
  <1>. QED
    BY Invariance, <1>1, PTL
=============================================================================
