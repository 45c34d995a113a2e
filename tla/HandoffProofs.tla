--------------------------- MODULE HandoffProofs ---------------------------
(***************************************************************************)
(* That whoever wrote lately can be handed over by a command, and that a   *)
(* number picks the customer it was shown for, for any customers, names    *)
(* and commands.  The invariant says what the tables hold and that a list  *)
(* the owner saw, or is about to see, is the one a look-up would make now. *)
(***************************************************************************)
EXTENDS Handoff, FiniteSetTheorems, SequenceTheorems, TLAPS

-----------------------------------------------------------------------------
(* The places of a set, counted from the front.                            *)

UpTo(S, i) == {j \in S : j <= i}

LEMMA UpToIs ==
    ASSUME NEW S \in SUBSET Nat, IsFiniteSet(S), NEW i \in Nat
    PROVE  /\ IsFiniteSet(UpTo(S, i)) /\ Cardinality(UpTo(S, i)) \in Nat
           /\ Cardinality(UpTo(S, i)) <= Cardinality(S)
           /\ i \in S => Cardinality(UpTo(S, i)) >= 1
  <1>1. UpTo(S, i) \in SUBSET S
    BY DEF UpTo
  <1>2. IsFiniteSet(UpTo(S, i)) /\ Cardinality(UpTo(S, i)) <= Cardinality(S)
    BY <1>1, FS_Subset
  <1>3. Cardinality(UpTo(S, i)) \in Nat
    BY <1>2, FS_CardinalityType
  <1>4. ASSUME i \in S
        PROVE  Cardinality(UpTo(S, i)) # 0
    <2>1. i \in UpTo(S, i)
      BY <1>4 DEF UpTo
    <2>. QED
      BY <1>2, <2>1, FS_EmptySet
  <1>. QED
    BY <1>2, <1>3, <1>4

\* Of two places the one behind counts more.
LEMMA CountGrows ==
    ASSUME NEW S \in SUBSET Nat, IsFiniteSet(S), NEW i \in S, NEW j \in S, i < j
    PROVE  Cardinality(UpTo(S, i)) < Cardinality(UpTo(S, j))
  <1>0. i \in Nat /\ j \in Nat /\ \A n \in S : n \in Nat
    OBVIOUS
  <1>1. \A n \in S : n <= i => n <= j
    BY <1>0
  <1>2. UpTo(S, i) \in SUBSET UpTo(S, j)
    BY <1>1 DEF UpTo
  <1>3. j \in UpTo(S, j) /\ j \notin UpTo(S, i)
    BY <1>0 DEF UpTo
  <1>4. /\ IsFiniteSet(UpTo(S, j)) /\ Cardinality(UpTo(S, i)) \in Nat
        /\ Cardinality(UpTo(S, j)) \in Nat
    BY <1>0, UpToIs
  <1>5. Cardinality(UpTo(S, i)) <= Cardinality(UpTo(S, j))
    BY <1>2, <1>4, FS_Subset
  <1>6. Cardinality(UpTo(S, j)) # Cardinality(UpTo(S, i))
    BY <1>2, <1>3, <1>4, FS_Subset
  <1>. QED
    BY <1>4, <1>5, <1>6

\* Every number up to that of the places is that of one place.
LEMMA PlaceIs ==
    ASSUME NEW S \in SUBSET Nat, IsFiniteSet(S), NEW k \in 1..Cardinality(S)
    PROVE  Place(S, k) \in S /\ Cardinality(UpTo(S, Place(S, k))) = k
  <1>. DEFINE n == Cardinality(S)
              f == [i \in S |-> Cardinality(UpTo(S, i))]
  <1>0. n \in Nat /\ \A i \in S : i \in Nat
    BY FS_CardinalityType
  <1>. HIDE DEF n
  <1>1. f \in [S -> 1..n]
    <2>1. \A i \in S : Cardinality(UpTo(S, i)) \in 1..n
      BY <1>0, UpToIs DEF n
    <2>. QED
      BY <2>1
  <1>2. ASSUME NEW i \in S, NEW j \in S, f[i] = f[j]
        PROVE  i = j
    <2>1. CASE i < j
      BY <1>0, <1>2, <2>1, CountGrows, UpToIs
    <2>2. CASE j < i
      BY <1>0, <1>2, <2>2, CountGrows, UpToIs
    <2>. QED
      BY <1>0, <2>1, <2>2
  <1>3. f \in Injection(S, 1..n)
    <2>. HIDE DEF f
    <2>. QED
      BY <1>1, <1>2 DEF Injection, IsInjective
  <1>4. IsFiniteSet(1..n) /\ Cardinality(1..n) = n
    BY <1>0, FS_Interval
  <1>5. f \in Surjection(S, 1..n)
    <2>1. Cardinality(S) = Cardinality(1..n)
      BY <1>4 DEF n
    <2>. HIDE DEF f
    <2>. QED
      BY <1>3, <1>4, <2>1, FS_Injection
  <1>6. PICK i \in S : f[i] = k
    BY <1>5 DEF Surjection, n
  <1>7. Cardinality({j \in S : j <= i}) = k
    BY <1>6 DEF UpTo
  <1>. QED
    BY <1>7 DEF Place, UpTo

LEMMA PlaceOf ==
    ASSUME NEW S \in SUBSET Nat, IsFiniteSet(S), NEW i \in S,
           NEW k, k = Cardinality(UpTo(S, i))
    PROVE  k \in 1..Cardinality(S) /\ Place(S, k) = i
  <1>0. i \in Nat /\ \A j \in S : j \in Nat
    OBVIOUS
  <1>1. k \in 1..Cardinality(S)
    BY <1>0, UpToIs, FS_CardinalityType
  <1>. DEFINE p == Place(S, k)
  <1>2. p \in S /\ Cardinality(UpTo(S, p)) = k
    BY <1>1, PlaceIs
  <1>. HIDE DEF p
  <1>3. ~(p < i) /\ ~(i < p)
    BY <1>0, <1>2, CountGrows, UpToIs
  <1>4. p = i
    BY <1>0, <1>2, <1>3
  <1>. QED
    BY <1>1, <1>4 DEF p

\* A set of places that is moved in order keeps its count.
LEMMA Moved ==
    ASSUME NEW S \in SUBSET Nat, IsFiniteSet(S), NEW T, NEW g \in [S -> Nat],
           T = {g[i] : i \in S}, \A i, j \in S : i < j => g[i] < g[j]
    PROVE  /\ T \in SUBSET Nat /\ IsFiniteSet(T) /\ Cardinality(T) = Cardinality(S)
           /\ \A k \in 1..Cardinality(S) : Place(T, k) = g[Place(S, k)]
  <1>0. T \in SUBSET Nat /\ \A i \in S : i \in Nat /\ g[i] \in Nat
    OBVIOUS
  <1>1. \A i, j \in S : g[i] = g[j] => i = j
    BY <1>0
  <1>2. ASSUME NEW A \in SUBSET S, NEW B, B = {g[i] : i \in A}
        PROVE  IsFiniteSet(B) /\ Cardinality(B) = Cardinality(A)
    <2>. DEFINE h == [i \in A |-> g[i]]
    <2>0. \A i, j \in A : h[i] = h[j] => i = j
      BY <1>1
    <2>1. h \in [A -> B] /\ \A b \in B : \E i \in A : h[i] = b
      BY <1>2
    <2>2. h \in Bijection(A, B)
      <3>. HIDE DEF h
      <3>. QED
        BY <2>0, <2>1 DEF Bijection, Injection, IsInjective, Surjection
    <2>3. ExistsBijection(A, B)
      BY <2>2 DEF ExistsBijection
    <2>. QED
      BY <2>3, FS_Subset, FS_Bijection
  <1>3. IsFiniteSet(T) /\ Cardinality(T) = Cardinality(S)
    BY <1>2
  <1>4. ASSUME NEW i \in S
        PROVE  Cardinality(UpTo(T, g[i])) = Cardinality(UpTo(S, i))
    <2>1. \A j \in S : g[j] <= g[i] <=> j <= i
      BY <1>0
    <2>2. UpTo(T, g[i]) = {g[j] : j \in UpTo(S, i)}
      BY <2>1 DEF UpTo
    <2>3. UpTo(S, i) \in SUBSET S
      BY DEF UpTo
    <2>. QED
      BY <1>2, <2>2, <2>3
  <1>5. ASSUME NEW k \in 1..Cardinality(S)
        PROVE  Place(T, k) = g[Place(S, k)]
    <2>. DEFINE i == Place(S, k)
    <2>1. i \in S /\ Cardinality(UpTo(S, i)) = k
      BY PlaceIs
    <2>. HIDE DEF i
    <2>2. g[i] \in T /\ Cardinality(UpTo(T, g[i])) = k
      BY <1>4, <2>1
    <2>3. Place(T, k) = g[i]
      BY <1>0, <1>3, <2>2, PlaceOf
    <2>. QED
      BY <2>3 DEF i
  <1>. QED
    BY <1>0, <1>3, <1>5

-----------------------------------------------------------------------------
(* The rows, and what a message does to them.                              *)

Row == [customer : Customer, name : Name]

HTypes ==
    /\ called \in [Customer -> Name]
    /\ rows \in Seq(Row)
    /\ \A i, j \in DOMAIN rows : rows[i] = rows[j] => i = j
    /\ fresh \in Nat /\ fresh <= Len(rows)
    /\ command \in Seq(Word)

LEMMA RowsAre ==
    ASSUME HTypes
    PROVE  /\ Len(rows) \in Nat /\ DOMAIN rows = 1..Len(rows)
           /\ \A i \in DOMAIN rows : /\ i \in Nat /\ rows[i] \in Row
                                     /\ rows[i].customer \in Customer /\ rows[i].name \in Name
           /\ fresh \in Nat /\ 1..fresh \subseteq DOMAIN rows
  <1>1. \A r \in Row : r.customer \in Customer /\ r.name \in Name
    BY DEF Row
  <1>2. Len(rows) \in Nat /\ DOMAIN rows = 1..Len(rows) /\ \A i \in DOMAIN rows : rows[i] \in Row
    BY DEF HTypes
  <1>3. fresh \in Nat /\ 1..fresh \subseteq DOMAIN rows
    BY <1>2 DEF HTypes
  <1>. QED
    BY <1>1, <1>2, <1>3

\* A row that comes to the front, and how far the others move.
Shifts(row, p, new) ==
    /\ p \in DOMAIN rows => rows[p] = row
    /\ p \notin DOMAIN rows => p = Len(rows) + 1 /\ \A i \in DOMAIN rows : rows[i] # row
    /\ DOMAIN new = DOMAIN rows \cup {p}
    /\ \A i \in DOMAIN new :
          new[i] = IF i = 1 THEN row ELSE IF i <= p THEN rows[i - 1] ELSE rows[i]

LEMMA ToFrontShifts ==
    ASSUME HTypes, NEW row, NEW new, new = ToFront(row)
    PROVE  \E p \in 1..(Len(rows) + 1) :
              /\ new = [i \in DOMAIN rows \cup {p} |->
                           IF i = 1 THEN row ELSE IF i <= p THEN rows[i - 1] ELSE rows[i]]
              /\ Shifts(row, p, new)
  <1>. DEFINE old == {i \in DOMAIN rows : rows[i] = row}
              p == IF old = {} THEN Len(rows) + 1 ELSE CHOOSE i \in old : TRUE
  <1>1. new = [i \in DOMAIN rows \cup {p} |->
                  IF i = 1 THEN row ELSE IF i <= p THEN rows[i - 1] ELSE rows[i]]
    BY DEF ToFront
  <1>2. /\ p \in 1..(Len(rows) + 1)
        /\ p \in DOMAIN rows => rows[p] = row
        /\ p \notin DOMAIN rows => p = Len(rows) + 1 /\ \A i \in DOMAIN rows : rows[i] # row
    <2>1. CASE old = {}
      BY <2>1, RowsAre
    <2>2. CASE old # {}
      <3>1. p \in old
        BY <2>2
      <3>. HIDE DEF p
      <3>. QED
        BY <3>1, RowsAre
    <2>. QED
      BY <2>1, <2>2
  <1>. HIDE DEF p
  <1>. QED
    BY <1>1, <1>2 DEF Shifts

\* The rows are rows again, each there once.
LEMMA RowsStayRows ==
    ASSUME HTypes, NEW row \in Row, NEW new, new = ToFront(row)
    PROVE  /\ new \in Seq(Row)
           /\ \A i, j \in DOMAIN new : new[i] = new[j] => i = j
           /\ Len(new) >= Len(rows) /\ Len(new) \in Nat
           /\ row \notin {rows[i] : i \in 1..fresh} => Len(new) >= fresh + 1
  <1>. DEFINE n == Len(rows)
  <1>0. n \in Nat /\ DOMAIN rows = 1..n /\ fresh <= n /\ fresh \in Nat
    BY RowsAre DEF HTypes
  <1>1. PICK p \in 1..(n + 1) :
          /\ new = [i \in DOMAIN rows \cup {p} |->
                       IF i = 1 THEN row ELSE IF i <= p THEN rows[i - 1] ELSE rows[i]]
          /\ Shifts(row, p, new)
    BY ToFrontShifts
  <1>. DEFINE m == IF p = n + 1 THEN n + 1 ELSE n
  <1>2. m \in Nat /\ n <= m /\ DOMAIN new = 1..m /\ p \in 1..m
    BY <1>0, <1>1 DEF Shifts
  <1>. HIDE DEF n, m
  <1>3. ASSUME NEW i \in 1..m
        PROVE  /\ i = 1 => new[i] = row
               /\ i # 1 /\ i <= p => /\ i - 1 \in DOMAIN rows /\ i - 1 # p
                                     /\ new[i] = rows[i - 1]
               /\ i # 1 /\ ~(i <= p) => i \in DOMAIN rows /\ i # p /\ new[i] = rows[i]
    BY <1>0, <1>1, <1>2 DEF Shifts, m
  <1>4. \A i \in DOMAIN rows : i # p => rows[i] # row
    BY <1>1 DEF Shifts, HTypes
  <1>5. \A i \in 1..m : new[i] \in Row
    BY <1>3, RowsAre
  <1>6. new = [i \in 1..m |-> new[i]]
    BY <1>1, <1>2
  <1>7. new \in [1..m -> Row]
    BY <1>5, <1>6
  <1>8. new \in Seq(Row) /\ Len(new) = m
    BY <1>2, <1>7
  <1>9. ASSUME NEW i \in 1..m, NEW j \in 1..m, i # j
        PROVE  new[i] # new[j]
    <2>1. CASE i = 1 \/ j = 1
      BY <1>3, <1>4, <1>9, <2>1
    <2>2. CASE i # 1 /\ j # 1
      <3>. DEFINE s(k) == IF k <= p THEN k - 1 ELSE k
      <3>1. /\ s(i) \in DOMAIN rows /\ s(j) \in DOMAIN rows
            /\ new[i] = rows[s(i)] /\ new[j] = rows[s(j)]
            /\ s(i) # p /\ s(j) # p
        BY <1>3, <2>2
      <3>2. s(i) # s(j)
        BY <1>2, <1>9, <2>2, <3>1
      <3>. HIDE DEF s
      <3>. QED
        BY <3>1, <3>2 DEF HTypes
    <2>. QED
      BY <2>1, <2>2
  <1>10. ASSUME row \notin {rows[i] : i \in 1..fresh}
         PROVE  m >= fresh + 1
    <2>1. p \notin 1..fresh
      BY <1>0, <1>1, <1>10, RowsAre DEF Shifts
    <2>. QED
      BY <1>0, <1>2, <2>1 DEF m
  <1>. QED
    BY <1>0, <1>2, <1>8, <1>9, <1>10 DEF n

-----------------------------------------------------------------------------
(* The customers of a name.                                                *)

LEMMA BearersAre ==
    ASSUME HTypes, NEW name
    PROVE  /\ Bearers(name) \in SUBSET Nat /\ IsFiniteSet(Bearers(name))
           /\ Recent(name) \in SUBSET Bearers(name)
           /\ Recent(name) \in SUBSET Nat /\ IsFiniteSet(Recent(name))
           /\ Cardinality(Bearers(name)) \in Nat /\ Cardinality(Recent(name)) \in Nat
           /\ Cardinality(Recent(name)) <= Cardinality(Bearers(name))
  <1>1. Bearers(name) \in SUBSET (1..Len(rows)) /\ Recent(name) \in SUBSET Bearers(name)
    BY RowsAre DEF Bearers, Recent
  <1>2. IsFiniteSet(1..Len(rows)) /\ 1..Len(rows) \in SUBSET Nat
    BY RowsAre, FS_Interval
  <1>3. IsFiniteSet(Bearers(name))
    BY <1>1, <1>2, FS_Subset
  <1>4. IsFiniteSet(Recent(name)) /\ Cardinality(Recent(name)) <= Cardinality(Bearers(name))
    BY <1>1, <1>3, FS_Subset
  <1>. QED
    BY <1>1, <1>2, <1>3, <1>4, FS_CardinalityType

LEMMA CandidatesAre ==
    ASSUME HTypes, NEW name
    PROVE  /\ Candidates(name) \in Seq(Customer)
           /\ Len(Candidates(name)) = Cardinality(Bearers(name))
           /\ DOMAIN Candidates(name) = 1..Cardinality(Bearers(name))
           /\ \A k \in 1..Cardinality(Bearers(name)) :
                 Candidates(name)[k] = rows[Place(Bearers(name), k)].customer
           /\ IsAmbiguous(name) => Len(Candidates(name)) > 1
  <1>. DEFINE n == Cardinality(Bearers(name))
              c == [k \in 1..n |-> rows[Place(Bearers(name), k)].customer]
  <1>1. Candidates(name) = c
    BY DEF Candidates
  <1>2. n \in Nat /\ Cardinality(Recent(name)) \in Nat /\ Cardinality(Recent(name)) <= n
    BY BearersAre
  <1>3. \A k \in 1..n : rows[Place(Bearers(name), k)].customer \in Customer
    <2>1. \A k \in 1..n : Place(Bearers(name), k) \in Bearers(name)
      BY BearersAre, PlaceIs
    <2>. QED
      BY <2>1, RowsAre DEF Bearers
  <1>. HIDE DEF n
  <1>4. c \in [1..n -> Customer] /\ \A k \in 1..n : c[k] = rows[Place(Bearers(name), k)].customer
    BY <1>3
  <1>. HIDE DEF c
  <1>5. c \in Seq(Customer) /\ Len(c) = n /\ DOMAIN c = 1..n
    BY <1>2, <1>4
  <1>6. IsAmbiguous(name) => n > 1
    BY <1>2 DEF IsAmbiguous
  <1>. QED
    BY <1>1, <1>4, <1>5, <1>6 DEF n

\* What does not change when the rows of a name do not change their order, nor
\* which of them are recent.
SameName(name) ==
    /\ Candidates(name)' = Candidates(name)
    /\ IsAmbiguous(name)' = IsAmbiguous(name)

\* A message of somebody else.
LEMMA OthersMessage ==
    ASSUME HTypes, NEW c \in Customer, Message(c), NEW name, name # called[c]
    PROVE  SameName(name)
  <1>. DEFINE row == [customer |-> c, name |-> called[c]]
              n == Len(rows)
              S == Bearers(name)
              R == Recent(name)
  <1>0. row.name = called[c] /\ row.name # name
    OBVIOUS
  <1>1. /\ rows' = ToFront(row)
        /\ fresh' = IF row \in {rows[i] : i \in 1..fresh} THEN fresh ELSE fresh + 1
    BY DEF Message
  <1>. HIDE DEF row
  <1>2. n \in Nat /\ DOMAIN rows = 1..n /\ fresh \in Nat /\ fresh <= n
    BY RowsAre DEF HTypes
  <1>3. PICK p \in 1..(n + 1) : Shifts(row, p, rows')
    BY <1>1, ToFrontShifts
  <1>. HIDE DEF n
  <1>4. fresh' = IF p <= fresh THEN fresh ELSE fresh + 1
    <2>1. CASE p <= fresh
      <3>1. p \in 1..fresh /\ rows[p] = row
        BY <1>2, <1>3, <2>1 DEF Shifts
      <3>. QED
        BY <1>1, <2>1, <3>1
    <2>2. CASE ~(p <= fresh)
      <3>1. ASSUME NEW i \in 1..fresh
            PROVE  rows[i] # row
        <4>1. i \in DOMAIN rows /\ i # p
          BY <1>2, <2>2
        <4>. QED
          BY <1>3, <4>1 DEF Shifts, HTypes
      <3>. QED
        BY <1>1, <2>2, <3>1
    <2>. QED
      BY <2>1, <2>2
  <1>. DEFINE to(i) == IF i < p THEN i + 1 ELSE i
  <1>5. ASSUME NEW i \in DOMAIN rows, i # p
        PROVE  /\ to(i) \in DOMAIN rows' /\ rows'[to(i)] = rows[i] /\ to(i) \in Nat
               /\ to(i) <= fresh' <=> i <= fresh
    <2>1. i \in Nat /\ p \in Nat /\ to(i) \in DOMAIN rows'
      BY <1>2, <1>3, <1>5 DEF Shifts
    <2>2. rows'[to(i)] = rows[i]
      BY <1>2, <1>3, <1>5, <2>1 DEF Shifts
    <2>3. to(i) <= fresh' <=> i <= fresh
      BY <1>2, <1>4, <1>5, <2>1
    <2>. QED
      BY <2>1, <2>2, <2>3
  <1>6. ASSUME NEW j \in DOMAIN rows', rows'[j].name = name
        PROVE  \E i \in S : j = to(i)
    <2>1. j # 1 /\ j \in Nat /\ p \in Nat
      BY <1>0, <1>2, <1>3, <1>6 DEF Shifts
    <2>2. CASE j <= p
      <3>1. j - 1 \in DOMAIN rows /\ rows'[j] = rows[j - 1] /\ to(j - 1) = j
        BY <1>2, <1>3, <1>6, <2>1, <2>2 DEF Shifts
      <3>. QED
        BY <1>6, <3>1 DEF Bearers
    <2>3. CASE ~(j <= p)
      <3>1. j \in DOMAIN rows /\ rows'[j] = rows[j] /\ to(j) = j
        BY <1>2, <1>3, <1>6, <2>1, <2>3 DEF Shifts
      <3>. QED
        BY <1>6, <3>1 DEF Bearers
    <2>. QED
      BY <2>2, <2>3
  <1>7. \A i \in S : i \in DOMAIN rows /\ i # p /\ rows[i].name = name
    BY <1>0, <1>3 DEF Bearers, Shifts
  <1>8. \A i, j \in S : i < j => to(i) < to(j)
    <2>1. p \in Nat /\ \A i \in S : i \in Nat /\ i # p
      BY <1>2, <1>7
    <2>. HIDE DEF S
    <2>. QED
      BY <2>1
  <1>9. S' = {to(i) : i \in S}
    BY <1>5, <1>6, <1>7 DEF Bearers
  <1>10. R' = {to(i) : i \in R}
    <2>1. fresh' \in Nat /\ R = {i \in S : i <= fresh} /\ R' = {i \in S' : i <= fresh'}
      <3>1. DOMAIN rows = 1..Len(rows) /\ Len(rows) \in Nat
        BY RowsAre
      <3>2. PICK m \in Nat : DOMAIN rows' = 1..m /\ fresh' <= m /\ fresh' \in Nat
        <4>1. row \in Row
          BY DEF row, Row, HTypes
        <4>2. /\ rows' \in Seq(Row) /\ Len(rows') \in Nat /\ n <= Len(rows')
              /\ row \notin {rows[i] : i \in 1..fresh} => Len(rows') >= fresh + 1
          BY <1>1, <4>1, RowsStayRows DEF n
        <4>3. fresh' \in Nat /\ fresh' <= Len(rows')
          BY <1>1, <1>2, <4>2
        <4>4. DOMAIN rows' = 1..Len(rows')
          BY <4>2
        <4>. QED
          BY <4>2, <4>3, <4>4
      <3>3. R = {i \in S : i <= fresh}
        BY <1>2, <3>1 DEF Recent, Bearers, n
      <3>. QED
        BY <3>2, <3>3 DEF Recent, Bearers
    <2>2. \A i \in S : to(i) <= fresh' <=> i <= fresh
      BY <1>5, <1>7
    <2>. HIDE DEF to, S, R
    <2>. QED
      BY <1>9, <2>1, <2>2
  <1>. DEFINE g == [i \in S |-> to(i)]
              h == [i \in R |-> to(i)]
  <1>11. /\ S \in SUBSET Nat /\ IsFiniteSet(S) /\ R \in SUBSET S
         /\ R \in SUBSET Nat /\ IsFiniteSet(R)
    BY BearersAre
  <1>12. g \in [S -> Nat] /\ h \in [R -> Nat]
    BY <1>5, <1>7, <1>11
  <1>13. /\ Cardinality(S') = Cardinality(S)
         /\ \A k \in 1..Cardinality(S) : Place(S', k) = to(Place(S, k)) /\ Place(S, k) \in S
    <2>. HIDE DEF to, S
    <2>0. \A i \in S : g[i] = to(i)
      OBVIOUS
    <2>. HIDE DEF g
    <2>1. S' = {g[i] : i \in S} /\ \A i, j \in S : i < j => g[i] < g[j]
      BY <1>8, <1>9, <2>0
    <2>2. /\ Cardinality(S') = Cardinality(S)
          /\ \A k \in 1..Cardinality(S) : Place(S', k) = g[Place(S, k)]
      <3>1. S \in SUBSET Nat /\ IsFiniteSet(S) /\ g \in [S -> Nat]
        BY <1>11, <1>12
      <3>2. /\ S' = {g[i] : i \in S}
            /\ \A i, j \in S : i < j => g[i] < g[j]
        BY <2>1
      <3>. QED
        BY <3>1, <3>2, Moved
    <2>3. \A k \in 1..Cardinality(S) : Place(S, k) \in S
      BY <1>11, PlaceIs
    <2>. QED
      BY <2>0, <2>2, <2>3
  <1>14. Cardinality(R') = Cardinality(R)
    <2>. HIDE DEF to, S, R
    <2>0. \A i \in R : h[i] = to(i)
      OBVIOUS
    <2>. HIDE DEF h
    <2>1. R' = {h[i] : i \in R} /\ \A i, j \in R : i < j => h[i] < h[j]
      BY <1>8, <1>10, <1>11, <2>0
    <2>. QED
      BY <1>11, <1>12, <2>1, Moved
  <1>15. \A k \in 1..Cardinality(S) : rows'[Place(S', k)].customer = rows[Place(S, k)].customer
    BY <1>5, <1>7, <1>13
  <1>16. Candidates(name)' = Candidates(name)
    BY <1>13, <1>15 DEF Candidates
  <1>17. IsAmbiguous(name)' = IsAmbiguous(name)
    BY <1>14 DEF IsAmbiguous
  <1>. QED
    BY <1>16, <1>17 DEF SameName

\* A message of somebody else comes of age.
LEMMA OthersLapse ==
    ASSUME HTypes, Lapse, NEW name, name # rows[fresh].name
    PROVE  SameName(name)
  <1>1. rows' = rows /\ fresh' = fresh - 1 /\ fresh > 0 /\ fresh \in Nat
    BY DEF Lapse, HTypes
  <1>2. Recent(name)' = Recent(name)
    BY <1>1 DEF Recent
  <1>. QED
    BY <1>1, <1>2 DEF SameName, Candidates, Bearers, IsAmbiguous

-----------------------------------------------------------------------------
(* The list the owner was last shown, or is about to be.                   *)

Shown == IF at = "list" THEN answer ELSE listed

\* While nobody of its name stirs, it is what a look-up would find now.
ListIsTrue ==
    ~stirred /\ Shown # Nobody =>
        \A name \in {Shown.name} : IsAmbiguous(name) /\ Shown.customers = Candidates(name)

HInv == HTypes /\ ListIsTrue

LEMMA ListStaysTrue ==
    ASSUME HTypes, ListIsTrue, Shown' = Shown, ~stirred' => ~stirred,
           ~stirred' /\ Shown # Nobody => \A name \in {Shown.name} : SameName(name)
    PROVE  ListIsTrue'
  <1>1. SUFFICES ASSUME ~stirred', Shown' # Nobody
                 PROVE  \A name \in {Shown'.name} :
                            IsAmbiguous(name)' /\ Shown'.customers = Candidates(name)'
    BY DEF ListIsTrue, Nobody
  <1>2. TAKE name \in {Shown'.name}
  <1>3. SameName(name) /\ IsAmbiguous(name) /\ Shown.customers = Candidates(name)
    BY <1>1 DEF ListIsTrue
  <1>. QED
    BY <1>3 DEF SameName

\* The look-up of words by a name: what the invariant needs of it.
LEMMA FoundKeeps ==
    ASSUME HInv, at # "list", NEW name, NEW customers, Found(name, customers),
           Len(customers) \in Nat,
           Len(customers) > 1 => IsAmbiguous(name) /\ customers = Candidates(name)
    PROVE  ListIsTrue'
  <1>1. UNCHANGED <<called, rows, fresh, command, listed>>
    BY DEF Found, tables
  <1>2. answer' = [name |-> name, customers |-> customers]
    BY DEF Found
  <1>3. CASE Len(customers) > 1
    <2>1. at' = "list" /\ Shown' = answer'
      BY <1>3 DEF Found, Shown
    <2>2. IsAmbiguous(name)' /\ answer'.customers = Candidates(name)' /\ answer'.name = name
      BY <1>1, <1>2, <1>3 DEF IsAmbiguous, Recent, Candidates, Bearers
    <2>. QED
      BY <2>1, <2>2 DEF ListIsTrue
  <1>4. CASE Len(customers) <= 1
    <2>0. Len(customers) = 0 \/ Len(customers) = 1
      BY <1>4
    <2>4. stirred' = (stirred /\ Len(customers) <= 1)
      BY DEF Found
    <2>5. ~stirred' => ~stirred
      BY <1>4, <2>4
    <2>6. at' = "reply" \/ at' = "toggle"
      BY <2>0 DEF Found
    <2>1. at' # "list" /\ (~stirred' => ~stirred)
      BY <2>5, <2>6
    <2>3. Shown' = Shown
      BY <1>1, <2>1 DEF Shown
    <2>2. \A n : SameName(n)
      BY <1>1 DEF SameName, IsAmbiguous, Recent, Candidates, Bearers
    <2>. QED
      BY <2>1, <2>2, <2>3, ListStaysTrue DEF HInv
  <1>. QED
    BY <1>3, <1>4

\* A text keeps its length when it is brought into its normal form.
LEMMA NormalIs ==
    ASSUME NEW text \in Seq(Word)
    PROVE  /\ Normal(text) \in Seq(Word) /\ Len(Normal(text)) = Len(text)
           /\ \A i \in 1..Len(text) : Normal(text)[i] = Folded[text[i]]
  <1>1. DOMAIN text = 1..Len(text) /\ Len(text) \in Nat
    OBVIOUS
  <1>2. \A i \in 1..Len(text) : text[i] \in Word /\ Folded[text[i]] \in Word
    BY HandoffAssumption
  <1>. DEFINE n == [i \in 1..Len(text) |-> Folded[text[i]]]
  <1>3. Normal(text) = n
    BY <1>1 DEF Normal
  <1>4. n \in [1..Len(text) -> Word]
    BY <1>2
  <1>. HIDE DEF n
  <1>5. n \in Seq(Word) /\ Len(n) = Len(text)
    BY <1>1, <1>4
  <1>. QED
    BY <1>3, <1>5 DEF n

LEMMA TypesHold == HInv /\ [Next]_vars => HTypes'
  <1>. SUFFICES ASSUME HTypes, [Next]_vars
                PROVE  HTypes'
    BY DEF HInv
  <1>0. <<>> \in Seq(Word)
    OBVIOUS
  <1>1. CASE Write
    <2>1. PICK text \in Command : command' = Normal(text)
      BY <1>1 DEF Write
    <2>2. command' \in Seq(Word)
      BY <2>1, NormalIs, HandoffAssumption
    <2>3. UNCHANGED tables
      BY <1>1 DEF Write
    <2>. QED
      BY <2>2, <2>3 DEF HTypes, tables
  <1>2. CASE LookUpExact
    BY <1>2 DEF LookUpExact, Found, HTypes, tables
  <1>3. CASE LookUp
    BY <1>3 DEF LookUp, Found, HTypes, tables
  <1>4. CASE ToggleAndReply
    BY <1>0, <1>4 DEF ToggleAndReply, Rest, HTypes, tables
  <1>5. CASE ReplyList
    BY <1>0, <1>5 DEF ReplyList, Rest, HTypes, tables
  <1>6. ASSUME NEW c \in Customer, Message(c)
        PROVE  HTypes'
    <2>. DEFINE row == [customer |-> c, name |-> called[c]]
    <2>0. row \in Row
      BY DEF Row, HTypes
    <2>1. /\ rows' = ToFront(row) /\ UNCHANGED <<called, command>>
          /\ fresh' = IF row \in {rows[i] : i \in 1..fresh} THEN fresh ELSE fresh + 1
      BY <1>6 DEF Message
    <2>. HIDE DEF row
    <2>2. /\ rows' \in Seq(Row)
          /\ \A i, j \in DOMAIN rows' : rows'[i] = rows'[j] => i = j
          /\ Len(rows') >= Len(rows) /\ Len(rows') \in Nat
          /\ row \notin {rows[i] : i \in 1..fresh} => Len(rows') >= fresh + 1
      BY <2>0, <2>1, RowsStayRows
    <2>3. fresh \in Nat /\ fresh <= Len(rows) /\ Len(rows) \in Nat
      BY RowsAre DEF HTypes
    <2>4. fresh' \in Nat /\ fresh' <= Len(rows')
      BY <2>1, <2>2, <2>3
    <2>. QED
      BY <2>1, <2>2, <2>4 DEF HTypes
  <1>7. ASSUME NEW c \in Renamer, Rename(c)
        PROVE  HTypes'
    <2>1. PICK name \in Profile[c] : called' = [called EXCEPT ![c] = name]
      BY <1>7 DEF Rename
    <2>2. name \in Name
      BY HandoffAssumption DEF Name
    <2>3. called' \in [Customer -> Name] /\ UNCHANGED <<rows, fresh, command>>
      BY <1>7, <2>1, <2>2 DEF Rename, HTypes
    <2>. QED
      BY <2>3 DEF HTypes
  <1>8. CASE Lapse
    BY <1>8, RowsAre DEF Lapse, HTypes
  <1>9. CASE UNCHANGED vars
    BY <1>9 DEF vars, tables, HTypes
  <1>. QED
    BY <1>1, <1>2, <1>3, <1>4, <1>5, <1>6, <1>7, <1>8, <1>9 DEF Next

\* What the look-up finds for a name, and for a number behind it.
LEMMA PickIs ==
    ASSUME HTypes, NEW name, NEW words
    PROVE  /\ Len(Resolve(name)) \in Nat
           /\ Len(Pick(Resolve(name), words)) \in Nat
           /\ Len(Pick(Resolve(name), words)) > 1 =>
                 IsAmbiguous(name) /\ Pick(Resolve(name), words) = Candidates(name)
  <1>1. Candidates(name) \in Seq(Customer) /\ Len(Candidates(name)) \in Nat
    BY CandidatesAre
  <1>2. \/ IsAmbiguous(name) /\ Resolve(name) = Candidates(name)
        \/ Len(Resolve(name)) \in {0, 1}
    <2>1. Len(<<>>) = 0 /\ Len(<<Head(Candidates(name))>>) = 1
      OBVIOUS
    <2>. QED
      BY <2>1 DEF Resolve
  <1>3. \/ Pick(Resolve(name), words) = Resolve(name)
        \/ Len(Pick(Resolve(name), words)) = 1
    <2>1. Len(<<Resolve(name)[Number(words)]>>) = 1
      OBVIOUS
    <2>. QED
      BY <2>1 DEF Pick
  <1>4. Len(Resolve(name)) \in Nat /\ (Len(Resolve(name)) > 1 =>
           IsAmbiguous(name) /\ Resolve(name) = Candidates(name))
    <2>1. CASE IsAmbiguous(name) /\ Resolve(name) = Candidates(name)
      BY <1>1, <2>1
    <2>2. CASE Len(Resolve(name)) \in {0, 1}
      <3>. DEFINE n == Len(Resolve(name))
      <3>1. n \in {0, 1}
        BY <2>2
      <3>. HIDE DEF n
      <3>2. n \in Nat /\ ~(n > 1)
        BY <3>1
      <3>. QED
        BY <3>2 DEF n
    <2>. QED
      BY <1>2, <2>1, <2>2
  <1>5. CASE Pick(Resolve(name), words) = Resolve(name)
    BY <1>4, <1>5
  <1>6. CASE Len(Pick(Resolve(name), words)) = 1
    BY <1>4, <1>6
  <1>. QED
    BY <1>3, <1>5, <1>6

LEMMA ListHolds == HInv /\ [Next]_vars => ListIsTrue'
  <1>. SUFFICES ASSUME HInv, [Next]_vars
                PROVE  ListIsTrue'
    OBVIOUS
  <1>. USE DEF HInv
  <1>0. ASSUME UNCHANGED tables
        PROVE  \A name : SameName(name)
    BY <1>0 DEF tables, SameName, IsAmbiguous, Recent, Candidates, Bearers
  <1>1. CASE Write
    <2>1. Shown' = Shown /\ UNCHANGED <<tables, stirred>>
      BY <1>1 DEF Write, Shown
    <2>. QED
      BY <1>0, <2>1, ListStaysTrue
  <1>2. CASE LookUpExact
    <2>1. CASE Len(Resolve(command)) = 1
      <3>. DEFINE customers == Resolve(command)
      <3>1. Found(command, customers) /\ at # "list"
        BY <1>2, <2>1 DEF LookUpExact
      <3>2. Len(customers) \in Nat /\ ~(Len(customers) > 1)
        BY <2>1
      <3>. HIDE DEF customers
      <3>. QED
        BY <3>1, <3>2, FoundKeeps
    <2>2. CASE Len(Resolve(command)) # 1
      <3>1. Shown' = Shown /\ UNCHANGED <<tables, stirred>>
        BY <1>2, <2>2 DEF LookUpExact, Shown
      <3>. QED
        BY <1>0, <3>1, ListStaysTrue
    <2>. QED
      BY <2>1, <2>2
  <1>3. CASE LookUp
    <2>. DEFINE name == Plain(command)
                customers == Pick(Resolve(name), command)
    <2>1. Found(name, customers) /\ at # "list"
      BY <1>3 DEF LookUp
    <2>2. /\ Len(customers) \in Nat
          /\ Len(customers) > 1 => IsAmbiguous(name) /\ customers = Candidates(name)
      BY PickIs
    <2>. HIDE DEF name, customers
    <2>. QED
      BY <2>1, <2>2, FoundKeeps
  <1>4. CASE ToggleAndReply
    <2>1. Shown' = Shown /\ UNCHANGED <<tables, stirred>>
      BY <1>4 DEF ToggleAndReply, Rest, Shown
    <2>. QED
      BY <1>0, <2>1, ListStaysTrue
  <1>5. CASE ReplyList
    <2>1. /\ UNCHANGED tables /\ Shown = answer /\ Shown' = listed'
          /\ listed' \in {answer, Nobody} /\ stirred' = (stirred /\ listed' # Nobody)
      BY <1>5 DEF ReplyList, Rest, Shown
    <2>2. CASE listed' = Nobody
      BY <2>1, <2>2 DEF ListIsTrue, Nobody
    <2>3. CASE listed' # Nobody
      <3>1. Shown' = Shown /\ (~stirred' => ~stirred)
        BY <2>1, <2>3
      <3>. QED
        BY <1>0, <2>1, <3>1, ListStaysTrue
    <2>. QED
      BY <2>2, <2>3
  <1>6. ASSUME NEW c \in Customer, Message(c)
        PROVE  ListIsTrue'
    <2>1. Shown' = Shown
      BY <1>6 DEF Message, Shown
    <2>2. stirred' = (stirred \/ (Shown # Nobody /\ Shown.name = called[c]))
      BY <1>6 DEF Message, Stir, Shown
    <2>3. ~stirred' /\ Shown # Nobody => \A name \in {Shown.name} : SameName(name)
      BY <1>6, <2>2, OthersMessage
    <2>. QED
      BY <2>1, <2>2, <2>3, ListStaysTrue
  <1>7. ASSUME NEW c \in Renamer, Rename(c)
        PROVE  ListIsTrue'
    <2>1. Shown' = Shown /\ UNCHANGED <<rows, fresh, stirred>>
      BY <1>7 DEF Rename, Shown
    <2>2. \A name : SameName(name)
      BY <2>1 DEF SameName, IsAmbiguous, Recent, Candidates, Bearers
    <2>. QED
      BY <2>1, <2>2, ListStaysTrue
  <1>8. CASE Lapse
    <2>1. Shown' = Shown
      BY <1>8 DEF Lapse, Shown
    <2>2. stirred' = (stirred \/ (Shown # Nobody /\ Shown.name = rows[fresh].name))
      BY <1>8 DEF Lapse, Stir, Shown
    <2>3. ~stirred' /\ Shown # Nobody => \A name \in {Shown.name} : SameName(name)
      BY <1>8, <2>2, OthersLapse
    <2>. QED
      BY <2>1, <2>2, <2>3, ListStaysTrue
  <1>9. CASE UNCHANGED vars
    <2>1. Shown' = Shown /\ UNCHANGED <<tables, stirred>>
      BY <1>9 DEF vars, Shown
    <2>. QED
      BY <1>0, <2>1, ListStaysTrue
  <1>. QED
    BY <1>1, <1>2, <1>3, <1>4, <1>5, <1>6, <1>7, <1>8, <1>9 DEF Next

LEMMA HInvHolds == Spec => []HInv
  <1>1. Init => HInv
    <2>1. <<>> \in Seq(Row) /\ Len(<<>>) = 0 /\ <<>> \in Seq(Word) /\ DOMAIN <<>> = {}
      OBVIOUS
    <2>2. Init => HTypes
      BY <2>1 DEF Init, HTypes
    <2>3. Init => ListIsTrue
      BY DEF Init, ListIsTrue, Shown
    <2>. QED
      BY <2>2, <2>3 DEF HInv
  <1>2. HInv /\ [Next]_vars => HInv'
    BY TypesHold, ListHolds DEF HInv
  <1>. QED
    BY <1>1, <1>2, PTL DEF Spec

-----------------------------------------------------------------------------
(* The theorems.                                                           *)

LEMMA FrontIsShorter ==
    ASSUME NEW s \in Seq(Word), s # <<>>
    PROVE  Front(s) # s
  <1>1. Len(s) \in Nat /\ Len(s) >= 1
    OBVIOUS
  <1>. DEFINE n == Len(s) - 1
  <1>2. n \in 0..Len(s) /\ n # Len(s)
    BY <1>1
  <1>. HIDE DEF n
  <1>3. Len(SubSeq(s, 1, n)) = n
    BY <1>2
  <1>. QED
    BY <1>2, <1>3 DEF Front, n

LEMMA PicksStay ==
    HInv /\ NumberPicksUnlessStirred /\ [Next]_vars => NumberPicksUnlessStirred'
  <1>. SUFFICES ASSUME HInv, NumberPicksUnlessStirred, [Next]_vars, PicksFromList', ~stirred'
                PROVE  PicksTheListed'
    BY DEF NumberPicksUnlessStirred
  <1>. USE DEF PicksFromList
  <1>0. ASSUME UNCHANGED <<at, command, answer, listed>>, ~stirred' => ~stirred
        PROVE  PicksTheListed'
    BY <1>0 DEF NumberPicksUnlessStirred, PicksTheListed
  <1>1. CASE Write
    BY <1>1 DEF Write
  <1>2. CASE LookUpExact
    <2>1. Found(command, Resolve(command)) /\ command' = command /\ IsNumbered(command)
      BY <1>2 DEF LookUpExact, Found
    <2>2. answer'.name = command
      BY <2>1 DEF Found
    <2>3. Front(command) = command
      BY <2>1, <2>2 DEF Plain
    <2>4. command \in Seq(Word) /\ command # <<>>
      BY <2>1 DEF HInv, HTypes, IsNumbered
    <2>. QED
      BY <2>3, <2>4, FrontIsShorter
  <1>3. CASE LookUp
    <2>. DEFINE name == Plain(command)
                found == Resolve(name)
    <2>1. /\ Found(name, Pick(found, command)) /\ UNCHANGED <<command, listed>>
          /\ Shown = listed
      BY <1>3 DEF LookUp, Found, Shown
    <2>2. /\ IsNumbered(command) /\ listed.name = name
          /\ Number(command) \in DOMAIN listed.customers
      BY <2>1 DEF IsNumbered, Number, Plain
    <2>3. listed # Nobody
      BY <2>2 DEF Nobody
    <2>4. ~stirred
      <3>1. Len(Pick(found, command)) \in Nat
        BY PickIs DEF HInv
      <3>2. Len(Pick(found, command)) = 1
        BY <2>1, <3>1 DEF Found
      <3>3. stirred' = (stirred /\ Len(Pick(found, command)) <= 1)
        BY <2>1 DEF Found
      <3>4. Len(Pick(found, command)) <= 1
        BY <3>2
      <3>. QED
        BY <3>3, <3>4, Zenon
    <2>5. IsAmbiguous(name) /\ listed.customers = Candidates(name)
      BY <2>1, <2>2, <2>3, <2>4 DEF HInv, ListIsTrue
    <2>6. found = listed.customers /\ Len(found) > 1
      BY <2>5, CandidatesAre DEF Resolve, HInv
    <2>7. Pick(found, command) = <<listed.customers[Number(command)]>>
      BY <2>2, <2>6 DEF Pick
    <2>. QED
      BY <2>1, <2>7 DEF Found, PicksTheListed
  <1>4. CASE ToggleAndReply
    BY <1>4 DEF ToggleAndReply, Rest
  <1>5. CASE ReplyList
    BY <1>5 DEF ReplyList, Rest
  <1>6. ASSUME NEW c \in Customer, Message(c)
        PROVE  PicksTheListed'
    BY <1>0, <1>6 DEF Message, Stir
  <1>7. ASSUME NEW c \in Renamer, Rename(c)
        PROVE  PicksTheListed'
    BY <1>0, <1>7 DEF Rename
  <1>8. CASE Lapse
    BY <1>0, <1>8 DEF Lapse, Stir
  <1>9. CASE UNCHANGED vars
    BY <1>0, <1>9 DEF vars
  <1>. QED
    BY <1>1, <1>2, <1>3, <1>4, <1>5, <1>6, <1>7, <1>8, <1>9 DEF Next

\* A number picks the customer whom the owner saw at it, if since the list was
\* made nobody of that name wrote and nobody's message came of age.
THEOREM NumberPicksTheListedUnlessStirred == Spec => []NumberPicksUnlessStirred
  <1>1. Init => NumberPicksUnlessStirred
    BY DEF Init, NumberPicksUnlessStirred, PicksFromList
  <1>. QED
    BY <1>1, HInvHolds, PicksStay, PTL DEF Spec

\* No more customers have a name than there are.
LEMMA BearersAreCustomers ==
    ASSUME HTypes, NEW name
    PROVE  Cardinality(Bearers(name)) \in 0..Cardinality(Customer)
  <1>. DEFINE S == Bearers(name)
              f == [i \in S |-> rows[i].customer]
  <1>1. \A i \in S : i \in DOMAIN rows /\ rows[i] \in Row /\ rows[i].name = name
    BY RowsAre DEF Bearers
  <1>2. \A i \in S : f[i] \in Customer
    BY <1>1, RowsAre
  <1>3. ASSUME NEW i \in S, NEW j \in S, f[i] = f[j]
        PROVE  i = j
    <2>1. rows[i] = [customer |-> f[i], name |-> name] /\ rows[j] = [customer |-> f[j], name |-> name]
      BY <1>1 DEF Row
    <2>. QED
      BY <1>1, <1>3, <2>1 DEF HTypes
  <1>4. f \in Injection(S, Customer)
    <2>1. f \in [S -> Customer]
      BY <1>2
    <2>. HIDE DEF f, S
    <2>. QED
      BY <1>3, <2>1 DEF Injection, IsInjective
  <1>. HIDE DEF f
  <1>5. Cardinality(S) <= Cardinality(Customer)
    BY <1>4, HandoffAssumption, FS_Injection
  <1>. QED
    BY <1>5, BearersAre, HandoffAssumption, FS_CardinalityType

\* Whoever is the only one of her name to have written lately is the first of it.
LEMMA OnlyRecentIsFirst ==
    ASSUME HTypes, NEW i \in 1..fresh, ~IsAmbiguous(rows[i].name)
    PROVE  Resolve(rows[i].name) = <<rows[i].customer>>
  <1>. DEFINE name == rows[i].name
              S == Bearers(name)
              R == Recent(name)
  <1>0. i \in R /\ i \in S /\ i \in Nat
    BY RowsAre DEF Recent, Bearers
  <1>1. R = {i}
    <2>1. Cardinality(R) < 2 /\ IsFiniteSet(R) /\ Cardinality(R) \in Nat
      BY BearersAre DEF IsAmbiguous
    <2>2. {i} \in SUBSET R /\ Cardinality({i}) = 1
      BY <1>0, FS_Singleton
    <2>. HIDE DEF R
    <2>3. Cardinality({i}) <= Cardinality(R) /\ (Cardinality({i}) = Cardinality(R) => {i} = R)
      BY <2>1, <2>2, FS_Subset
    <2>. QED
      BY <2>1, <2>2, <2>3
  <1>2. UpTo(S, i) = {i}
    <2>1. ASSUME NEW j \in S, j <= i
          PROVE  j = i
      <3>1. j \in R
        BY <2>1, RowsAre DEF Bearers, Recent
      <3>. QED
        BY <1>1, <3>1
    <2>. QED
      BY <1>0, <2>1 DEF UpTo
  <1>3. Cardinality(UpTo(S, i)) = 1
    BY <1>2, FS_Singleton
  <1>4. 1 \in 1..Cardinality(S) /\ Place(S, 1) = i
    <2>1. S \in SUBSET Nat /\ IsFiniteSet(S)
      BY BearersAre
    <2>. HIDE DEF S
    <2>. QED
      BY <1>0, <1>3, <2>1, PlaceOf
  <1>. HIDE DEF name
  <1>5. Candidates(name) # <<>> /\ Head(Candidates(name)) = rows[i].customer
    <2>1. /\ Candidates(name) \in Seq(Customer) /\ Len(Candidates(name)) = Cardinality(S)
          /\ Candidates(name)[1] = rows[i].customer
      BY <1>4, CandidatesAre
    <2>2. Len(Candidates(name)) >= 1
      BY <1>4, <2>1
    <2>. QED
      BY <2>1, <2>2
  <1>. QED
    BY <1>5 DEF Resolve, name

LEMMA TextIs ==
    ASSUME NEW text \in Seq(Word)
    PROVE  DOMAIN text = 1..Len(text) /\ text = [i \in 1..Len(text) |-> text[i]]
  OBVIOUS

\* A name in normal form, with a number behind it, is in normal form, and is
\* none of the fixed commands.
LEMMA NumberedIs ==
    ASSUME NEW name \in Seq(Word), name # <<>>, Normal(name) = name,
           NEW k \in Nat, k \in Word, NEW words, words = Append(name, k)
    PROVE  /\ words \in Seq(Word) /\ Normal(words) = words /\ words \notin Fixed
           /\ IsNumbered(words) /\ Number(words) = k /\ Plain(words) = name
  <1>1. /\ words \in Seq(Word) /\ Len(words) = Len(name) + 1 /\ words[Len(words)] = k
        /\ Len(name) \in Nat /\ Len(name) >= 1 /\ \A i \in 1..Len(name) : words[i] = name[i]
    OBVIOUS
  <1>2. Front(words) = name
    BY DEF Front
  <1>3. Last(words) = k
    BY <1>1 DEF Last
  <1>4. words \notin Fixed
    BY <1>3, HandoffAssumption
  <1>5. IsNumbered(words) /\ Number(words) = k /\ Plain(words) = name
    BY <1>1, <1>2, <1>3 DEF IsNumbered, Number, Plain
  <1>6. ASSUME NEW i \in 1..Len(words)
        PROVE  Folded[words[i]] = words[i]
    <2>1. CASE i = Len(words)
      BY <1>1, <2>1, HandoffAssumption
    <2>2. CASE i # Len(words)
      <3>1. i \in 1..Len(name)
        BY <1>1, <2>2
      <3>2. Normal(name)[i] = Folded[name[i]] /\ words[i] = name[i]
        BY <1>1, <3>1, NormalIs
      <3>. QED
        BY <3>2
    <2>. QED
      BY <2>1, <2>2
  <1>7. Normal(words) = words
    <2>1. DOMAIN words = 1..Len(words) /\ words = [i \in 1..Len(words) |-> words[i]]
      BY <1>1, TextIs
    <2>2. Normal(words) = [i \in 1..Len(words) |-> Folded[words[i]]]
      BY <2>1 DEF Normal
    <2>. QED
      BY <1>6, <2>1, <2>2
  <1>. QED
    BY <1>1, <1>4, <1>5, <1>7

\* A number behind a name leads to the customer at that place, or to the only
\* one there is.
LEMMA NumberLeads ==
    ASSUME HTypes, NEW name \in Seq(Word), name # <<>>, Normal(name) = name,
           NEW k \in 1..Cardinality(Bearers(name)), k \in Word,
           Bearers(Append(name, k)) = {},
           ~IsAmbiguous(name) => Len(Resolve(name)) = 1
    PROVE  Reach(Append(name, k)) =
              IF IsAmbiguous(name) THEN <<Candidates(name)[k]>> ELSE Resolve(name)
  <1>. DEFINE words == Append(name, k)
  <1>1. k \in Nat
    OBVIOUS
  <1>2. Resolve(words) = <<>>
    <2>1. Cardinality(Bearers(words)) = 0
      BY FS_EmptySet
    <2>. HIDE DEF words
    <2>2. Candidates(words) = <<>> /\ ~IsAmbiguous(words)
      BY <2>1, CandidatesAre
    <2>. QED
      BY <2>2 DEF Resolve
  <1>3. /\ Normal(words) = words /\ words \notin Fixed
        /\ IsNumbered(words) /\ Number(words) = k /\ Plain(words) = name
    BY <1>1, NumberedIs
  <1>. HIDE DEF words
  <1>4. Len(Resolve(words)) # 1
    BY <1>2
  <1>5. Reach(words) = Pick(Resolve(name), words)
    BY <1>3, <1>4 DEF Reach
  <1>6. CASE IsAmbiguous(name)
    <2>1. Resolve(name) = Candidates(name) /\ Len(Candidates(name)) > 1 /\ k \in DOMAIN Candidates(name)
      BY <1>6, CandidatesAre DEF Resolve
    <2>. QED
      BY <1>3, <1>5, <1>6, <2>1 DEF Pick, words
  <1>7. CASE ~IsAmbiguous(name)
    <2>1. Pick(Resolve(name), words) = Resolve(name)
      <3>1. Len(Resolve(name)) = 1
        BY <1>7
      <3>2. ~(Len(Resolve(name)) > 1)
        BY <3>1
      <3>. QED
        BY <3>2, Zenon DEF Pick
    <2>. QED
      BY <1>5, <1>7, <2>1 DEF words
  <1>. QED
    BY <1>6, <1>7

LEMMA FreshReached ==
    ASSUME WritesAnything, HTypes
    PROVE  FreshAreReachable
  <1>1. SUFFICES ASSUME NEW i \in 1..fresh, NEW place,
                        place = CHOOSE k \in DOMAIN Candidates(rows[i].name) :
                                    Candidates(rows[i].name)[k] = rows[i].customer,
                        Normal(rows[i].name) = rows[i].name
                 PROVE  \/ \E text \in Command : Reach(text) = <<rows[i].customer>>
                        \/ \E r \in Range(rows) : r.name = Append(rows[i].name, place)
    BY DEF FreshAreReachable
  <1>. DEFINE name == rows[i].name
              S == Bearers(name)
              words == Append(name, place)
  <1>2. i \in DOMAIN rows /\ i \in S /\ name \in Name /\ name \in Seq(Word) /\ name # <<>>
    <2>1. i \in DOMAIN rows /\ i \in S /\ name \in Name
      BY RowsAre DEF Bearers
    <2>. HIDE DEF name
    <2>2. PICK c \in Customer : name \in Profile[c]
      BY <2>1 DEF Name
    <2>3. Profile[c] \in SUBSET (Seq(Word) \ {<<>>})
      BY HandoffAssumption
    <2>. QED
      BY <2>1, <2>2, <2>3
  <1>3. place \in 1..Cardinality(S) /\ Candidates(name)[place] = rows[i].customer
    <2>1. S \in SUBSET Nat /\ IsFiniteSet(S)
      BY BearersAre
    <2>. DEFINE k == Cardinality(UpTo(S, i))
    <2>2. k \in 1..Cardinality(S) /\ Place(S, k) = i
      <3>. HIDE DEF S
      <3>. QED
        BY <1>2, <2>1, PlaceOf
    <2>. HIDE DEF k
    <2>3. k \in DOMAIN Candidates(name) /\ Candidates(name)[k] = rows[i].customer
      BY <2>2, CandidatesAre
    <2>4. place \in DOMAIN Candidates(name) /\ Candidates(name)[place] = rows[i].customer
      BY <1>1, <2>3
    <2>. QED
      BY <2>4, CandidatesAre
  <1>4. words \in Command /\ place \in Word
    <2>1. place \in 1..Cardinality(Customer)
      <3>1. Cardinality(S) \in 0..Cardinality(Customer) /\ Cardinality(Customer) \in Nat
        BY BearersAreCustomers, HandoffAssumption, FS_CardinalityType
      <3>. HIDE DEF S
      <3>. QED
        BY <1>3, <3>1
    <2>2. words \in Command
      BY <1>2, <2>1 DEF WritesAnything
    <2>3. words \in Seq(Word)
      BY <2>2, HandoffAssumption
    <2>4. Len(words) = Len(name) + 1 /\ words[Len(words)] = place /\ Len(words) \in DOMAIN words
      BY <1>2
    <2>5. place \in Word
      <3>. HIDE DEF words
      <3>. QED
        BY <2>3, <2>4
    <2>. QED
      BY <2>2, <2>5
  <1>5. ASSUME ~IsAmbiguous(name)
        PROVE  Resolve(name) = <<rows[i].customer>> /\ Len(Resolve(name)) = 1
    BY <1>5, OnlyRecentIsFirst
  <1>6. CASE IsAmbiguous(name) \/ name \in Fixed
    <2>1. CASE Bearers(words) = {}
      <3>1. Reach(words) = <<rows[i].customer>>
        BY <1>1, <1>2, <1>3, <1>4, <1>5, <2>1, NumberLeads
      <3>. QED
        BY <1>4, <3>1
    <2>2. CASE Bearers(words) # {}
      <3>1. PICK j \in DOMAIN rows : rows[j].name = words
        BY <2>2 DEF Bearers
      <3>. QED
        BY <3>1 DEF Range
    <2>. QED
      BY <2>1, <2>2
  <1>7. CASE ~IsAmbiguous(name) /\ name \notin Fixed
    <2>1. Normal(name) = name /\ name \in Command
      BY <1>1, <1>2 DEF WritesAnything
    <2>2. Resolve(name) = <<rows[i].customer>> /\ Len(Resolve(name)) = 1
      BY <1>5, <1>7
    <2>. HIDE DEF name
    <2>3. Reach(name) = Resolve(name)
      BY <1>7, <2>1, <2>2 DEF Reach, Pick, Plain
    <2>. QED
      BY <2>1, <2>2, <2>3
  <1>. QED
    BY <1>6, <1>7

\* Whoever wrote within 48 hours under a name in normal form can be handed over
\* by some command, even if her name is that of a fixed command, if the owner
\* may write any name and any number behind it.
THEOREM FreshCanBeHandedOver ==
    ASSUME WritesAnything
    PROVE  Spec => []FreshAreReachable
  <1>1. HInv => FreshAreReachable
    BY FreshReached DEF HInv
  <1>. QED
    BY <1>1, HInvHolds, PTL
=============================================================================
