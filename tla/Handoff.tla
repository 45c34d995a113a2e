------------------------------ MODULE Handoff ------------------------------
(***************************************************************************)
(* Whom the owner's command "/<name>" hands over to her, or back to the    *)
(* desk.  What the owner writes is brought into a normal form, and the     *)
(* customer is looked up by the display name under which her messages were *)
(* stored, which is not; of several with one name the owner is sent a      *)
(* list, and picks one by a number behind the name                         *)
(* (_reply_owner_handoff_toggle, resolve_by_display_name).                 *)
(*                                                                         *)
(* One command after the other; customers write and time passes between    *)
(* any two of its queries.  The toggle itself, with commands of several    *)
(* owners at a time and the end of a hold, is in OperationMode.  A message *)
(* whose profile look-up fails is stored without a name and changes        *)
(* nothing here.                                                           *)
(***************************************************************************)
EXTENDS Naturals, FiniteSets, SequencesExt

CONSTANTS
    Customer,
    Renamer,  \* BOUND: the customers who change their names
    Word,     \* what names are made of, the numbers of a list among it
    Folded,   \* the normal form of each word: full-width letters as half-width
    Profile,  \* BOUND: the display names each of them may have
    Command,  \* what the owner writes behind the slash
    Fixed     \* _OWNER_COMMANDS

\* Names and commands are sequences of words.
ASSUME HandoffAssumption ==
    /\ IsFiniteSet(Customer)
    /\ Renamer \subseteq Customer
    /\ Folded \in [Word -> Word]
    /\ \A k \in Word \cap Nat : Folded[k] = k
    /\ Profile \in [Customer -> SUBSET (Seq(Word) \ {<<>>})]
    /\ Command \subseteq Seq(Word)
    /\ \A text \in Fixed : Last(text) \notin Nat

VARIABLES
    called,   \* the name in each customer's profile
    rows,     \* who wrote under which name, the last to write first
    fresh,    \* how many of them wrote within _AMBIGUITY_WINDOW_HOURS
    at,       \* where the command is
    command,  \* what the owner wrote, in its normal form
    answer,   \* the customers it was found to stand for, and by which name
    listed,   \* history: the list the owner was last shown
    stirred   \* history: whether, since it was made, somebody of its name wrote
              \* or fell silent

Name == UNION {Profile[c] : c \in Customer}

tables == <<called, rows, fresh>>
vars == <<tables, at, command, answer, listed, stirred>>

Nobody == [name |-> <<>>, customers |-> <<>>]

Init ==
    /\ called \in [Customer -> Name]
    /\ \A c \in Customer : called[c] \in Profile[c]
    /\ rows = <<>>
    /\ fresh = 0
    /\ at = "idle"
    /\ command = <<>>
    /\ answer = Nobody
    /\ listed = Nobody
    /\ stirred = FALSE

-----------------------------------------------------------------------------
(* The look-up.                                                            *)

Bearers(name) == {i \in DOMAIN rows : rows[i].name = name}

\* The k-th of a set of places, counted from the front.
Place(S, k) == CHOOSE i \in S : Cardinality({j \in S : j <= i}) = k

\* find_candidates_by_display_name: who wrote last comes first.
Candidates(name) ==
    LET places == Bearers(name)
    IN  [k \in 1..Cardinality(places) |-> rows[Place(places, k)].customer]

Recent(name) == {i \in 1..fresh : rows[i].name = name}

\* FAULTY VARIANT of IsAmbiguous: two recent bearers are no collision.
IsAmbiguousOfThree(name) == Cardinality(Recent(name)) > 2

IsAmbiguous(name) == Cardinality(Recent(name)) >= 2

\* resolve_by_display_name: all bearers of an ambiguous name, or else the one
\* who wrote last.
Resolve(name) ==
    IF IsAmbiguous(name) THEN Candidates(name)
    ELSE IF Candidates(name) = <<>> THEN <<>>
    ELSE <<Head(Candidates(name))>>

\* normalize_for_parsing.
Normal(text) == [i \in DOMAIN text |-> Folded[text[i]]]

\* _parse_display_name_command: a number is one only behind something else.
IsNumbered(words) == Len(words) > 1 /\ Last(words) \in Nat
Number(words) == Last(words)
Plain(words) == IF IsNumbered(words) THEN Front(words) ELSE words

\* FAULTY VARIANT of Pick: the numbers count from the one who wrote first.
PickFromOldest(found, words) ==
    IF Len(found) > 1 /\ IsNumbered(words) /\ Number(words) \in DOMAIN found
    THEN <<Reverse(found)[Number(words)]>>
    ELSE found

\* _select_ambiguous_candidate: a number counts only where there are several,
\* and one that is not on the list brings the list again.
Pick(found, words) ==
    IF Len(found) > 1 /\ IsNumbered(words) /\ Number(words) \in DOMAIN found
    THEN <<found[Number(words)]>>
    ELSE found

-----------------------------------------------------------------------------
(* The command.                                                            *)

\* The owner writes.  What reads as one of the fixed commands is that command,
\* and no name.
Write ==
    /\ at = "idle"
    /\ \E text \in Command : Normal(text) \notin Fixed /\ command' = Normal(text)
    /\ at' = IF IsNumbered(command') THEN "exact" ELSE "name"
    /\ UNCHANGED <<tables, answer, listed, stirred>>

\* A look-up has ended with these customers.
Found(name, customers) ==
    /\ answer' = [name |-> name, customers |-> customers]
    /\ at' = CASE Len(customers) = 0 -> "reply"
               [] Len(customers) = 1 -> "toggle"
               [] OTHER -> "list"
    /\ stirred' = (stirred /\ Len(customers) <= 1)
    /\ UNCHANGED <<tables, command, listed>>

\* Words with a number may be a whole name: they are, if they stand for one
\* customer.
LookUpExact ==
    /\ at = "exact"
    /\ IF Len(Resolve(command)) = 1
       THEN Found(command, Resolve(command))
       ELSE at' = "name" /\ UNCHANGED <<tables, command, answer, listed, stirred>>

LookUp ==
    /\ at = "name"
    /\ Found(Plain(command), Pick(Resolve(Plain(command)), command))

\* The command is over.
Rest ==
    /\ at' = "idle"
    /\ command' = <<>>
    /\ answer' = Nobody
    /\ UNCHANGED tables

\* toggle, and the reply what became of the customer; or the reply that there
\* is none of the name.  Whether it arrives does not matter here.
ToggleAndReply ==
    /\ at \in {"toggle", "reply"}
    /\ Rest
    /\ UNCHANGED <<listed, stirred>>

\* _send_ambiguous_reply: one attempt to show the list.
ReplyList ==
    /\ at = "list"
    /\ Rest
    /\ listed' \in {answer, Nobody}
    /\ stirred' = (stirred /\ listed' # Nobody)

-----------------------------------------------------------------------------
(* The customers, and time.                                                *)

\* Something happens to the order of the customers of a name.
Stir(name) ==
    LET list == IF at = "list" THEN answer ELSE listed
    IN  stirred' = (stirred \/ (list # Nobody /\ list.name = name))

\* A row comes to the front of the others: from its place, or as a new one.
ToFront(row) ==
    LET old == {i \in DOMAIN rows : rows[i] = row}
        place == IF old = {} THEN Len(rows) + 1 ELSE CHOOSE i \in old : TRUE
    IN  [i \in DOMAIN rows \cup {place} |->
            IF i = 1 THEN row ELSE IF i <= place THEN rows[i - 1] ELSE rows[i]]

\* A message of hers is stored, under the name she has now.
Message(c) ==
    LET row == [customer |-> c, name |-> called[c]]
    IN  /\ rows' = ToFront(row)
        /\ fresh' = IF row \in {rows[i] : i \in 1..fresh} THEN fresh ELSE fresh + 1
        /\ Stir(called[c])
        /\ UNCHANGED <<called, at, command, answer, listed>>

Rename(c) ==
    /\ \E name \in Profile[c] \ {called[c]} : called' = [called EXCEPT ![c] = name]
    /\ UNCHANGED <<rows, fresh, at, command, answer, listed, stirred>>

\* The oldest of the recent messages turns 48 hours old.
Lapse ==
    /\ fresh > 0
    /\ fresh' = fresh - 1
    /\ Stir(rows[fresh].name)
    /\ UNCHANGED <<called, rows, at, command, answer, listed>>

Next ==
    \/ Write
    \/ LookUpExact
    \/ LookUp
    \/ ToggleAndReply
    \/ ReplyList
    \/ \E c \in Customer : Message(c)
    \/ \E c \in Renamer : Rename(c)
    \/ Lapse

Spec == Init /\ [][Next]_vars

-----------------------------------------------------------------------------
(* Properties.                                                             *)

\* Whom a text of the owner's leads to when nothing happens in between.
Reach(text) ==
    LET words == Normal(text)
    IN  IF words \in Fixed THEN <<>>
        ELSE IF IsNumbered(words) /\ Len(Resolve(words)) = 1 THEN Resolve(words)
        ELSE Pick(Resolve(Plain(words)), words)

\* The owner may write any name, alone and with any number of a list.
WritesAnything ==
    /\ Name \subseteq Command
    /\ \A name \in Name, k \in 1..Cardinality(Customer) : Append(name, k) \in Command

\* Whoever wrote within 48 hours under a name in normal form can be handed over
\* by some command, whatever others are called and whoever wrote since, and
\* though her name be that of a fixed command (a number behind it makes it a
\* name again); unless the number she has on the list makes the name of
\* somebody else (Wendy is the first of the list, and another customer is
\* called "Wendy 1").  A name that is not its own normal form is stored as it
\* is and looked up as its normal form: no command finds it.
FreshAreReachable ==
    \A i \in 1..fresh :
        LET place == CHOOSE k \in DOMAIN Candidates(rows[i].name) :
                        Candidates(rows[i].name)[k] = rows[i].customer
        IN  \/ Normal(rows[i].name) # rows[i].name
            \/ \E text \in Command : Reach(text) = <<rows[i].customer>>
            \/ \E r \in Range(rows) : r.name = Append(rows[i].name, place)

\* A number that is on the list the owner was shown has been resolved.
PicksFromList ==
    /\ at = "toggle"
    /\ IsNumbered(command)
    /\ answer.name = Plain(command)
    /\ listed.name = Plain(command)
    /\ Number(command) \in DOMAIN listed.customers

PicksTheListed == answer.customers = <<listed.customers[Number(command)]>>

\* A number picks the customer whom the owner saw at it, if since the list was
\* made nobody of that name wrote and nobody's message came of age.
NumberPicksUnlessStirred == PicksFromList /\ ~stirred => PicksTheListed

-----------------------------------------------------------------------------
(* What the documents say and the code does not do.                        *)

\* docs/architecture.md: a trailing number picks from the list of a prior
\* reply.
NumberPicksTheListed == PicksFromList => PicksTheListed
=============================================================================
