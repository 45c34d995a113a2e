------------------------ MODULE MCConversationState ------------------------
(* A customer who asks for a quote, gives slots one by one, changes her    *)
(* mind about the booking, and answers the room question.                  *)
EXTENDS ConversationState, TLC

Says(slots) ==
    [slots |-> slots, routed |-> FALSE, off |-> FALSE, bare |-> FALSE,
     several |-> FALSE, asRooms |-> {}, asPets |-> {}]

Routed(m) == [m EXCEPT !.routed = TRUE]
WhileOff(m) == [m EXCEPT !.off = TRUE]
Answers(m, counts) == [m EXCEPT !.asRooms = counts, !.asPets = counts]

\* "a quote for d1, ten adults"
Asks == Says([intent |-> "quote", dates |-> "d1", adults |-> 10])
\* "4 to a room, 2 rooms, and 2 to a room, 2 rooms"
FillsRooms ==
    [Routed(Says([intent |-> "other", adults |-> 4, rooms |-> 2])) EXCEPT
        !.bare = TRUE, !.several = TRUE, !.asRooms = {4}]

\* The customer asks for a quote for one booking and another, has a dog,
\* answers with a bare number, says how to fill the rooms, moves the dates
\* while the desk is off, and says hello.
MessageDef == {
    Asks,
    Says([intent |-> "other", dates |-> "d2", adults |-> 8]),
    Routed(Says([intent |-> "other", pet |-> "yes"])),
    Routed(Answers(Says([intent |-> "other"]), {1})),
    FillsRooms,
    WhileOff(Says([intent |-> "quote", dates |-> "d2"])),
    Routed(Says([intent |-> "other"]))}

ThreadSymmetry == Permutations(Thread)
=============================================================================
