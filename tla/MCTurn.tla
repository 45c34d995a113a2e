------------------------------- MODULE MCTurn -------------------------------
(* Messages of a customer, by what the parsers find in them.               *)
EXTENDS Turn, TLC

\* A departure is only read next to its label, which is a pattern of a date.
Text(words, topics, says) ==
    [words |-> words, topics |-> topics, says |-> says, form |-> FALSE,
     hint |-> "out" \in says /\ "in" \notin says, urgent |-> FALSE]

WordsDef == {{}, {"command"}, {"price"}, {"price", "book"}, {"vacancy"}, {"book"},
             {"question"}, {"ask"}}

\* FAQ topics with the slots next to them.
ContentDef == {
    <<<<>>, {}>>, <<<<>>, {"in"}>>, <<<<>>, {"guests"}>>, <<<<>>, {"in", "out"}>>,
    <<<<"breakfast">>, {}>>, <<<<"breakfast">>, {"in"}>>,
    <<<<"breakfast">>, {"in", "guests"}>>, <<<<"bbq">>, {}>>,
    <<<<"checkout">>, {}>>, <<<<"checkout">>, {"out"}>>,
    <<<<"checkout", "whole_house">>, {"out"}>>,
    <<<<"whole_house">>, {"guests"}>>, <<<<"amenities">>, {"in", "out"}>>}

Form(m) == [m EXCEPT !.form = TRUE]
Hint(m) == [m EXCEPT !.hint = TRUE]
Urgent(m) == [m EXCEPT !.urgent = TRUE]

\* Any words with any content; bare slots; an arrival and a departure by their
\* labels; barbecue, asked for and unclear; dates that only the LLM can read;
\* a form; an emergency.
MessageDef ==
    {Text(w, c[1], c[2]) : w \in WordsDef, c \in ContentDef}
        \cup {Text({}, <<>>, {"rooms"}), Text({"vacancy"}, <<>>, {"in", "out", "guests", "rooms"}),
              Text({"stay_in"}, <<"checkout">>, {"in", "out"}),
              Text({}, <<"bbq">>, {"extra"})}
        \cup {Hint(Text(w, t, {})) : w \in {{}, {"price"}}, t \in {<<>>, <<"breakfast">>}}
        \cup {Hint(Text({"price"}, <<"checkout">>, {"in"}))}
        \cup {Form(Text({}, <<"breakfast">>, {"in", "guests"})),
              Form(Text({}, <<"checkout">>, {"in"}))}
        \cup {Urgent(Text({}, <<>>, {})), Urgent(Text({"price"}, <<"bbq">>, {"in", "out"}))}

ReadsDef == {{}, {"in", "out"}, {"guests", "extra"}}
=============================================================================
