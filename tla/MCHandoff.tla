----------------------------- MODULE MCHandoff -----------------------------
(* Customers called "Wendy", "Wendy 1", the same in full-width letters, and  *)
(* a customer called like a fixed command.                                   *)
EXTENDS Handoff

CONSTANTS c1, c2, c3, wendy, wide, status

WordDef == {wendy, wide, status} \cup 1..3

FoldedDef == [w \in WordDef |-> IF w = wide THEN wendy ELSE w]

ProfileDef ==
    c1 :> {<<wendy>>, <<wendy, 1>>} @@
    c2 :> {<<wendy>>, <<wendy, 1>>, <<wide>>, <<status>>} @@
    c3 :> {<<wendy>>, <<status>>}

\* Each name alone and with any number of a list.
CommandDef ==
    Name \cup {Append(name, k) : name \in Name, k \in 1..Cardinality(Customer)}

FixedDef == {<<status>>}

\* What a theorem about the command asks for.
ASSUME OwnerWritesAnything == WritesAnything
=============================================================================
