----------------------------- MODULE MCBacklog -----------------------------
(* Two customer messages, two owners, a backlog page of two rows.          *)
EXTENDS Backlog, TLC

CONSTANTS e1, e2

\* A message alone, and again behind another one: with a redelivery of both
\* the backlog grows to twice its page.
RepeatedDef == {<<e1>>, <<e2, e1>>}

\* One message.
SingleDef == {<<e1>>}

OwnerSymmetry == Permutations(Owner)
=============================================================================
