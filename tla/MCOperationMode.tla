-------------------------- MODULE MCOperationMode --------------------------
(* A day of three ticks; every schedule, the ones that wrap and the empty *)
(* ones included, and two days so that the sums pass midnight.            *)
EXTENDS OperationMode, TLC

\* A night that wraps, as 23:00 to 08:00 does.
NightDef == [start |-> 2, end |-> 1]

Symmetry == Permutations(Reader) \cup Permutations(Writer)
=============================================================================
