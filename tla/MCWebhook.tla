----------------------------- MODULE MCWebhook -----------------------------
(* A customer event with an id, one without, two threads.                  *)
EXTENDS Webhook, TLC

CONSTANTS e1, e2

\* POSTs that carry e1 alone, and both.
BatchDef == {<<e1>>, <<e2, e1>>}

TaskSymmetry == Permutations(Task)
=============================================================================
