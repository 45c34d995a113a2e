--------------------------- MODULE MessagePromise ---------------------------
(***************************************************************************)
(* What the desk promises for each customer event, without tasks, tables   *)
(* or dedupe rows.  A message is unseen until LINE delivers it, then in    *)
(* work; it comes to rest told (a reply to the customer or a push to the   *)
(* owner was acknowledged), pending (stored, for the owner to ask for) or  *)
(* cut short.  A pending message the owner reads is told.  A told message  *)
(* stays told.  Nothing is cut short without a fault.                      *)
(***************************************************************************)
CONSTANTS
    Event,
    Faulty  \* a Boolean: faults may happen

VARIABLE fate

Fate == {"unseen", "working", "told", "pending", "cut"}

PromiseTypeOK == fate \in [Event -> Fate]

Init == fate = [e \in Event |-> "unseen"]

\* A delivery is taken up; of a message at rest, LINE delivers it again.
Take(e) ==
    /\ fate[e] \in {"unseen", "pending", "cut"}
    /\ fate'[e] = "working"

\* The work on it ends.
Finish(e) ==
    /\ fate[e] = "working"
    /\ fate'[e] \in {"told", "pending"}

\* The owner asks for the backlog and reads it there.
Review(e) ==
    /\ fate[e] = "pending"
    /\ fate'[e] = "told"

\* A fault ends it, or shows that an earlier delivery was cut.
Cut(e) ==
    /\ Faulty
    /\ fate[e] = "working"
    /\ fate'[e] = "cut"

Keep(e) == fate'[e] = fate[e]

\* One step may move several messages: a POST carries a batch, a crash ends
\* all the tasks.
Next ==
    /\ fate' \in [Event -> Fate]
    /\ \A e \in Event : Take(e) \/ Finish(e) \/ Review(e) \/ Cut(e) \/ Keep(e)

Spec == Init /\ [][Next]_fate
=============================================================================
