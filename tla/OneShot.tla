------------------------------- MODULE OneShot -------------------------------
(***************************************************************************)
(* What idempotency promises of one key's slot: a taken slot changes hands *)
(* only through being free, a result can be put there only by whoever took *)
(* it, and a result that is there stays as it is until it lapses.          *)
(***************************************************************************)
CONSTANTS Client,   \* executions
          NoOne     \* the claim of a record nobody here wrote

VARIABLE slot

Free == [is |-> "free", by |-> NoOne]
Taken(c) == [is |-> "inflight", by |-> c]
Result(c) == [is |-> "completed", by |-> c]
\* A state an older or newer binary wrote: respected, never interpreted.
Opaque == [is |-> "unknown", by |-> NoOne]

Init == slot \in {Free, Opaque}

Take(c) == slot = Free /\ slot' = Taken(c)

\* The claim may lapse between the ownership check and the write, which find
\* the slot protected from everyone else by the lock.
Complete(c) == slot \in {Taken(c), Free} /\ slot' = Result(c)

GiveBack(c) == slot = Taken(c) /\ slot' = Free

Lapse == slot' = Free

Next ==
    \/ \E c \in Client : Take(c) \/ Complete(c) \/ GiveBack(c)
    \/ Lapse

Spec == Init /\ [][Next]_slot
=============================================================================
