------------------------------- MODULE Buffer -------------------------------
(***************************************************************************)
(* batching.Buffer: keys coalesced in memory and written on an interval,   *)
(* when the buffer fills, or by Close; and Take, which hands keys back to  *)
(* a foreground writer that must not be overtaken by the buffered write.   *)
(*                                                                         *)
(* Every critical section of mu is one step. The interval's ticker may     *)
(* fire at any time. The wake token is not kept apart from the ticker's:   *)
(* both only make run flush.                                               *)
(***************************************************************************)
EXTENDS Naturals, FiniteSets

CONSTANTS BufKey,
          Taker,      \* callers of Take
          Wanted,     \* Wanted[t]: the keys t asks for
          BufCloser,     \* callers of Close
          BufRun,    \* the goroutine of run
          MaxAdds     \* a bound on the calls of Add

ASSUME BufferAssumption ==
    /\ Wanted \in [Taker -> SUBSET BufKey]
    /\ BufRun \notin BufCloser
    /\ MaxAdds \in Nat

VARIABLES pending, flushing,
          stopping, shut,
          stage,       \* where each writer, the flusher or a Close, is
          carry,    \* the keys it has handed to the write function
          takes,       \* where each Take is
          taken,    \* what it returned
          owned,    \* the keys it asked for, had on return, and not Added since
          adds      \* the calls of Add so far

BufWriter == BufCloser \cup {BufRun}
bufVars == <<pending, flushing, stopping, shut, stage, carry, takes, taken, owned, adds>>
takeVars  == <<takes, taken>>
carryVars == <<stage, carry>>

BufferTypeOK ==
    /\ pending \subseteq BufKey /\ flushing \subseteq BufKey
    /\ stopping \in BOOLEAN /\ shut \in BOOLEAN
    /\ stage \in [BufWriter -> {"off", "select", "flush", "waiting", "writing", "finishing",
                          "ended", "returned"}]
    /\ carry \in [BufWriter -> SUBSET BufKey]
    /\ takes \in [Taker -> {"idle", "trying", "parked", "woken", "returned", "cancelled"}]
    /\ taken \in [Taker -> SUBSET BufKey]
    /\ owned \in [Taker -> SUBSET BufKey]
    /\ adds \in 0..MaxAdds

BufferInit ==
    /\ pending = {} /\ flushing = {}
    /\ stopping = FALSE /\ shut = FALSE
    /\ stage = [w \in BufWriter |-> IF w = BufRun THEN "select" ELSE "off"]
    /\ carry = [w \in BufWriter |-> {}]
    /\ takes = [t \in Taker |-> "idle"]
    /\ taken = [t \in Taker |-> {}]
    /\ owned = [t \in Taker |-> {}]
    /\ adds = 0

-----------------------------------------------------------------------------
(* Add: into pending, however full it is; after Close, dropped.            *)
Add(keys) ==
    /\ adds < MaxAdds /\ adds' = adds + 1
    /\ ~shut
    /\ pending' = pending \cup keys
    /\ owned' = [t \in Taker |-> owned[t] \ keys]
    /\ UNCHANGED <<flushing, stopping, shut, carryVars, takeVars>>

(* Variant: a key added after Close is kept, for a flush that never comes. *)
AddDroppedKept(keys) ==
    /\ adds < MaxAdds /\ adds' = adds + 1
    /\ shut
    /\ pending' = pending \cup keys
    /\ owned' = [t \in Taker |-> owned[t] \ keys]
    /\ UNCHANGED <<flushing, stopping, shut, carryVars, takeVars>>

AddDropped(keys) ==
    /\ adds < MaxAdds /\ adds' = adds + 1
    /\ shut /\ keys # {}
    /\ UNCHANGED <<pending, flushing, stopping, shut, carryVars, takeVars, owned>>

-----------------------------------------------------------------------------
TakeCall(t) ==
    /\ takes[t] = "idle"
    /\ takes' = [takes EXCEPT ![t] = "trying"]
    /\ UNCHANGED <<pending, flushing, stopping, shut, carryVars, taken, owned, adds>>

(* flushingAny is false: takeLocked.                                       *)
TakeKeys(t) ==
    /\ takes' = [takes EXCEPT ![t] = "returned"]
    /\ taken' = [taken EXCEPT ![t] = pending \cap Wanted[t]]
    /\ pending' = pending \ Wanted[t]
    /\ owned' = [owned EXCEPT ![t] = Wanted[t]]
    /\ UNCHANGED <<flushing, stopping, shut, carryVars, adds>>

(* Variant: Take does not look at the flush in flight.                     *)
TakeAnyway(t) == takes[t] \in {"trying", "woken"} /\ TakeKeys(t)
Take(t) ==
    /\ takes[t] \in {"trying", "woken"}
    /\ flushing \cap Wanted[t] = {}
    /\ TakeKeys(t)

(* A flush carries one of them: wait on its flushDone, or for ctx.         *)
TakeParks(t) ==
    /\ takes[t] \in {"trying", "woken"}
    /\ flushing \cap Wanted[t] # {}
    /\ takes' = [takes EXCEPT ![t] = "parked"]
    /\ UNCHANGED <<pending, flushing, stopping, shut, carryVars, taken, owned, adds>>

TakeCancelled(t) ==
    /\ takes[t] \in {"parked", "woken"}
    /\ takes' = [takes EXCEPT ![t] = "cancelled"]
    /\ UNCHANGED <<pending, flushing, stopping, shut, carryVars, taken, owned, adds>>

-----------------------------------------------------------------------------
WriterGoes(w, where) == stage' = [stage EXCEPT ![w] = where]
\* Where a writer goes when its flush is over.
Rest(w) == IF w = BufRun THEN "select" ELSE "returned"

(* run: the select on the ticker, the nudge of a full buffer, and stop.    *)
Fire ==
    /\ stage[BufRun] = "select"
    /\ WriterGoes(BufRun, "flush")
    /\ UNCHANGED <<pending, flushing, stopping, shut, carry, takeVars, owned, adds>>

BufferStops ==
    /\ stage[BufRun] = "select" /\ stopping
    /\ WriterGoes(BufRun, "ended")
    /\ UNCHANGED <<pending, flushing, stopping, shut, carry, takeVars, owned, adds>>

(* takeForFlush: the pending set is published as in flight.                *)
TakeForFlush(w) ==
    /\ stage[w] = "flush"
    /\ carry' = [carry EXCEPT ![w] = pending]
    /\ pending' = {}
    /\ flushing' = IF pending = {} THEN flushing ELSE pending
    /\ WriterGoes(w, IF pending = {} THEN Rest(w) ELSE "writing")
    /\ UNCHANGED <<stopping, shut, takeVars, owned, adds>>

(* The write function returns, with an error or not: a key is not retried. *)
Written(w) ==
    /\ stage[w] = "writing"
    /\ carry' = [carry EXCEPT ![w] = {}]
    /\ WriterGoes(w, "finishing")
    /\ UNCHANGED <<pending, flushing, stopping, shut, takeVars, owned, adds>>

(* finishFlush: nothing is in flight, and whoever waits for it is woken,   *)
(* which the code does after unlocking: a waiter is only slower to move.   *)
(* Variant: the waiters are not.                                           *)
FinishFlushQuietly(w) ==
    /\ stage[w] = "finishing"
    /\ flushing' = {}
    /\ WriterGoes(w, Rest(w))
    /\ UNCHANGED <<pending, stopping, shut, carry, takeVars, owned, adds>>

FinishFlush(w) ==
    /\ stage[w] = "finishing"
    /\ flushing' = {}
    /\ WriterGoes(w, Rest(w))
    /\ takes' = [t \in Taker |-> IF takes[t] = "parked" THEN "woken" ELSE takes[t]]
    /\ UNCHANGED <<pending, stopping, shut, carry, taken, owned, adds>>

-----------------------------------------------------------------------------
(* Close: stop run, wait for it, then close and flush what is left.        *)
CloseBuffer(z) ==
    /\ stage[z] = "off"
    /\ stopping' = TRUE
    /\ WriterGoes(z, "waiting")
    /\ UNCHANGED <<pending, flushing, shut, carry, takeVars, owned, adds>>

CloseFlush(z) ==
    /\ stage[z] = "waiting" /\ stage[BufRun] = "ended"
    /\ shut' = TRUE
    /\ WriterGoes(z, "flush")
    /\ UNCHANGED <<pending, flushing, stopping, carry, takeVars, owned, adds>>

-----------------------------------------------------------------------------
WriterStep(w) == TakeForFlush(w) \/ Written(w) \/ FinishFlush(w)

BufferNext ==
    \/ \E keys \in SUBSET BufKey : Add(keys) \/ AddDropped(keys)
    \/ \E t \in Taker : TakeCall(t) \/ Take(t) \/ TakeParks(t) \/ TakeCancelled(t)
    \/ Fire \/ BufferStops
    \/ \E w \in BufWriter : WriterStep(w)
    \/ \E z \in BufCloser : CloseBuffer(z) \/ CloseFlush(z)

BufferSpec == BufferInit /\ [][BufferNext]_bufVars

-----------------------------------------------------------------------------
(* Once Take has returned, no buffered write of the keys it asked for is in*)
(* flight or coming, until one is Added again (buffer.go, Take: "so the    *)
(* buffered write cannot land between the caller's read and its write").   *)
TakeExcludesFlush ==
    \A t \in Taker : owned[t] \cap (pending \cup UNION {carry[w] : w \in BufWriter}) = {}

(* What is published as in flight is what a write is carrying: a second    *)
(* flush never replaces the first's entry under its waiters.               *)
FlushIsPublished ==
    \A w \in BufWriter : /\ carry[w] \subseteq flushing
                      /\ stage[w] = "writing" => flushing = carry[w]

(* A key that is pending is written or taken back: never forgotten, even   *)
(* through a shutdown.                                                     *)
PendingIsFlushed == \A k \in BufKey : k \in pending ~> k \notin pending

(* A Take returns, as the Adds do end.                                     *)
TakeReturns == \A t \in Taker : takes[t] = "trying" ~> takes[t] \in {"returned", "cancelled"}
=============================================================================
