---------------------------- MODULE GroupCommit ----------------------------
(***************************************************************************)
(* batching.GroupCommit: concurrent Submits merged into one write at a     *)
(* time by a flusher goroutine, and the last batch written by Close.       *)
(*                                                                         *)
(* A Caller makes one Submit, of one item, whose key is KeyOf[caller]. The *)
(* item's value is its arrival number, so that a merge that keeps the last *)
(* arrival keeps the largest: what a batch, or the store, holds for a key  *)
(* is the arrival number of the item that got there. The order WithOrder   *)
(* gives a batch's statement is abstracted: a batch names a key once.      *)
(***************************************************************************)
EXTENDS Integers

CONSTANTS Caller,
          Closer,    \* the callers of Close
          Flusher,   \* the goroutine of run
          Key, KeyOf

ASSUME GroupCommitAssumption ==
    /\ KeyOf \in [Caller -> Key]
    /\ Flusher \notin Closer

VARIABLES pc,       \* where each Submit is, or what it returned
          arrival,  \* when its item joined a batch, and 0 before
          ticket,   \* the batch it joined
          open,     \* the batch accepting items, 0 for none
          items,    \* what the open batch has accumulated
          ok,       \* the batches whose done is closed without an error
          failed,   \* and with one
          wake,     \* the token in the wake channel
          stop, closed,
          at,       \* where each writer, the flusher or a Close, is
          hand,     \* the batch it is writing
          load,     \* and what that holds
          store,    \* store[k]: what the write function has put in storage
          clock,    \* how many items have arrived
          batches   \* how many batches have been opened

Writer == Closer \cup {Flusher}
gcVars == <<pc, arrival, ticket, open, items, ok, failed, wake, stop, closed, at,
            hand, load, store, clock, batches>>
callerVars == <<pc, arrival, ticket, clock, batches>>
batchVars  == <<open, items, wake>>
writeVars  == <<hand, load, store, ok, failed>>

Nothing == [k \in Key |-> 0]

GroupTypeOK ==
    /\ pc \in [Caller -> {"idle", "waiting", "unknown", "refused", "nil", "error"}]
    /\ arrival \in [Caller -> Nat] /\ ticket \in [Caller -> Nat]
    /\ open \in Nat /\ items \in [Key -> Nat]
    /\ ok \subseteq Nat /\ failed \subseteq Nat
    /\ wake \in BOOLEAN /\ stop \in BOOLEAN /\ closed \in BOOLEAN
    /\ at \in [Writer -> {"off", "select", "taking", "waiting", "writing", "ended",
                          "nil", "error"}]
    /\ hand \in [Writer -> Nat] /\ load \in [Writer -> [Key -> Nat]]
    /\ store \in [Key -> Nat]
    /\ clock \in Nat /\ batches \in Nat

GroupInit ==
    /\ pc = [c \in Caller |-> "idle"]
    /\ arrival = [c \in Caller |-> 0] /\ ticket = [c \in Caller |-> 0]
    /\ open = 0 /\ items = Nothing
    /\ ok = {} /\ failed = {}
    /\ wake = FALSE /\ stop = FALSE /\ closed = FALSE
    /\ at = [w \in Writer |-> IF w = Flusher THEN "select" ELSE "off"]
    /\ hand = [w \in Writer |-> 0] /\ load = [w \in Writer |-> Nothing]
    /\ store = Nothing
    /\ clock = 0 /\ batches = 0

-----------------------------------------------------------------------------
(* Submit: join the open batch, opening one if there is none, and nudge    *)
(* the flusher, all under mu; or find the batcher closed.                  *)
JoinAs(c, token) ==
    /\ pc[c] = "idle" /\ ~closed
    /\ pc' = [pc EXCEPT ![c] = "waiting"]
    /\ clock' = clock + 1
    /\ arrival' = [arrival EXCEPT ![c] = clock + 1]
    /\ batches' = IF open = 0 THEN batches + 1 ELSE batches
    /\ open' = IF open = 0 THEN batches + 1 ELSE open
    /\ ticket' = [ticket EXCEPT ![c] = open']
    /\ items' = [items EXCEPT ![KeyOf[c]] = clock + 1]
    /\ wake' = token
    /\ UNCHANGED <<stop, closed, at, writeVars>>

(* Variant: the flusher is not nudged.                                     *)
JoinWithoutNudge(c) == JoinAs(c, wake)
Join(c) == JoinAs(c, TRUE)

Refused(c) ==
    /\ pc[c] = "idle" /\ closed
    /\ pc' = [pc EXCEPT ![c] = "refused"]
    /\ UNCHANGED <<arrival, ticket, clock, batches, batchVars, stop, closed, at, writeVars>>

(* Submit's select: the batch's done is closed, or ctx has ended.          *)
Answer(c) ==
    /\ pc[c] = "waiting" /\ ticket[c] \in ok \cup failed
    /\ pc' = [pc EXCEPT ![c] = IF ticket[c] \in ok THEN "nil" ELSE "error"]
    /\ UNCHANGED <<arrival, ticket, clock, batches, batchVars, stop, closed, at, writeVars>>

GiveUp(c) ==
    /\ pc[c] = "waiting"
    /\ pc' = [pc EXCEPT ![c] = "unknown"]
    /\ UNCHANGED <<arrival, ticket, clock, batches, batchVars, stop, closed, at, writeVars>>

-----------------------------------------------------------------------------
Goes(w, where) == at' = [at EXCEPT ![w] = where]

(* run: the select, then take.                                             *)
Woken ==
    /\ at[Flusher] = "select" /\ wake
    /\ wake' = FALSE
    /\ Goes(Flusher, "taking")
    /\ UNCHANGED <<callerVars, open, items, stop, closed, writeVars>>

RunStops ==
    /\ at[Flusher] = "select" /\ stop
    /\ Goes(Flusher, "ended")
    /\ UNCHANGED <<callerVars, batchVars, stop, closed, writeVars>>

\* The open batch changes hands: none accepts items until the next join.
Detach(w) ==
    /\ hand' = [hand EXCEPT ![w] = open]
    /\ load' = [load EXCEPT ![w] = items]
    /\ open' = 0 /\ items' = Nothing

TakeBatch ==
    /\ at[Flusher] = "taking"
    /\ Detach(Flusher)
    /\ Goes(Flusher, IF open = 0 THEN "select" ELSE "writing")
    /\ UNCHANGED <<callerVars, wake, stop, closed, store, ok, failed>>

(* The write function: everything on nil, any part of it on an error, and  *)
(* the waiters are released last.                                          *)
Put(part, w) == [k \in Key |-> IF k \in part /\ load[w][k] # 0 THEN load[w][k] ELSE store[k]]

(* Variant: a write that failed answers its waiters as if it had not.      *)
WriteSwallowsError(w) ==
    /\ at[w] = "writing"
    /\ \E part \in SUBSET Key : store' = Put(part, w)
    /\ ok' = ok \cup {hand[w]}
    /\ Goes(w, IF w = Flusher THEN "select" ELSE "nil")
    /\ hand' = [hand EXCEPT ![w] = 0]
    /\ load' = [load EXCEPT ![w] = Nothing]
    /\ UNCHANGED <<callerVars, batchVars, stop, closed, failed>>

Write(w) ==
    /\ at[w] = "writing"
    /\ \/ /\ store' = Put(Key, w)
          /\ ok' = ok \cup {hand[w]}
          /\ Goes(w, IF w = Flusher THEN "select" ELSE "nil")
          /\ UNCHANGED failed
       \/ /\ \E part \in SUBSET Key : store' = Put(part, w)
          /\ failed' = failed \cup {hand[w]}
          /\ Goes(w, IF w = Flusher THEN "select" ELSE "error")
          /\ UNCHANGED ok
    /\ hand' = [hand EXCEPT ![w] = 0]
    /\ load' = [load EXCEPT ![w] = Nothing]
    /\ UNCHANGED <<callerVars, batchVars, stop, closed>>

-----------------------------------------------------------------------------
(* Close: stop the flusher, wait for it, and write what is left.           *)
Close(z) ==
    /\ at[z] = "off"
    /\ stop' = TRUE
    /\ Goes(z, "waiting")
    /\ UNCHANGED <<callerVars, batchVars, closed, writeVars>>

FinalBatch(z) ==
    /\ closed' = TRUE
    /\ Detach(z)
    /\ Goes(z, IF open = 0 THEN "nil" ELSE "writing")
    /\ UNCHANGED <<callerVars, wake, stop, store, ok, failed>>

(* Variant: Close does not wait for run to have returned.                  *)
TakeLastAtOnce(z) == at[z] = "waiting" /\ FinalBatch(z)
TakeLast(z) == at[z] = "waiting" /\ at[Flusher] = "ended" /\ FinalBatch(z)

-----------------------------------------------------------------------------
GroupNext ==
    \/ \E c \in Caller : Join(c) \/ Refused(c) \/ Answer(c) \/ GiveUp(c)
    \/ Woken \/ RunStops \/ TakeBatch
    \/ \E w \in Writer : Write(w)
    \/ \E z \in Closer : Close(z) \/ TakeLast(z)

GroupSpec == GroupInit /\ [][GroupNext]_gcVars

-----------------------------------------------------------------------------
(* Read-your-write: when Submit has returned nil, storage holds its item,  *)
(* or one that arrived later for the same key, and keeps doing so          *)
(* (groupcommit.go, Submit: "Read-your-write holds").                      *)
ReadYourWrite ==
    \A c \in Caller : pc[c] = "nil" => store[KeyOf[c]] >= arrival[c]

(* A key in storage never goes back to an item that arrived earlier: no    *)
(* write of an old batch lands after a newer one's, not even Close's.      *)
StoreNeverRegresses == [][\A k \in Key : store'[k] >= store[k]]_gcVars

(* A batch that waiters are parked on is always on its way: in a writer's  *)
(* hands, or open with the flusher bound to come for it, or a Close.       *)
NoLostWakeup ==
    open # 0 => /\ ~closed
                /\ wake \/ at[Flusher] = "taking" \/ stop

(* A Submit that joined a batch gets an answer, through any number of      *)
(* failed writes and through shutdown (groupcommit.go, flush: "Every exit  *)
(* path closes done exactly once").                                        *)
SubmitIsAnswered == \A c \in Caller : pc[c] = "waiting" ~> pc[c] # "waiting"
=============================================================================
