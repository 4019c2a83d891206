--------------------------- MODULE BatchingProofs ---------------------------
(***************************************************************************)
(* batching: read-your-write and a store that never regresses, for every   *)
(* number of callers, keys and concurrent Closes of a GroupCommit; Take    *)
(* excludes the buffered write, for every set of keys, takers and callers  *)
(* of Close of a Buffer, and for every number of Adds. llm: the tool calls *)
(* a stream puts together from pieces, for any of them.                    *)
(***************************************************************************)
EXTENDS GroupCommit, Buffer, LLMStream, SequenceTheorems, TLAPS

-----------------------------------------------------------------------------
(* GroupCommit.                                                            *)

(* One writer at a time: run is over before a Close takes the last batch,  *)
(* and the Close that sets closed leaves nothing for another to take.      *)
Serial ==
    /\ closed => at[Flusher] = "ended" /\ open = 0
    /\ \A z \in Closer : at[z] = "writing" => closed
    /\ \A v, w \in Writer : at[v] = "writing" /\ at[w] = "writing" => v = w

(* A batch is in one place: open, or in a writer's hands, or settled.      *)
Placed ==
    /\ open <= batches
    /\ open # 0 => open \notin ok
    /\ \A b \in ok : b <= batches
    /\ \A w \in Writer : hand[w] <= batches
    /\ \A w \in Writer : at[w] = "writing" => /\ hand[w] # 0
                                              /\ hand[w] # open
                                              /\ hand[w] \notin ok
    /\ \A w \in Writer : at[w] # "writing" => hand[w] = 0 /\ load[w] = Nothing
    /\ open = 0 => items = Nothing

(* Storage is older than what is being written, and that is older than     *)
(* what is accumulating.                                                   *)
Ordered ==
    \A k \in Key :
        /\ store[k] <= clock
        /\ items[k] <= clock
        /\ items[k] # 0 => items[k] > store[k]
        /\ \A w \in Writer : /\ load[w][k] <= clock
                             /\ load[w][k] # 0 => load[w][k] > store[k]
                             /\ items[k] # 0 => items[k] > load[w][k]

(* Wherever a caller's batch is, its item is in it, or a later one.        *)
Rides(c) ==
    /\ pc[c] = "nil" => ticket[c] \in ok
    /\ ticket[c] <= batches
    /\ ticket[c] \in ok => store[KeyOf[c]] >= arrival[c]
    /\ (ticket[c] # 0 /\ ticket[c] = open) => items[KeyOf[c]] >= arrival[c]
    /\ \A w \in Writer :
          (ticket[c] # 0 /\ ticket[c] = hand[w]) => load[w][KeyOf[c]] >= arrival[c]
Tracked == \A c \in Caller : Rides(c)

GroupInv == GroupTypeOK /\ Serial /\ Placed /\ Ordered /\ Tracked

-----------------------------------------------------------------------------
(* There is no batch and storage is empty.                                 *)
LEMMA InitGroupInv == GroupInit => GroupInv
  <1> SUFFICES ASSUME GroupInit PROVE GroupInv
    OBVIOUS
  <1> USE GroupCommitAssumption DEF GroupInit, Nothing
  <1>1. \A w \in Writer : at[w] # "writing"
    OBVIOUS
  <1>2. GroupTypeOK
    <2>1. at \in [Writer -> {"off", "select", "taking", "waiting", "writing", "ended",
                             "nil", "error"}]
      OBVIOUS
    <2>2. /\ items \in [Key -> Nat] /\ store \in [Key -> Nat]
          /\ load \in [Writer -> [Key -> Nat]] /\ hand \in [Writer -> Nat]
      OBVIOUS
    <2>3. /\ pc \in [Caller -> {"idle", "waiting", "unknown", "refused", "nil", "error"}]
          /\ arrival \in [Caller -> Nat] /\ ticket \in [Caller -> Nat]
      OBVIOUS
    <2> QED
      BY <2>1, <2>2, <2>3 DEF GroupTypeOK
  <1>3. Serial /\ Placed
    <2>1. \A w \in Writer : hand[w] = 0 /\ load[w] = Nothing
      OBVIOUS
    <2>2. Closer \subseteq Writer
      BY DEF Writer
    <2> QED
      BY <1>1, <2>1, <2>2 DEF Serial, Placed
  <1>4. Ordered
    <2>1. \A k \in Key : items[k] = 0 /\ store[k] = 0 /\ clock = 0
      OBVIOUS
    <2>2. \A w \in Writer : \A k \in Key : load[w][k] = 0
      OBVIOUS
    <2> QED
      BY <2>1, <2>2 DEF Ordered
  <1>5. Tracked
    <2> SUFFICES ASSUME NEW c \in Caller PROVE Rides(c)
      BY DEF Tracked
    <2>1. pc[c] # "nil" /\ ticket[c] = 0 /\ ticket[c] <= batches /\ ticket[c] \notin ok
      OBVIOUS
    <2> QED
      BY <2>1 DEF Rides
  <1> QED
    BY <1>2, <1>3, <1>4, <1>5 DEF GroupInv

(* The steps of a Submit after its join, and Refused, change no batch.     *)
LEMMA CallerKeeps ==
  ASSUME GroupInv, NEW c \in Caller, Refused(c) \/ Answer(c) \/ GiveUp(c)
  PROVE  GroupInv'
  <1> USE DEF Refused, Answer, GiveUp, batchVars, writeVars
  <1>1. GroupTypeOK'
    BY DEF GroupInv, GroupTypeOK
  <1>2. Serial' /\ Placed' /\ Ordered'
    BY DEF GroupInv, Serial, Placed, Ordered
  <1>3. Tracked'
    BY DEF GroupInv, GroupTypeOK, Tracked, Rides
  <1> QED
    BY <1>1, <1>2, <1>3 DEF GroupInv

(* Submit adds its item to the open batch.                                 *)
LEMMA JoinKeeps ==
  ASSUME GroupInv, NEW c \in Caller, Join(c)
  PROVE  GroupInv'
  <1> USE GroupCommitAssumption
  <1>1. /\ pc' = [pc EXCEPT ![c] = "waiting"]
        /\ arrival' = [arrival EXCEPT ![c] = clock + 1]
        /\ ticket' = [ticket EXCEPT ![c] = open']
        /\ items' = [items EXCEPT ![KeyOf[c]] = clock + 1]
        /\ clock' = clock + 1
        /\ open' = IF open = 0 THEN batches + 1 ELSE open
        /\ batches' = IF open = 0 THEN batches + 1 ELSE batches
        /\ wake' = TRUE /\ ~closed
        /\ UNCHANGED <<stop, closed, at, hand, load, store, ok, failed>>
    BY DEF Join, JoinAs, writeVars
  <1>2. open' \in Nat /\ open' # 0 /\ batches' \in Nat /\ batches' >= batches
        /\ clock + 1 \in Nat /\ open' <= batches'
    BY <1>1 DEF GroupInv, GroupTypeOK, Placed
  <1>3. GroupTypeOK'
    BY <1>1, <1>2 DEF GroupInv, GroupTypeOK
  <1>4. Serial'
    BY <1>1 DEF GroupInv, Serial
  <1>5. open' \notin ok /\ \A w \in Writer : at[w] = "writing" => hand[w] # open'
    BY <1>1, <1>2 DEF GroupInv, GroupTypeOK, Placed
  <1>6. Placed'
    BY <1>1, <1>2, <1>5 DEF GroupInv, GroupTypeOK, Placed
  <1>7. \A k \in Key : items'[k] = IF k = KeyOf[c] THEN clock + 1 ELSE items[k]
    BY <1>1 DEF GroupInv, GroupTypeOK
  <1>8. Ordered'
    BY <1>1, <1>7 DEF GroupInv, GroupTypeOK, Ordered
  <1>9. ASSUME NEW d \in Caller PROVE Rides(d)'
    <2>1. \A w \in Writer : hand[w] # open'
      BY <1>2, <1>5 DEF GroupInv, Placed
    <2>2. CASE d = c
      <3>1. pc'[d] = "waiting" /\ ticket'[d] = open' /\ arrival'[d] = clock + 1
        BY <1>1, <2>2 DEF GroupInv, GroupTypeOK
      <3>2. items'[KeyOf[d]] = clock + 1
        BY <1>7, <2>2
      <3> QED
        BY <1>1, <1>2, <1>5, <2>1, <3>1, <3>2 DEF Rides
    <2>3. CASE d # c
      <3>1. pc'[d] = pc[d] /\ ticket'[d] = ticket[d] /\ arrival'[d] = arrival[d]
        BY <1>1, <2>3 DEF GroupInv, GroupTypeOK
      <3>2. ticket[d] \in Nat /\ ticket[d] <= batches /\ Rides(d)
        BY DEF GroupInv, GroupTypeOK, Tracked, Rides
      <3>3. ticket[d] # 0 /\ ticket[d] = open' => ticket[d] = open
        BY <1>1, <3>2 DEF GroupInv, GroupTypeOK
      <3>4. items'[KeyOf[d]] \in Nat /\ items[KeyOf[d]] \in Nat /\ arrival[d] \in Nat
        BY <1>3 DEF GroupInv, GroupTypeOK
      <3>5. items'[KeyOf[d]] >= items[KeyOf[d]]
        BY <1>7, <3>4 DEF GroupInv, GroupTypeOK, Ordered
      <3>6. batches \in Nat
        BY DEF GroupInv, GroupTypeOK
      <3> QED
        BY <1>1, <1>2, <3>1, <3>2, <3>3, <3>4, <3>5, <3>6 DEF Rides
    <2> QED
      BY <2>2, <2>3
  <1> QED
    BY <1>3, <1>4, <1>6, <1>8, <1>9 DEF GroupInv, Tracked

(* Detach moves the open batch, with its items, into w's hands.            *)
LEMMA DetachKeeps ==
  ASSUME GroupInv, NEW w \in Writer, Detach(w), NEW rest,
         rest \in {"select", "nil"},
         at' = [at EXCEPT ![w] = IF open = 0 THEN rest ELSE "writing"],
         \A v \in Writer : at[v] # "writing",
         UNCHANGED <<callerVars, wake, stop, store, ok, failed>>,
         closed' \in BOOLEAN
  PROVE  GroupTypeOK' /\ Placed' /\ Ordered' /\ Tracked'
  <1>1. /\ hand' = [hand EXCEPT ![w] = open] /\ load' = [load EXCEPT ![w] = items]
        /\ open' = 0 /\ items' = Nothing
        /\ UNCHANGED <<pc, arrival, ticket, clock, batches, wake, stop, store, ok, failed>>
    BY DEF Detach, callerVars
  <1>2. Nothing \in [Key -> Nat] /\ \A k \in Key : Nothing[k] = 0
    BY DEF Nothing
  <1>3. GroupTypeOK'
    BY <1>1, <1>2 DEF GroupInv, GroupTypeOK
  <1>4. \A v \in Writer : /\ hand'[v] = IF v = w THEN open ELSE hand[v]
                          /\ load'[v] = IF v = w THEN items ELSE load[v]
                          /\ at'[v] = IF v # w THEN at[v]
                                      ELSE IF open = 0 THEN rest ELSE "writing"
    BY <1>1 DEF GroupInv, GroupTypeOK
  <1>5. Placed'
    BY <1>1, <1>4 DEF GroupInv, GroupTypeOK, Placed
  <1>6. Ordered'
    BY <1>1, <1>2, <1>4 DEF GroupInv, GroupTypeOK, Ordered
  <1>7. ASSUME NEW c \in Caller PROVE Rides(c)'
    <2>1. Rides(c)
      BY DEF GroupInv, Tracked
    <2> QED
      BY <1>1, <1>4, <2>1 DEF Rides
  <1> QED
    BY <1>3, <1>5, <1>6, <1>7 DEF Tracked

(* The flusher takes the open batch.                                       *)
LEMMA TakeBatchKeeps == ASSUME GroupInv, TakeBatch PROVE GroupInv'
  <1> USE GroupCommitAssumption
  <1>1. at[Flusher] = "taking" /\ Flusher \in Writer /\ Closer \subseteq Writer /\ ~closed
    BY DEF TakeBatch, Writer, GroupInv, Serial
  <1>2. \A v \in Writer : at[v] # "writing"
    BY <1>1 DEF GroupInv, Serial, Writer
  <1>3. GroupTypeOK' /\ Placed' /\ Ordered' /\ Tracked'
    BY <1>1, <1>2, DetachKeeps DEF TakeBatch, Goes, GroupInv, GroupTypeOK
  <1>4. Serial'
    BY <1>1, <1>2 DEF TakeBatch, Goes, Serial, Writer, GroupInv, GroupTypeOK
  <1> QED
    BY <1>3, <1>4 DEF GroupInv

(* Close takes what the flusher left.                                      *)
LEMMA TakeLastKeeps == ASSUME GroupInv, NEW z \in Closer, TakeLast(z) PROVE GroupInv'
  <1> USE GroupCommitAssumption
  <1>1. /\ at[Flusher] = "ended" /\ at[z] = "waiting" /\ z # Flusher
        /\ Flusher \in Writer /\ z \in Writer /\ Closer \subseteq Writer
    BY DEF TakeLast, Writer
  <1>2. CASE closed
    <2>1. open = 0 /\ open' = 0 /\ closed'
      BY <1>2 DEF GroupInv, Serial, TakeLast, FinalBatch, Detach
    <2>2. \A k \in Key : Nothing[k] = 0
      BY DEF Nothing
    <2>3. items = Nothing /\ hand[z] = 0 /\ load[z] = Nothing
      BY <1>1, <2>1 DEF GroupInv, Placed
    <2>4. hand' = hand /\ load' = load /\ items' = items
      BY <2>1, <2>3, <1>1 DEF TakeLast, FinalBatch, Detach, GroupInv, GroupTypeOK
    <2>5. at' = [at EXCEPT ![z] = "nil"]
      BY <2>1 DEF TakeLast, FinalBatch, Goes
    <2>6. UNCHANGED <<pc, arrival, ticket, clock, batches, wake, stop, store, ok, failed, open>>
      BY <2>1 DEF TakeLast, FinalBatch, callerVars
    <2>7. GroupTypeOK'
      BY <2>1, <2>4, <2>5, <2>6 DEF GroupInv, GroupTypeOK
    <2>8. Serial'
      BY <1>1, <2>1, <2>5, <2>6 DEF GroupInv, GroupTypeOK, Serial
    <2>9. Placed'
      BY <1>1, <2>3, <2>4, <2>5, <2>6 DEF GroupInv, GroupTypeOK, Placed
    <2>10. Ordered' /\ Tracked'
      BY <2>4, <2>6 DEF GroupInv, Ordered, Tracked, Rides
    <2> QED
      BY <2>7, <2>8, <2>9, <2>10 DEF GroupInv
  <1>3. CASE ~closed
    <2>1. \A v \in Writer : at[v] # "writing"
      BY <1>1, <1>3 DEF GroupInv, Serial, Writer
    <2>2. /\ Detach(z) /\ closed' = TRUE
          /\ at' = [at EXCEPT ![z] = IF open = 0 THEN "nil" ELSE "writing"]
          /\ UNCHANGED <<callerVars, wake, stop, store, ok, failed>>
      BY DEF TakeLast, FinalBatch, Goes
    <2>3. GroupTypeOK' /\ Placed' /\ Ordered' /\ Tracked'
      BY <1>1, <2>1, <2>2, DetachKeeps
    <2>4. Serial'
      BY <1>1, <2>1, <2>2 DEF Serial, Detach, GroupInv, GroupTypeOK
    <2> QED
      BY <2>3, <2>4 DEF GroupInv
  <1> QED
    BY <1>2, <1>3

(* A write stores, for some keys, what is newer than what was stored.      *)
LEMMA WriteKeeps ==
  ASSUME GroupInv, NEW w \in Writer, Write(w)
  PROVE  GroupInv' /\ \A k \in Key : store'[k] >= store[k]
  <1> USE GroupCommitAssumption
  <1>1. /\ at[w] = "writing"
        /\ hand' = [hand EXCEPT ![w] = 0] /\ load' = [load EXCEPT ![w] = Nothing]
        /\ UNCHANGED <<pc, arrival, ticket, clock, batches, open, items, wake, stop, closed>>
    BY DEF Write, callerVars, batchVars
  <1>2. PICK part \in SUBSET Key : /\ store' = Put(part, w)
                                   /\ ok' # ok => part = Key
    BY DEF Write
  <1>3. ok' \in {ok, ok \cup {hand[w]}} /\ failed' \in {failed, failed \cup {hand[w]}}
    BY DEF Write
  <1>4. PICK where \in {"select", "nil", "error"} : at' = [at EXCEPT ![w] = where]
    BY DEF Write, Goes
  <1>5. Nothing \in [Key -> Nat] /\ \A k \in Key : Nothing[k] = 0
    BY DEF Nothing
  <1>6. \A k \in Key : store'[k] = IF k \in part /\ load[w][k] # 0 THEN load[w][k] ELSE store[k]
    BY <1>2 DEF Put
  <1>7. \A k \in Key : /\ load[w][k] \in Nat /\ store[k] \in Nat /\ items[k] \in Nat
                       /\ load[w][k] # 0 => load[w][k] > store[k]
                       /\ load[w][k] <= clock
    BY DEF GroupInv, GroupTypeOK, Ordered
  <1>8. store' \in [Key -> Nat] /\ \A k \in Key : store'[k] >= store[k]
    BY <1>2, <1>6, <1>7 DEF Put
  <1>9. \A v \in Writer : /\ hand'[v] = IF v = w THEN 0 ELSE hand[v]
                          /\ load'[v] = IF v = w THEN Nothing ELSE load[v]
                          /\ at'[v] = IF v = w THEN where ELSE at[v]
    BY <1>1, <1>4 DEF GroupInv, GroupTypeOK
  <1>10. \A v \in Writer : v # w => at[v] # "writing" /\ hand[v] = 0 /\ load[v] = Nothing
    BY <1>1 DEF GroupInv, Serial, Placed
  <1>11. hand[w] \in Nat /\ hand[w] # 0 /\ hand[w] # open /\ hand[w] <= batches
    BY <1>1 DEF GroupInv, GroupTypeOK, Placed
  <1>12. GroupTypeOK'
    BY <1>1, <1>3, <1>4, <1>5, <1>8, <1>11 DEF GroupInv, GroupTypeOK
  <1>13. Serial'
    <2>1. closed => at[Flusher] = "ended" /\ w # Flusher
      BY <1>1 DEF GroupInv, Serial
    <2> QED
      BY <1>1, <1>9, <2>1 DEF GroupInv, Serial, Writer
  <1>14. Placed'
    BY <1>1, <1>3, <1>9, <1>10, <1>11 DEF GroupInv, GroupTypeOK, Placed
  <1>15. Ordered'
    BY <1>1, <1>5, <1>6, <1>7, <1>9, <1>10 DEF GroupInv, GroupTypeOK, Ordered
  <1>16. ASSUME NEW c \in Caller PROVE Rides(c)'
    <2>1. Rides(c) /\ KeyOf[c] \in Key /\ arrival[c] \in Nat /\ ticket[c] \in Nat
      BY DEF GroupInv, Tracked, GroupTypeOK
    <2>2. store'[KeyOf[c]] \in Nat /\ store'[KeyOf[c]] >= store[KeyOf[c]] /\ store[KeyOf[c]] \in Nat
      BY <1>7, <1>8, <2>1
    <2>3. ASSUME ticket[c] \in ok', ticket[c] \notin ok PROVE store'[KeyOf[c]] >= arrival[c]
      <3>1. ticket[c] = hand[w] /\ part = Key /\ ticket[c] # 0
        BY <1>2, <1>3, <1>11, <2>3
      <3>2. load[w][KeyOf[c]] >= arrival[c]
        BY <2>1, <3>1 DEF Rides
      <3> QED
        BY <1>6, <1>7, <2>1, <2>2, <3>1, <3>2
    <2>4. ticket[c] \in ok' => store'[KeyOf[c]] >= arrival[c]
      BY <2>1, <2>2, <2>3 DEF Rides
    <2> QED
      BY <1>1, <1>3, <1>9, <1>10, <2>1, <2>4 DEF Rides
  <1> QED
    BY <1>8, <1>12, <1>13, <1>14, <1>15, <1>16 DEF GroupInv, Tracked

(* The flusher's select and Close's signal touch no batch.                 *)
LEMMA SignalKeeps ==
  ASSUME GroupInv, Woken \/ RunStops \/ \E z \in Closer : Close(z)
  PROVE  GroupInv'
  <1> USE GroupCommitAssumption
  <1>1. PICK w \in Writer, where \in {"taking", "ended", "waiting"} :
           /\ at' = [at EXCEPT ![w] = where]
           /\ at[w] \in {"select", "off"}
           /\ w = Flusher => at[w] = "select"
    BY DEF Woken, RunStops, Close, Goes, Writer
  <1>2. /\ UNCHANGED <<pc, arrival, ticket, clock, batches, open, items, closed, hand, load,
                       store, ok, failed>>
        /\ wake' \in {wake, FALSE} /\ stop' \in {stop, TRUE}
    BY DEF Woken, RunStops, Close, callerVars, batchVars, writeVars
  <1>3. GroupTypeOK'
    BY <1>1, <1>2 DEF GroupInv, GroupTypeOK
  <1>4. \A v \in Writer : at'[v] = IF v = w THEN where ELSE at[v]
    BY <1>1 DEF GroupInv, GroupTypeOK
  <1>5. Serial'
    BY <1>1, <1>2, <1>4 DEF GroupInv, Serial, Writer
  <1>6. Placed'
    BY <1>1, <1>2, <1>4 DEF GroupInv, Placed
  <1>7. Ordered' /\ Tracked'
    BY <1>2 DEF GroupInv, Ordered, Tracked, Rides
  <1> QED
    BY <1>3, <1>5, <1>6, <1>7 DEF GroupInv

(* Submit, the flusher, the writers and Close keep the invariant.          *)
LEMMA GroupInvStep == GroupInv /\ [GroupNext]_gcVars => GroupInv'
  <1> SUFFICES ASSUME GroupInv, [GroupNext]_gcVars PROVE GroupInv'
    OBVIOUS
  <1>1. CASE UNCHANGED gcVars
    BY <1>1 DEF gcVars, GroupInv, GroupTypeOK, Serial, Placed, Ordered, Tracked, Rides
  <1> QED
    BY <1>1, CallerKeeps, JoinKeeps, TakeBatchKeeps, TakeLastKeeps, WriteKeeps, SignalKeeps
       DEF GroupNext

(* When Submit has returned nil, storage holds its item or a later one.    *)
THEOREM SubmitReadsItsWrite == GroupSpec => []ReadYourWrite
  <1>1. GroupInv => ReadYourWrite
    BY DEF GroupInv, Tracked, Rides, ReadYourWrite
  <1> QED
    BY <1>1, InitGroupInv, GroupInvStep, PTL DEF GroupSpec

(* No write takes a key in storage back to an earlier arrival.             *)
THEOREM NoWriteRegresses == GroupSpec => StoreNeverRegresses
  <1>1. GroupInv /\ [GroupNext]_gcVars => [\A k \in Key : store'[k] >= store[k]]_gcVars
    <2> SUFFICES ASSUME GroupInv, GroupNext PROVE \A k \in Key : store'[k] >= store[k]
      OBVIOUS
    <2>1. CASE \E w \in Writer : Write(w)
      BY <2>1, WriteKeeps
    <2>2. CASE UNCHANGED store
      BY <2>2 DEF GroupInv, GroupTypeOK
    <2> QED
      BY <2>1, <2>2 DEF GroupNext, Join, JoinAs, Refused, Answer, GiveUp, Woken, RunStops,
                        TakeBatch, Close, TakeLast, FinalBatch, writeVars
  <1> QED
    BY <1>1, InitGroupInv, GroupInvStep, PTL DEF GroupSpec, StoreNeverRegresses

(* An open batch is one the flusher, or a Close, is bound to come for.     *)
THEOREM NoBatchIsForgotten == GroupSpec => []NoLostWakeup
  <1>1. GroupInit => NoLostWakeup
    BY DEF GroupInit, NoLostWakeup
  <1>2. GroupInv /\ NoLostWakeup /\ [GroupNext]_gcVars => NoLostWakeup'
    <2> SUFFICES ASSUME GroupInv, NoLostWakeup, [GroupNext]_gcVars PROVE NoLostWakeup'
      OBVIOUS
    <2> USE GroupCommitAssumption DEF NoLostWakeup
    <2>1. ASSUME NEW c \in Caller, Join(c) PROVE NoLostWakeup'
      BY <2>1 DEF Join, JoinAs
    <2>2. ASSUME NEW c \in Caller, Refused(c) \/ Answer(c) \/ GiveUp(c) PROVE NoLostWakeup'
      BY <2>2 DEF Refused, Answer, GiveUp, batchVars
    <2>3. CASE Woken
      BY <2>3 DEF Woken, Goes, GroupInv, GroupTypeOK, Writer
    <2>4. CASE RunStops
      BY <2>4 DEF RunStops, batchVars
    <2>5. CASE TakeBatch \/ \E z \in Closer : TakeLast(z)
      BY <2>5 DEF TakeBatch, TakeLast, FinalBatch, Detach
    <2>6. ASSUME NEW w \in Writer, Write(w) PROVE NoLostWakeup'
      BY <2>6 DEF Write, Goes, batchVars, GroupInv, GroupTypeOK, Writer
    <2>7. ASSUME NEW z \in Closer, Close(z) PROVE NoLostWakeup'
      BY <2>7 DEF Close, batchVars
    <2>8. CASE UNCHANGED gcVars
      BY <2>8 DEF gcVars
    <2> QED
      BY <2>1, <2>2, <2>3, <2>4, <2>5, <2>6, <2>7, <2>8 DEF GroupNext
  <1> QED
    BY <1>1, <1>2, InitGroupInv, GroupInvStep, PTL DEF GroupSpec

-----------------------------------------------------------------------------
(* Buffer.                                                                 *)

Busy == {"writing", "finishing"}

(* One flush at a time: run is over before a Close flushes, and the first  *)
(* Close to flush leaves the others nothing.                               *)
OneFlush ==
    /\ shut => stage[BufRun] = "ended"
    /\ \A z \in BufCloser : stage[z] \in Busy \cup {"flush", "returned"} => shut
    /\ \A z \in BufCloser : stage[z] \in Busy \cup {"returned"} => pending = {}
    /\ \A v, w \in BufWriter : stage[v] \in Busy /\ stage[w] \in Busy => v = w

(* What each writer carries, and what is published, by where it is.        *)
Published ==
    /\ \A w \in BufWriter : stage[w] = "writing" => flushing = carry[w]
    /\ \A w \in BufWriter : stage[w] # "writing" => carry[w] = {}

BufferInv ==
    /\ stage \in [BufWriter -> {"off", "select", "flush", "waiting", "writing", "finishing",
                          "ended", "returned"}]
    /\ carry \in [BufWriter -> SUBSET BufKey]
    /\ pending \subseteq BufKey
    /\ owned \in [Taker -> SUBSET BufKey]
    /\ OneFlush
    /\ Published
    /\ TakeExcludesFlush

-----------------------------------------------------------------------------
(* The buffer is empty and nothing is in flight.                           *)
LEMMA InitBufferInv == BufferInit => BufferInv
  <1> SUFFICES ASSUME BufferInit PROVE BufferInv
    OBVIOUS
  <1> USE BufferAssumption DEF BufferInit
  <1>1. \A w \in BufWriter : stage[w] \in {"select", "off"} /\ carry[w] = {}
    OBVIOUS
  <1>2. stage \in [BufWriter -> {"off", "select", "flush", "waiting", "writing", "finishing",
                           "ended", "returned"}]
    OBVIOUS
  <1>3. OneFlush
    BY <1>1 DEF OneFlush, Busy, BufWriter
  <1>4. Published
    BY <1>1 DEF Published
  <1>5. TakeExcludesFlush
    BY DEF TakeExcludesFlush
  <1> QED
    BY <1>2, <1>3, <1>4, <1>5 DEF BufferInv

(* A step that only moves one writer, between two places where it carries  *)
(* nothing, and adds nothing.                                              *)
LEMMA MoveKeeps ==
  ASSUME BufferInv, NEW w \in BufWriter, NEW where \in {"flush", "ended", "waiting"},
         stage' = [stage EXCEPT ![w] = where],
         stage[w] \in {"select", "off", "waiting"},
         where = "ended" => w = BufRun,
         w = BufRun => stage[w] = "select" /\ shut' = shut,
         (where = "flush" /\ w # BufRun) => shut',
         shut' # shut => shut' /\ stage[BufRun] = "ended",
         UNCHANGED <<pending, flushing, carry, owned>>
  PROVE  BufferInv'
  <1> USE BufferAssumption
  <1>1. \A v \in BufWriter : stage'[v] = IF v = w THEN where ELSE stage[v]
    BY DEF BufferInv
  <1>2. BufRun \in BufWriter /\ BufCloser \subseteq BufWriter
    BY DEF BufWriter
  <1>3. OneFlush'
    BY <1>1, <1>2 DEF BufferInv, OneFlush, Busy
  <1>4. Published'
    BY <1>1 DEF BufferInv, Published
  <1>5. TakeExcludesFlush'
    BY DEF BufferInv, TakeExcludesFlush
  <1> QED
    BY <1>3, <1>4, <1>5 DEF BufferInv

(* Add makes its key pending, and no Take's any more.                      *)
LEMMA AddKeeps ==
  ASSUME BufferInv, NEW keys \in SUBSET BufKey, Add(keys) \/ AddDropped(keys)
  PROVE  BufferInv'
  <1>1. CASE Add(keys)
    <2>1. stage' = stage /\ carry' = carry /\ ~shut /\ shut' = shut /\ flushing' = flushing
      BY <1>1 DEF Add, carryVars
    <2>2. OneFlush' /\ Published'
      BY <2>1 DEF BufferInv, OneFlush, Published
    <2>3. \A t \in Taker : owned'[t] = owned[t] \ keys
      BY <1>1 DEF Add
    <2>4. TakeExcludesFlush'
      BY <1>1, <2>1, <2>3 DEF Add, BufferInv, TakeExcludesFlush
    <2> QED
      BY <1>1, <2>1, <2>2, <2>4 DEF Add, BufferInv
  <1>2. CASE AddDropped(keys)
    BY <1>2 DEF AddDropped, carryVars, BufferInv, OneFlush, Published, TakeExcludesFlush
  <1> QED
    BY <1>1, <1>2

(* Take returns only when none of its keys is in flight.                   *)
LEMMA TakeKeeps ==
  ASSUME BufferInv, NEW t \in Taker, Take(t)
  PROVE  BufferInv'
  <1> USE BufferAssumption
  <1>1. /\ stage' = stage /\ carry' = carry /\ shut' = shut /\ flushing' = flushing
        /\ pending' = pending \ Wanted[t] /\ flushing \cap Wanted[t] = {}
        /\ owned' = [owned EXCEPT ![t] = Wanted[t]]
    BY DEF Take, TakeKeys, carryVars
  <1>2. OneFlush' /\ Published'
    BY <1>1 DEF BufferInv, OneFlush, Published
  <1>3. \A w \in BufWriter : carry[w] \cap Wanted[t] = {}
    BY <1>1 DEF BufferInv, Published
  <1>4. TakeExcludesFlush'
    <2> SUFFICES ASSUME NEW u \in Taker
                 PROVE  owned'[u] \cap (pending' \cup UNION {carry'[w] : w \in BufWriter}) = {}
      BY DEF TakeExcludesFlush
    <2>1. CASE u = t
      BY <1>1, <1>3, <2>1 DEF BufferInv
    <2>2. CASE u # t
      BY <1>1, <2>2 DEF BufferInv, TakeExcludesFlush
    <2> QED
      BY <2>1, <2>2
  <1> QED
    BY <1>1, <1>2, <1>4 DEF BufferInv

(* The pending keys go to w, and no taker owned any of them.               *)
LEMMA TakeForFlushKeeps ==
  ASSUME BufferInv, NEW w \in BufWriter, TakeForFlush(w)
  PROVE  BufferInv'
  <1> USE BufferAssumption
  <1>1. /\ stage[w] = "flush" /\ pending' = {} /\ carry' = [carry EXCEPT ![w] = pending]
        /\ flushing' = IF pending = {} THEN flushing ELSE pending
        /\ stage' = [stage EXCEPT ![w] = IF pending = {} THEN Rest(w) ELSE "writing"]
        /\ shut' = shut /\ owned' = owned
    BY DEF TakeForFlush, WriterGoes
  <1>2. \A v \in BufWriter : /\ stage'[v] = IF v # w THEN stage[v]
                                      ELSE IF pending = {} THEN Rest(w) ELSE "writing"
                          /\ carry'[v] = IF v = w THEN pending ELSE carry[v]
    BY <1>1 DEF BufferInv
  <1>3. BufRun \in BufWriter /\ BufCloser \subseteq BufWriter /\ (w # BufRun => w \in BufCloser)
        /\ Rest(w) = IF w = BufRun THEN "select" ELSE "returned"
    BY DEF BufWriter, Rest
  <1>4. pending # {} => \A v \in BufWriter : stage[v] \notin Busy
    BY <1>1, <1>3 DEF BufferInv, OneFlush, Busy, BufWriter
  <1>5. OneFlush'
    BY <1>1, <1>2, <1>3, <1>4 DEF BufferInv, OneFlush, Busy
  <1>6. Published'
    BY <1>1, <1>2, <1>3, <1>4 DEF BufferInv, Published, Busy
  <1>7. TakeExcludesFlush'
    BY <1>1, <1>2 DEF BufferInv, TakeExcludesFlush
  <1>8. stage' \in [BufWriter -> {"off", "select", "flush", "waiting", "writing", "finishing",
                            "ended", "returned"}]
    BY <1>1, <1>3 DEF BufferInv
  <1> QED
    BY <1>1, <1>5, <1>6, <1>7, <1>8 DEF BufferInv

(* A write ends, with or without an error.                                 *)
LEMMA WrittenKeeps ==
  ASSUME BufferInv, NEW w \in BufWriter, Written(w)
  PROVE  BufferInv'
  <1> USE BufferAssumption
  <1>1. /\ stage[w] = "writing" /\ carry' = [carry EXCEPT ![w] = {}]
        /\ stage' = [stage EXCEPT ![w] = "finishing"]
        /\ UNCHANGED <<pending, flushing, shut, owned>>
    BY DEF Written, WriterGoes
  <1>2. \A v \in BufWriter : /\ stage'[v] = IF v = w THEN "finishing" ELSE stage[v]
                          /\ carry'[v] = IF v = w THEN {} ELSE carry[v]
    BY <1>1 DEF BufferInv
  <1>3. OneFlush'
    BY <1>1, <1>2 DEF BufferInv, OneFlush, Busy, BufWriter
  <1>4. Published'
    BY <1>1, <1>2 DEF BufferInv, Published
  <1>5. TakeExcludesFlush'
    BY <1>1, <1>2 DEF BufferInv, TakeExcludesFlush
  <1> QED
    BY <1>1, <1>3, <1>4, <1>5 DEF BufferInv

(* The flush withdraws what it had published.                              *)
LEMMA FinishFlushKeeps ==
  ASSUME BufferInv, NEW w \in BufWriter, FinishFlush(w)
  PROVE  BufferInv'
  <1> USE BufferAssumption
  <1>1. /\ stage[w] = "finishing" /\ stage' = [stage EXCEPT ![w] = Rest(w)]
        /\ UNCHANGED <<pending, carry, shut, owned>>
    BY DEF FinishFlush, WriterGoes
  <1>2. \A v \in BufWriter : stage'[v] = IF v = w THEN Rest(w) ELSE stage[v]
    BY <1>1 DEF BufferInv
  <1>3. BufRun \in BufWriter /\ BufCloser \subseteq BufWriter
        /\ Rest(w) = IF w = BufRun THEN "select" ELSE "returned"
    BY DEF BufWriter, Rest
  <1>4. OneFlush'
    BY <1>1, <1>2, <1>3 DEF BufferInv, OneFlush, Busy
  <1>5. \A v \in BufWriter : stage'[v] # "writing"
    BY <1>1, <1>2, <1>3 DEF BufferInv, OneFlush, Busy
  <1>6. Published'
    BY <1>1, <1>2, <1>5 DEF BufferInv, Published
  <1>7. TakeExcludesFlush'
    BY <1>1 DEF BufferInv, TakeExcludesFlush
  <1> QED
    BY <1>1, <1>3, <1>4, <1>6, <1>7 DEF BufferInv

(* Add, Take, the flusher and Close keep the invariant.                    *)
LEMMA BufferInvStep == BufferInv /\ [BufferNext]_bufVars => BufferInv'
  <1> SUFFICES ASSUME BufferInv, [BufferNext]_bufVars PROVE BufferInv'
    OBVIOUS
  <1> USE BufferAssumption
  <1>1. ASSUME NEW t \in Taker, TakeCall(t) \/ TakeParks(t) \/ TakeCancelled(t)
        PROVE  BufferInv'
    BY <1>1
       DEF TakeCall, TakeParks, TakeCancelled, carryVars, BufferInv, OneFlush, Published,
                TakeExcludesFlush
  <1>2. CASE Fire
    BY <1>2, MoveKeeps DEF Fire, WriterGoes, BufWriter
  <1>3. CASE BufferStops
    BY <1>3, MoveKeeps DEF BufferStops, WriterGoes, BufWriter
  <1>4. ASSUME NEW z \in BufCloser, CloseBuffer(z) PROVE BufferInv'
    BY <1>4, MoveKeeps DEF CloseBuffer, WriterGoes, BufWriter
  <1>5. ASSUME NEW z \in BufCloser, CloseFlush(z) PROVE BufferInv'
    BY <1>5, MoveKeeps DEF CloseFlush, WriterGoes, BufWriter
  <1>6. CASE UNCHANGED bufVars
    BY <1>6 DEF bufVars, BufferInv, OneFlush, Published, TakeExcludesFlush
  <1> QED
    BY <1>1, <1>2, <1>3, <1>4, <1>5, <1>6, AddKeeps, TakeKeeps, TakeForFlushKeeps,
       WrittenKeeps, FinishFlushKeeps
       DEF BufferNext, WriterStep

(* Once Take has returned, the keys it asked for are out of the buffer's   *)
(* reach until one is Added again.                                         *)
THEOREM TakeIsExclusive == BufferSpec => []TakeExcludesFlush
  <1>1. BufferInv => TakeExcludesFlush
    BY DEF BufferInv
  <1> QED
    BY <1>1, InitBufferInv, BufferInvStep, PTL DEF BufferSpec

(* What is in flight is what is published as in flight.                    *)
THEOREM InFlightIsPublished == BufferSpec => []FlushIsPublished
  <1>1. BufferInv => FlushIsPublished
    BY DEF BufferInv, Published, FlushIsPublished
  <1> QED
    BY <1>1, InitBufferInv, BufferInvStep, PTL DEF BufferSpec

-----------------------------------------------------------------------------
(* The stream of completion chunks, which gathers the pieces of tool calls.*)

(* What the stream keeps of a call, and what it hands out.                 *)
ToolCall == [id : ToolID, args : Seq(Char)]
StreamEvent == [type : {"tool"}, id : ToolID, args : Seq(Char)] \cup {DeltaEvent, DoneEvent}

(* The types; no call is begun twice.                                      *)
StreamTyped ==
    /\ begun \in Seq(ToolID) /\ whole \in [ToolID -> Seq(Char)]
    /\ tools \in Seq(ToolCall) /\ emittedTo \in Nat
    /\ yielded \in Seq(StreamEvent) /\ queued \in Seq(StreamEvent)
    /\ upstream \in {"sending", "over"} /\ liveChans \subseteq Chan
    /\ pieceStyle \in PieceStyle
    /\ \A i, j \in 1..Len(begun) : begun[i] = begun[j] => i = j

(* The i-th call has all of its arguments, and the event of it had, if     *)
(* each piece of it had a sure place.                                      *)
Given(i) == begun[i] \notin confused => tools[i].args = whole[begun[i]]
Told(e, i) == /\ e.type = "tool" /\ e.id = begun[i]
              /\ begun[i] \notin confused => e.args = whole[begun[i]]

(* The piece on offer is what is missing of the last call.                 *)
Completes(sofar, args, id) ==
    /\ whole[id] = sofar \o args /\ args \in Seq(Char)
    /\ \/ offered = Piece(NoID, args)
       \/ offered = Piece(id, whole[id])
       \/ offered = Piece(id, args) /\ ~Ambiguous(sofar, args)

(* Nothing is on its way; or the beginning of a call is; or more of one:   *)
(* of an earlier one, which has no sure place then, or of the last.        *)
Between == /\ offered \in {NoOffer, TextChunk, ErrorValue}
           /\ Len(tools) = Len(begun) /\ \A i \in 1..Len(tools) : Given(i)
Opening == /\ Len(begun) = Len(tools) + 1 /\ \A i \in 1..Len(tools) : Given(i)
           /\ offered = Piece(begun[Len(begun)], whole[begun[Len(begun)]])
IsPiece == /\ offered.on = "chunks" /\ offered.type = "call" /\ offered.args \in Seq(Char)
           /\ offered.id = NoID \/ \E i \in 1..Len(begun) : offered.id = begun[i]
           /\ \A i \in 1..Len(begun) - 1 : offered.id = begun[i] => begun[i] \in confused
Fits(n) == \/ Given(n) /\ offered.id \notin {NoID, begun[n]}
           \/ \E args \in Seq(Char) : Completes(tools[n].args, args, begun[n])
Going == /\ Len(begun) = Len(tools) /\ tools # <<>> /\ IsPiece
         /\ \A i \in 1..Len(tools) - 1 : Given(i)
         /\ begun[Len(tools)] \notin confused => Fits(Len(tools))

(* The calls the stream knows are the first the provider began. The last   *)
(* one is not among those that were emitted while more of it may come.     *)
ToolsInv ==
    /\ Len(tools) <= Len(begun)
    /\ \A i \in 1..Len(tools) : tools[i].id = begun[i]
    /\ emittedTo <= Len(tools)
    /\ emittedTo = Len(begun) => emittedTo = 0 \/ upstream = "over"
    /\ stopped = {} => /\ Between \/ Opening \/ Going
                       /\ emittedTo = Len(tools) => tools = <<>>

(* A channel is closed when nothing more can come through either.          *)
ChansInv ==
    /\ shutChans # {} => upstream = "over" /\ offered = NoOffer
    /\ stopped = {} => Chan \ liveChans \subseteq shutChans
    /\ drainsFrom # {} => "closed" \in stopped

(* The consumer has been given the emitted calls, in order, and at most one*)
(* other event after them; a done comes after all of them.                 *)
HandedInv ==
    /\ \A i \in 1..Len(Handed) :
          \/ i <= emittedTo /\ Told(Handed[i], i)
          \/ i = Len(Handed) /\ Handed[i] \in {DeltaEvent, DoneEvent}
    /\ \A i \in 1..Len(yielded) : yielded[i] # DeltaEvent
    /\ "closed" \notin stopped =>
          /\ Len(Handed) >= emittedTo
          /\ \A i \in 1..Len(Handed) :
                Handed[i] \in {DeltaEvent, DoneEvent} => i = emittedTo + 1
    /\ stopped = {} => \A i \in 1..Len(Handed) : Handed[i] # DoneEvent
    /\ stopped = {"done"} =>
          /\ upstream = "over" /\ emittedTo = Len(begun)
          /\ Len(Handed) = Len(begun) + 1 /\ Handed[Len(Handed)] = DoneEvent

(* What makes ToolCallsWhole inductive.                                    *)
StreamInv == StreamTyped /\ ToolsInv /\ ChansInv /\ HandedInv

(* Nothing is begun.                                                       *)
LEMMA StreamStarts == LLMInit => StreamInv
<1> SUFFICES ASSUME LLMInit PROVE StreamInv
    OBVIOUS
<1>1. Handed = <<>>
    BY DEF LLMInit, Handed
<1> QED BY <1>1 DEF LLMInit, StreamInv, StreamTyped, ToolsInv, ChansInv, HandedInv, Between, Chan

(* An event that brings a call is none of the others.                      *)
LEMMA CallsAreCalls ==
    \A e : e.type = "tool" => e \notin {DeltaEvent, DoneEvent}
BY DEF DeltaEvent, DoneEvent

(* The property follows.                                                   *)
LEMMA CallsFollow ==
    ASSUME StreamInv PROVE ToolCallsWhole
<1>1. Handed \in Seq(StreamEvent)
    BY DEF StreamInv, StreamTyped, Handed
<1>2. DOMAIN Handed = 1..Len(Handed)
    BY <1>1
<1>3. ASSUME NEW i \in 1..Len(Handed), i <= emittedTo, Told(Handed[i], i)
      PROVE  /\ Handed[i].type = "tool" /\ i <= Len(begun) /\ Handed[i].id = begun[i]
             /\ begun[i] \notin confused => Handed[i].args = whole[begun[i]]
             /\ i = Len(begun) => upstream = "over"
    <2>1. i <= Len(begun)
        BY <1>1, <1>3 DEF StreamInv, StreamTyped, ToolsInv
    <2>2. i = Len(begun) => upstream = "over"
        BY <2>1, <1>3 DEF StreamInv, StreamTyped, ToolsInv
    <2> QED BY <1>3, <2>1, <2>2 DEF Told
<1>4. ASSUME NEW i \in 1..Len(Handed), Handed[i] \in {DeltaEvent, DoneEvent}
      PROVE  Handed[i].type # "tool"
    BY <1>4 DEF DeltaEvent, DoneEvent
<1>5. stopped = {"done"} => Len(Handed) = Len(begun) + 1 /\ Last(Handed) = DoneEvent
    BY DEF StreamInv, HandedInv, Last
<1> QED BY <1>2, <1>3, <1>4, <1>5 DEF StreamInv, HandedInv, ToolCallsWhole

(* What a provider sends of arguments is a sequence of characters.         *)
LEMMA ArgsAreSeqs == ASSUME NEW n \in Nat PROVE ArgsUpTo(n) \subseteq Seq(Char)
BY DEF ArgsUpTo

(* accumulateToolCall makes the last call whole again.                     *)
LEMMA PieceMakesWhole ==
    ASSUME NEW sofar \in Seq(Char), NEW args \in Seq(Char), NEW id \in ToolID,
           Completes(sofar, args, id)
    PROVE  /\ offered.on = "chunks" /\ offered.type = "call" /\ offered.id \in {id, NoID}
           /\ offered.id = NoID => sofar \o offered.args = whole[id]
           /\ offered.id = id => MergedArgs(sofar, offered.args) = whole[id]
<1>1. id # NoID
    BY ToolAssumption
<1>2. CASE offered = Piece(NoID, args)
    BY <1>1, <1>2 DEF Completes, Piece
<1>3. CASE offered = Piece(id, whole[id])
    <2>1. whole[id] = sofar \o args
        BY DEF Completes
    <2>2. IsPrefix(sofar, whole[id])
        BY <2>1 DEF IsPrefix
    <2> QED BY <1>1, <1>3, <2>1, <2>2 DEF Piece, MergedArgs
<1>4. CASE offered = Piece(id, args) /\ ~Ambiguous(sofar, args)
    <2>1. CASE sofar = <<>>
        BY <1>1, <1>4, <2>1 DEF Completes, Piece, MergedArgs, IsPrefix
    <2>2. CASE sofar # <<>>
        BY <1>1, <1>4, <2>2 DEF Completes, Piece, MergedArgs, Ambiguous
    <2> QED BY <2>1, <2>2
<1> QED BY <1>2, <1>3, <1>4 DEF Completes

(* The provider begins a call.                                             *)
LEMMA SendOpenKeeps ==
    ASSUME StreamInv, NEW id \in ToolID, NEW args \in ArgsUpTo(1), SendOpen(id, args)
    PROVE  StreamInv'
<1>1. args \in Seq(Char)
    BY ArgsAreSeqs
<1>2. /\ begun' = Append(begun, id) /\ whole' = [whole EXCEPT ![id] = args]
      /\ offered = NoOffer /\ offered' = Piece(id, args) /\ upstream = "sending"
      /\ \A i \in DOMAIN begun : begun[i] # id
      /\ UNCHANGED <<pieceStyle, confused, upstream, shutChans, liveChans, tools, emittedTo,
                     queued, yielded, stopped, drainsFrom>>
    BY DEF SendOpen, Offers, readerVars, toolVars
<1>3. begun \in Seq(ToolID) /\ Len(begun) \in Nat /\ DOMAIN begun = 1..Len(begun)
    BY DEF StreamInv, StreamTyped
<1>4. /\ begun' \in Seq(ToolID) /\ Len(begun') = Len(begun) + 1
      /\ \A i \in 1..Len(begun) : begun'[i] = begun[i]
      /\ begun'[Len(begun')] = id
    BY <1>2, <1>3
<1>5. whole' \in [ToolID -> Seq(Char)] /\ \A x \in ToolID : x # id => whole'[x] = whole[x]
    BY <1>1, <1>2 DEF StreamInv, StreamTyped
<1>13. whole'[id] = args
    BY <1>2 DEF StreamInv, StreamTyped
<1>6. StreamTyped'
    <2>1. \A i, j \in 1..Len(begun) : begun[i] = begun[j] => i = j
        BY DEF StreamInv, StreamTyped
    <2>2. \A i, j \in 1..Len(begun') : begun'[i] = begun'[j] => i = j
        BY <1>2, <1>3, <1>4, <2>1
    <2> QED BY <1>2, <1>4, <1>5, <2>2 DEF StreamInv, StreamTyped
<1>7. \A i \in 1..Len(tools) : i \in 1..Len(begun) /\ begun[i] \in ToolID /\ begun[i] # id
    <2>1. Len(tools) \in Nat /\ Len(tools) <= Len(begun)
        BY DEF StreamInv, StreamTyped, ToolsInv
    <2> QED BY <1>2, <1>3, <2>1
<1>8. \A i \in 1..Len(tools) : Given(i) => Given(i)'
    BY <1>2, <1>4, <1>5, <1>7 DEF Given
<1>9. tools \in Seq(ToolCall) /\ Len(tools) \in Nat /\ emittedTo \in Nat
    BY DEF StreamInv, StreamTyped
<1>10. ToolsInv'
    <2>1. Len(tools') <= Len(begun') /\ emittedTo' <= Len(tools') /\ emittedTo' # Len(begun')
        <3>1. Len(tools) <= Len(begun) /\ emittedTo <= Len(tools)
            BY DEF StreamInv, ToolsInv
        <3> QED BY <1>2, <1>3, <1>4, <1>9, <3>1
    <2>2. \A i \in 1..Len(tools') : tools'[i].id = begun'[i]
        BY <1>2, <1>4, <1>7 DEF StreamInv, ToolsInv
    <2>4. stopped' = {} => Opening'
        <3>1. stopped = {} => Between
            BY <1>2 DEF StreamInv, ToolsInv, Opening, Going, IsPiece, NoOffer, Piece
        <3> QED BY <1>2, <1>4, <1>13, <1>8, <3>1 DEF Between, Opening
    <2>5. stopped' = {} => (emittedTo' = Len(tools') => tools' = <<>>)
        BY <1>2 DEF StreamInv, ToolsInv
    <2> QED BY <2>1, <2>2, <2>4, <2>5 DEF ToolsInv
<1>11. ChansInv'
    BY <1>2 DEF StreamInv, ChansInv
<1>12. HandedInv'
    <2>1. Handed' = Handed
        BY <1>2 DEF Handed
    <2>2. stopped # {"done"}
        BY <1>2 DEF StreamInv, HandedInv
    <2>3. emittedTo <= Len(tools)
        BY DEF StreamInv, ToolsInv
    <2>4. ASSUME NEW i \in 1..Len(Handed), i <= emittedTo, Told(Handed[i], i)
          PROVE  Told(Handed[i], i)'
        <3>1. i \in 1..Len(tools)
            BY <1>9, <2>3, <2>4
        <3>2. begun[i] \in ToolID /\ begun[i] # id /\ begun'[i] = begun[i]
            BY <1>4, <1>7, <3>1
        <3>3. whole'[begun[i]] = whole[begun[i]]
            BY <1>5, <3>2
        <3> QED BY <1>2, <2>1, <2>4, <3>2, <3>3 DEF Told
    <2> QED BY <1>2, <2>1, <2>2, <2>4 DEF StreamInv, HandedInv
<1> QED BY <1>6, <1>10, <1>11, <1>12 DEF StreamInv

(* The provider goes on with a call, in any of the three styles.           *)
LEMMA SendMoreKeeps ==
    ASSUME StreamInv, NEW id \in ToolID, NEW args \in ArgsUpTo(2) \ {<<>>}, SendMore(id, args)
    PROVE  StreamInv'
<1> DEFINE n == Len(begun)
           last == begun[n]
<1>1. args \in Seq(Char)
    BY ArgsAreSeqs
<1>2. /\ begun' = begun /\ whole' = [whole EXCEPT ![id] = whole[id] \o args]
      /\ offered = NoOffer /\ upstream = "sending"
      /\ confused' = confused \cup Confuses(id, args)
      /\ UNCHANGED <<pieceStyle, upstream, shutChans, liveChans, tools, emittedTo, queued,
                     yielded, stopped, drainsFrom>>
    BY DEF SendMore, Offers, readerVars, toolVars
<1>3. /\ begun \in Seq(ToolID) /\ n \in Nat
      /\ tools \in Seq(ToolCall) /\ Len(tools) \in Nat /\ emittedTo \in Nat
      /\ whole[id] \in Seq(Char)
    BY DEF StreamInv, StreamTyped
<1>11. PICK m \in 1..n : begun[m] = id
    BY <1>3 DEF SendMore
<1>12. n > 0 /\ last \in ToolID /\ Last(begun) = last /\ NoID \notin ToolID
    BY <1>3, <1>11, ToolAssumption DEF Last
<1>4. /\ whole' \in [ToolID -> Seq(Char)] /\ whole'[id] = whole[id] \o args
      /\ \A x \in ToolID : x # id => whole'[x] = whole[x]
    BY <1>1, <1>2, <1>3 DEF StreamInv, StreamTyped
<1>5. StreamTyped'
    BY <1>2, <1>4 DEF StreamInv, StreamTyped
<1>6. \A i, j \in 1..n : begun[i] = begun[j] => i = j
    BY DEF StreamInv, StreamTyped
<1>7. ASSUME NEW i \in 1..n - 1
      PROVE  /\ begun[i] \in ToolID /\ begun[i] # last
             /\ begun[i] = id => begun[i] \in confused'
             /\ whole'[begun[i]] = whole[begun[i]] \/ begun[i] \in confused'
    <2>1. i \in 1..n /\ n \in 1..n /\ i # n
        BY <1>3
    <2>2. begun[i] \in ToolID /\ begun[i] # last
        BY <1>3, <1>6, <2>1
    <2>3. begun[i] = id => begun[i] \in confused'
        BY <1>2, <1>12, <2>2 DEF Confuses
    <2> QED BY <1>4, <2>2, <2>3
<1>13. \A i \in 1..n - 1 : Given(i) => Given(i)'
    BY <1>2, <1>7 DEF Given
<1>8. ToolsInv'
    <2>1. /\ Len(tools') <= Len(begun') /\ emittedTo' <= Len(tools')
          /\ emittedTo' < Len(begun')
          /\ \A i \in 1..Len(tools') : tools'[i].id = begun'[i]
        BY <1>2, <1>3, <1>12 DEF StreamInv, ToolsInv
    <2>3. ASSUME stopped' = {} PROVE Going'
        <3>1. Between
            BY <1>2, <2>3 DEF StreamInv, ToolsInv, Opening, Going, IsPiece, NoOffer, Piece
        <3>2. /\ Len(begun') = Len(tools') /\ tools' # <<>> /\ Len(tools) = n
              /\ \A i \in 1..Len(tools') - 1 : Given(i)'
            BY <1>2, <1>3, <1>12, <1>13, <3>1 DEF Between
        <3>3. last \notin confused => tools[n].args = whole[last]
            BY <1>2, <1>3, <1>12, <3>1 DEF Between, Given
        <3>4. \/ pieceStyle = "fragments" /\ offered' = Piece(NoID, args)
              \/ pieceStyle = "cumulative" /\ offered' = Piece(id, whole'[id])
              \/ pieceStyle = "repeated" /\ offered' = Piece(id, args)
            <4>1. pieceStyle \in PieceStyle
                BY DEF StreamInv, StreamTyped
            <4> QED BY <1>4, <4>1 DEF PieceStyle, SendMore, Offers
        <3>5. IsPiece'
            <4>1. /\ offered'.on = "chunks" /\ offered'.type = "call"
                  /\ offered'.args \in Seq(Char) /\ offered'.id \in {NoID, id}
                <5>1. whole'[id] \in Seq(Char)
                    BY <1>4
                <5> QED BY <1>1, <3>4, <5>1 DEF Piece
            <4>2. offered'.id = NoID \/ \E i \in 1..Len(begun') : offered'.id = begun'[i]
                BY <1>2, <1>11, <4>1
            <4>3. \A i \in 1..Len(begun') - 1 : offered'.id = begun'[i] => begun'[i] \in confused'
                BY <1>2, <1>7, <1>12, <4>1
            <4> QED BY <4>1, <4>2, <4>3 DEF IsPiece
        <3>6. ASSUME begun'[Len(tools')] \notin confused' PROVE Fits(Len(tools))'
            <4>1. /\ begun'[Len(tools')] = last /\ last \notin confused
                  /\ last \notin Confuses(id, args) /\ tools' = tools /\ Len(tools') = n
                BY <1>2, <3>2, <3>6
            <4>2. CASE id # last
                <5>1. pieceStyle # "fragments"
                    BY <1>12, <4>1, <4>2 DEF Confuses
                <5>2. offered'.id = id
                    BY <3>4, <5>1 DEF Piece
                <5>3. whole'[last] = whole[last]
                    BY <1>4, <1>12, <4>2
                <5>4. Given(n)'
                    BY <1>2, <3>3, <4>1, <5>3 DEF Given
                <5> QED BY <1>2, <1>12, <4>1, <4>2, <5>2, <5>4 DEF Fits
            <4>3. CASE id = last
                <5>1. ~(pieceStyle = "repeated" /\ Ambiguous(whole[id], args))
                    BY <1>12, <4>1, <4>3 DEF Confuses
                <5>2. Completes(tools[n].args, args, last)'
                    BY <1>1, <1>2, <1>4, <3>3, <3>4, <4>1, <4>3, <5>1 DEF Completes
                <5>3. Completes(tools[Len(tools)].args, args, begun[Len(tools)])'
                    BY <1>2, <3>2, <5>2 DEF Completes
                <5> QED BY <1>1, <5>3 DEF Fits
            <4> QED BY <4>2, <4>3
        <3> QED BY <3>2, <3>5, <3>6 DEF Going
    <2>4. stopped' = {} => (emittedTo' = Len(tools') => tools' = <<>>)
        BY <1>2 DEF StreamInv, ToolsInv
    <2> QED BY <2>1, <2>3, <2>4 DEF ToolsInv
<1>9. ChansInv'
    BY <1>2 DEF StreamInv, ChansInv
<1>10. HandedInv'
    <2>1. Handed' = Handed
        BY <1>2 DEF Handed
    <2>2. stopped # {"done"}
        BY <1>2 DEF StreamInv, HandedInv
    <2>3. emittedTo <= n /\ emittedTo # n
        BY <1>2, <1>3, <1>12 DEF StreamInv, ToolsInv
    <2>4. ASSUME NEW i \in 1..Len(Handed), i <= emittedTo, Told(Handed[i], i)
          PROVE  Told(Handed[i], i)'
        <3>1. i \in 1..n - 1
            BY <1>3, <2>3, <2>4
        <3> QED BY <1>2, <1>7, <2>1, <2>4, <3>1 DEF Told
    <2> QED BY <1>2, <2>1, <2>2, <2>4 DEF StreamInv, HandedInv
<1> QED BY <1>5, <1>8, <1>9, <1>10 DEF StreamInv

(* Text, an error and the end touch no call.                               *)
LEMMA QuietProviderKeeps ==
    ASSUME StreamInv, UNCHANGED <<pieceStyle, begun, whole, confused, readerVars>>,
           \/ UNCHANGED offered
           \/ offered = NoOffer /\ offered' \in {TextChunk, ErrorValue} /\ shutChans' = {},
           upstream' \in {upstream, "over"},
           shutChans' # {} => upstream' = "over" /\ offered' = NoOffer,
           shutChans \subseteq shutChans'
    PROVE  StreamInv'
<1>1. /\ UNCHANGED <<pieceStyle, begun, whole, confused, liveChans, tools, emittedTo, queued,
                     yielded, stopped, drainsFrom>>
    BY DEF readerVars, toolVars
<1>2. StreamTyped'
    BY <1>1 DEF StreamInv, StreamTyped
<1>3. ToolsInv'
    <2>1. \A i : Given(i)' = Given(i)
        BY <1>1 DEF Given
    <2>2. stopped = {} => (Between \/ Opening \/ Going)'
        <3>1. CASE UNCHANGED offered
            BY <1>1, <2>1, <3>1 DEF StreamInv, ToolsInv, Between, Opening, Going, IsPiece, Fits,
                                    Completes
        <3>2. CASE offered = NoOffer /\ offered' \in {TextChunk, ErrorValue}
            <4>1. stopped = {} => Between
                BY <3>2 DEF StreamInv, ToolsInv, Opening, Going, IsPiece, NoOffer, Piece
            <4> QED BY <1>1, <2>1, <3>2, <4>1 DEF Between
        <3> QED BY <3>1, <3>2
    <2> QED BY <1>1, <2>1, <2>2 DEF StreamInv, ToolsInv
<1>4. ChansInv'
    BY <1>1 DEF StreamInv, ChansInv
<1>5. HandedInv'
    <2>1. Handed' = Handed
        BY <1>1 DEF Handed
    <2> QED BY <1>1, <2>1 DEF StreamInv, HandedInv, Told
<1> QED BY <1>2, <1>3, <1>4, <1>5 DEF StreamInv

(* So none of those steps of the provider disturbs the calls.              *)
LEMMA ProviderKeeps ==
    ASSUME StreamInv,
           SendText \/ SendError \/ EndUpstream \/ (\E c \in Chan : ShutChan(c))
    PROVE  StreamInv'
<1>0. shutChans # {} => upstream = "over" /\ offered = NoOffer
    BY DEF StreamInv, ChansInv
<1>1. CASE SendText
    BY <1>0, <1>1, QuietProviderKeeps DEF SendText, Offers
<1>2. CASE SendError
    BY <1>0, <1>2, QuietProviderKeeps DEF SendError, Offers
<1>3. CASE EndUpstream
    BY <1>0, <1>3, QuietProviderKeeps DEF EndUpstream
<1>4. CASE \E c \in Chan : ShutChan(c)
    BY <1>0, <1>4, QuietProviderKeeps DEF ShutChan
<1> QED BY <1>1, <1>2, <1>3, <1>4

(* What the consumer is told changes with the events alone.                *)
LEMMA NextYieldsKeeps ==
    ASSUME StreamInv, NextYields PROVE StreamInv'
<1>1. /\ queued # <<>> /\ queued' = Tail(queued)
      /\ yielded' = IF Head(queued) = DeltaEvent THEN yielded ELSE Append(yielded, Head(queued))
      /\ UNCHANGED <<providerVars, liveChans, tools, emittedTo, stopped, drainsFrom>>
    BY DEF NextYields, toolVars
<1>2. /\ yielded \in Seq(StreamEvent) /\ queued \in Seq(StreamEvent)
      /\ Len(yielded) \in Nat /\ Len(queued) \in Nat /\ Len(queued) > 0
      /\ Head(queued) \in StreamEvent /\ Head(queued) = queued[1]
      /\ queued' \in Seq(StreamEvent) /\ yielded' \in Seq(StreamEvent)
    BY <1>1 DEF StreamInv, StreamTyped
<1>3. StreamTyped'
    BY <1>1, <1>2 DEF StreamInv, StreamTyped, providerVars
<1>4. ToolsInv' /\ ChansInv'
    BY <1>1 DEF StreamInv, ToolsInv, ChansInv, providerVars, Given, Between, Opening, Going,
                IsPiece, Fits, Completes
<1>5. CASE Head(queued) # DeltaEvent
    <2>1. Handed' = Handed
        BY <1>1, <1>2, <1>5 DEF Handed
    <2>2. \A i \in 1..Len(yielded') : yielded'[i] # DeltaEvent
        BY <1>1, <1>2, <1>5 DEF StreamInv, HandedInv
    <2>3. HandedInv'
        BY <1>1, <2>1, <2>2 DEF StreamInv, HandedInv, Told, providerVars
    <2> QED BY <1>3, <1>4, <2>3 DEF StreamInv
<1>6. CASE Head(queued) = DeltaEvent
    <2>1. /\ Len(Handed) = Len(yielded) + Len(queued)
          /\ Handed[Len(yielded) + 1] = DeltaEvent
          /\ \A i \in 1..Len(yielded) : Handed[i] = yielded[i]
        BY <1>2, <1>6 DEF Handed
    <2>2. Len(Handed) = Len(yielded) + 1 /\ Len(queued) = 1
        <3>1. ~Told(Handed[Len(yielded) + 1], Len(yielded) + 1)
            BY <2>1 DEF Told, DeltaEvent
        <3>2. Len(yielded) + 1 \in 1..Len(Handed)
            BY <1>2, <2>1
        <3>3. Len(yielded) + 1 = Len(Handed)
            BY <3>1, <3>2 DEF StreamInv, HandedInv
        <3>4. Len(yielded) \in Nat /\ Len(queued) \in Nat /\ Len(Handed) = Len(yielded) + Len(queued)
            BY <1>2, <2>1
        <3>5. Len(yielded) + Len(queued) = Len(yielded) + 1
            BY <3>3, <3>4, Zenon
        <3>6. Len(queued) = 1
            <4>1. \A a, b \in Nat : a + b = a + 1 => b = 1
                OBVIOUS
            <4> QED BY <3>4, <3>5, <4>1, Zenon
        <3> QED BY <3>3, <3>6, Zenon
    <2>3. queued' = <<>> /\ Handed' = yielded /\ yielded' = yielded
        BY <1>1, <1>2, <1>6, <2>2 DEF Handed
    <2>4. \A i \in 1..Len(yielded) : i <= emittedTo /\ Told(yielded[i], i)
        <3>1. \A i \in 1..Len(yielded) : i \in 1..Len(Handed) /\ i # Len(Handed)
            BY <1>2, <2>2
        <3> QED BY <2>1, <3>1 DEF StreamInv, HandedInv
    <2>5. stopped # {"done"}
        BY <2>1, <2>2 DEF StreamInv, HandedInv, DeltaEvent, DoneEvent
    <2>6. "closed" \notin stopped => Len(yielded) >= emittedTo
        <3>1. "closed" \notin stopped => Len(yielded) + 1 = emittedTo + 1
            BY <2>1, <2>2, <1>2 DEF StreamInv, HandedInv
        <3> QED BY <3>1, <1>2 DEF StreamInv, StreamTyped
    <2>7. HandedInv'
        <3>1. \A i \in 1..Len(yielded) : yielded[i] \notin {DeltaEvent, DoneEvent}
            BY <2>4, CallsAreCalls DEF Told
        <3>2. \A i \in 1..Len(yielded) : Told(yielded[i], i)'
            BY <1>1, <2>3, <2>4 DEF Told, providerVars
        <3> QED BY <1>1, <2>3, <2>4, <2>5, <2>6, <3>1, <3>2 DEF HandedInv
    <2> QED BY <1>3, <1>4, <2>7 DEF StreamInv
<1> QED BY <1>5, <1>6

(* flushTools: the calls that were not emitted.                            *)
LEMMA UnflushedCalls ==
    ASSUME tools \in Seq(ToolCall), emittedTo \in Nat, emittedTo <= Len(tools)
    PROVE  /\ Unflushed \in Seq(StreamEvent) /\ Len(Unflushed) = Len(tools) - emittedTo
           /\ \A i \in 1..Len(Unflushed) : Unflushed[i] = ToolUse(tools[emittedTo + i])
<1> DEFINE n == Len(tools) - emittedTo
<1>1. n \in Nat
    OBVIOUS
<1>2. ASSUME NEW i \in 1..n PROVE ToolUse(tools[emittedTo + i]) \in StreamEvent
    <2>1. emittedTo + i \in 1..Len(tools)
        OBVIOUS
    <2>2. tools[emittedTo + i] \in ToolCall
        BY <2>1
    <2> QED BY <2>2 DEF ToolUse, StreamEvent, ToolCall
<1>3. Unflushed = [i \in 1..n |-> ToolUse(tools[emittedTo + i])]
    BY DEF Unflushed
<1> HIDE DEF n
<1>4. Unflushed \in Seq(StreamEvent) /\ Len(Unflushed) = n
    BY <1>1, <1>2, <1>3
<1> QED BY <1>3, <1>4 DEF n

(* While Next reads on, the consumer has what was emitted.                 *)
LEMMA AllYielded ==
    ASSUME StreamInv, queued = <<>>, stopped = {}
    PROVE  Len(yielded) = emittedTo /\ \A i \in 1..Len(yielded) : Told(yielded[i], i)
<1>1. Handed = yielded
    BY DEF StreamInv, StreamTyped, Handed
<1>2. /\ \A i \in 1..Len(yielded) : yielded[i] \notin {DeltaEvent, DoneEvent}
      /\ Len(yielded) >= emittedTo
    BY <1>1 DEF StreamInv, HandedInv
<1>3. \A i \in 1..Len(yielded) : i <= emittedTo /\ Told(yielded[i], i)
    BY <1>1, <1>2 DEF StreamInv, HandedInv
<1>4. Len(yielded) \in Nat /\ emittedTo \in Nat
    BY DEF StreamInv, StreamTyped
<1>5. Len(yielded) <= emittedTo
    BY <1>3, <1>4
<1> QED BY <1>2, <1>3, <1>4, <1>5

(* Where the events of two sequences are found in one.                     *)
LEMMA InTwo ==
    ASSUME NEW S, NEW s \in Seq(S), NEW t \in Seq(S)
    PROVE  /\ s \o t \in Seq(S) /\ Len(s \o t) = Len(s) + Len(t)
           /\ \A i \in 1..Len(s) : (s \o t)[i] = s[i]
           /\ \A i \in 1..Len(t) : (s \o t)[Len(s) + i] = t[i]
OBVIOUS

(* Next finds both channels closed.                                        *)
LEMMA NextEndsKeeps ==
    ASSUME StreamInv, NextEnds PROVE StreamInv'
<1>1. /\ queued = <<>> /\ stopped = {} /\ liveChans = {}
      /\ queued' = Append(Unflushed, DoneEvent) /\ emittedTo' = Len(tools) /\ stopped' = {"done"}
      /\ UNCHANGED <<providerVars, liveChans, tools, yielded, drainsFrom>>
    BY DEF NextEnds, ReadsOn
<1>2. /\ tools \in Seq(ToolCall) /\ Len(tools) \in Nat /\ emittedTo \in Nat /\ emittedTo <= Len(tools)
      /\ yielded \in Seq(StreamEvent) /\ Len(yielded) \in Nat
    BY DEF StreamInv, StreamTyped, ToolsInv
<1>3. /\ Unflushed \in Seq(StreamEvent) /\ Len(Unflushed) = Len(tools) - emittedTo
      /\ \A i \in 1..Len(Unflushed) : Unflushed[i] = ToolUse(tools[emittedTo + i])
    BY <1>2, UnflushedCalls
<1>4. upstream = "over" /\ offered = NoOffer
    BY <1>1 DEF StreamInv, ChansInv, Chan
<1>5. Between
    BY <1>1, <1>4 DEF StreamInv, ToolsInv, Opening, Going, IsPiece, NoOffer, Piece
<1>11. \A i \in 1..Len(tools) : Told(ToolUse(tools[i]), i)
    BY <1>5 DEF StreamInv, ToolsInv, Between, Given, Told, ToolUse
<1>6. queued' \in Seq(StreamEvent)
    BY <1>1, <1>3 DEF StreamEvent
<1>7. StreamTyped'
    BY <1>1, <1>2, <1>6 DEF StreamInv, StreamTyped, providerVars
<1>8. ToolsInv'
    BY <1>1, <1>2, <1>4, <1>5 DEF StreamInv, ToolsInv, Between, Given, providerVars
<1>9. ChansInv'
    BY <1>1 DEF StreamInv, ChansInv, providerVars
<1>10. HandedInv'
    <2>1. Len(yielded) = emittedTo /\ \A i \in 1..Len(yielded) : Told(yielded[i], i)
        BY <1>1, AllYielded
    <2>2. /\ Len(queued') = Len(tools) - emittedTo + 1 /\ queued'[Len(queued')] = DoneEvent
          /\ \A i \in 1..Len(tools) - emittedTo : queued'[i] = ToolUse(tools[emittedTo + i])
        BY <1>1, <1>2, <1>3
    <2>3. Len(Handed') = Len(tools) + 1
        BY <1>1, <1>2, <1>6, <2>1, <2>2 DEF Handed
    <2>4. Handed'[Len(tools) + 1] = DoneEvent
        <3>1. Handed'[Len(yielded) + Len(queued')] = queued'[Len(queued')]
            <4>1. Len(queued') \in 1..Len(queued')
                BY <1>2, <2>2
            <4> QED BY <4>1, <1>1, <1>2, <1>6, InTwo DEF Handed
        <3>2. Len(yielded) + Len(queued') = Len(tools) + 1
            BY <1>2, <2>1, <2>2
        <3> QED BY <3>1, <3>2, <2>2
    <2>5. ASSUME NEW i \in 1..Len(tools) PROVE Told(Handed'[i], i)
        <3>1. CASE i <= emittedTo
            BY <3>1, <1>1, <1>2, <1>6, <2>1, <2>2 DEF Handed
        <3>2. CASE i > emittedTo
            <4>1. i - emittedTo \in 1..Len(tools) - emittedTo /\ emittedTo + (i - emittedTo) = i
                BY <3>2, <1>2
            <4>2. Handed'[i] = queued'[i - emittedTo]
                <5>1. Handed'[Len(yielded) + (i - emittedTo)] = queued'[i - emittedTo]
                    <6>1. i - emittedTo \in 1..Len(queued')
                        BY <4>1, <1>2, <2>2
                    <6>2. \A j \in 1..Len(queued') : Handed'[Len(yielded) + j] = queued'[j]
                        BY <1>1, <1>2, <1>6, InTwo DEF Handed
                    <6> QED BY <6>1, <6>2
                <5> QED BY <4>1, <5>1, <2>1
            <4>3. Handed'[i] = ToolUse(tools[i])
                BY <4>1, <4>2, <2>2
            <4> QED BY <1>11, <4>3
        <3> QED BY <3>1, <3>2, <1>2
    <2>6. /\ \A i \in 1..Len(tools) : Handed'[i] \notin {DeltaEvent, DoneEvent}
          /\ \A i \in 1..Len(tools) : Told(Handed[i], i)'
        BY <1>1, <2>5, CallsAreCalls DEF Told, providerVars
    <2>7. \A i \in 1..Len(Handed') : i \in 1..Len(tools) \/ i = Len(tools) + 1
        BY <1>2, <2>3
    <2>8. Len(begun') = Len(tools) /\ upstream' = "over"
        BY <1>1, <1>4, <1>5 DEF Between, providerVars
    <2>9. \A i \in 1..Len(yielded') : yielded'[i] # DeltaEvent
        BY <1>1 DEF StreamInv, HandedInv
    <2> QED BY <1>1, <1>2, <2>3, <2>4, <2>5, <2>6, <2>7, <2>8, <2>9 DEF HandedInv
<1> QED BY <1>7, <1>8, <1>9, <1>10 DEF StreamInv

(* Close drops what was not handed out.                                    *)
LEMMA CloseStreamKeeps ==
    ASSUME StreamInv, CloseStream PROVE StreamInv'
<1>1. /\ stopped' = stopped \cup {"closed"} /\ queued' = <<>> /\ liveChans' = {}
      /\ UNCHANGED <<providerVars, tools, emittedTo, yielded>>
    BY DEF CloseStream, toolVars
<1>2. yielded \in Seq(StreamEvent) /\ queued \in Seq(StreamEvent)
    BY DEF StreamInv, StreamTyped
<1>3. Handed' = yielded /\ \A i \in 1..Len(yielded) : Handed[i] = yielded[i]
    BY <1>1, <1>2 DEF Handed
<1>4. Len(yielded) \in Nat /\ Len(Handed) \in Nat /\ Len(yielded) <= Len(Handed)
    BY <1>2 DEF Handed
<1>5. StreamTyped' /\ ChansInv'
    BY <1>1 DEF StreamInv, StreamTyped, ChansInv, providerVars
<1>6. ToolsInv'
    BY <1>1 DEF StreamInv, ToolsInv, Given, providerVars
<1>7. HandedInv'
    <2>1. \A i \in 1..Len(yielded) :
             \/ i <= emittedTo /\ Told(yielded[i], i)'
             \/ i = Len(yielded) /\ yielded[i] \in {DeltaEvent, DoneEvent}
        BY <1>1, <1>3, <1>4 DEF StreamInv, HandedInv, Told, providerVars
    <2>2. \A i \in 1..Len(yielded) : yielded[i] # DeltaEvent
        BY DEF StreamInv, HandedInv
    <2> QED BY <1>1, <1>3, <2>1, <2>2 DEF HandedInv
<1> QED BY <1>5, <1>6, <1>7 DEF StreamInv

(* Next takes a chunk: text, the beginning of a call, which flushes those  *)
(* before it, or more of the last call, which is whole again after it.     *)
LEMMA ReceiveChunkKeeps ==
    ASSUME StreamInv, ReceiveChunk PROVE StreamInv'
<1>1. /\ queued = <<>> /\ stopped = {} /\ offered.on = "chunks" /\ offered' = NoOffer
      /\ UNCHANGED <<pieceStyle, begun, whole, confused, upstream, shutChans, liveChans,
                     yielded, stopped, drainsFrom>>
    BY DEF ReceiveChunk, ReadsOn
<1>2. /\ tools \in Seq(ToolCall) /\ Len(tools) \in Nat /\ emittedTo \in Nat /\ emittedTo <= Len(tools)
      /\ yielded \in Seq(StreamEvent) /\ Len(yielded) \in Nat
      /\ begun \in Seq(ToolID) /\ Len(begun) \in Nat /\ Len(tools) <= Len(begun)
      /\ whole \in [ToolID -> Seq(Char)]
      /\ \A i \in 1..Len(tools) : tools[i].id = begun[i]
    <2>1. /\ tools \in Seq(ToolCall) /\ emittedTo \in Nat /\ yielded \in Seq(StreamEvent)
          /\ begun \in Seq(ToolID) /\ whole \in [ToolID -> Seq(Char)]
        BY DEF StreamInv, StreamTyped
    <2>2. Len(tools) \in Nat /\ Len(yielded) \in Nat /\ Len(begun) \in Nat
        BY <2>1, LenProperties
    <2>3. /\ emittedTo <= Len(tools) /\ Len(tools) <= Len(begun)
          /\ \A i \in 1..Len(tools) : tools[i].id = begun[i]
        BY DEF StreamInv, ToolsInv
    <2> QED BY <2>1, <2>2, <2>3
<1>3. Len(yielded) = emittedTo /\ \A i \in 1..Len(yielded) : Told(yielded[i], i)
    BY <1>1, AllYielded
<1>4. /\ \A i \in 1..Len(yielded) : yielded[i] \notin {DeltaEvent, DoneEvent}
      /\ \A i \in 1..Len(yielded) : Told(yielded[i], i)'
    BY <1>1, <1>3, CallsAreCalls DEF Told
<1>5. ChansInv'
    BY <1>1 DEF StreamInv, ChansInv
<1>6. CASE offered.type = "text" /\ queued' = <<DeltaEvent>> /\ UNCHANGED toolVars
    <2>1. tools' = tools /\ emittedTo' = emittedTo
        BY <1>6 DEF toolVars
    <2>2. StreamTyped'
        BY <1>1, <1>6, <2>1 DEF StreamInv, StreamTyped, StreamEvent
    <2>3. Between
        BY <1>1, <1>6 DEF StreamInv, ToolsInv, Opening, Going, IsPiece, Piece
    <2>4. ToolsInv'
        BY <1>1, <2>1, <2>3 DEF StreamInv, ToolsInv, Between, Given
    <2>5. /\ Len(Handed') = emittedTo + 1 /\ Handed'[emittedTo + 1] = DeltaEvent
          /\ \A i \in 1..emittedTo : Handed'[i] = yielded[i]
          /\ \A i \in 1..emittedTo : Told(Handed[i], i)'
        <3>1. /\ Len(Handed') = emittedTo + 1 /\ Handed'[emittedTo + 1] = DeltaEvent
              /\ \A i \in 1..emittedTo : Handed'[i] = yielded[i]
            BY <1>1, <1>2, <1>3, <1>6 DEF Handed
        <3> QED BY <1>1, <1>3, <3>1 DEF Told
    <2>6. DeltaEvent # DoneEvent
        BY DEF DeltaEvent, DoneEvent
    <2>7. HandedInv'
        BY <1>1, <1>2, <1>3, <1>4, <2>1, <2>5, <2>6 DEF HandedInv
    <2> QED BY <1>5, <2>2, <2>4, <2>7 DEF StreamInv
<1>7. CASE /\ offered.type = "call" /\ Accumulate(offered.id, offered.args)
           /\ Opening
    <2> DEFINE id == begun[Len(begun)]
    <2>1. /\ Len(begun) = Len(tools) + 1 /\ id \in ToolID /\ id # NoID
          /\ offered.id = id /\ offered.args = whole[id] /\ whole[id] \in Seq(Char)
        BY <1>2, <1>7, ToolAssumption DEF Opening, Piece
    <2>2. ~KnownTool(id)
        <3>1. \A i \in 1..Len(tools) : begun[i] # id
            <4>1. \A i, j \in 1..Len(begun) : begun[i] = begun[j] => i = j
                BY DEF StreamInv, StreamTyped
            <4>2. \A i \in 1..Len(tools) : /\ i \in 1..Len(begun) /\ Len(begun) \in 1..Len(begun)
                                           /\ i # Len(begun)
                <5>1. Len(tools) \in Nat /\ Len(begun) = Len(tools) + 1
                    BY <1>2, <2>1
                <5> QED BY <5>1
            <4> QED BY <4>1, <4>2
        <3>2. DOMAIN tools = 1..Len(tools) /\ \A i \in 1..Len(tools) : tools[i].id # id
            BY <1>2, <3>1
        <3> QED BY <3>2 DEF KnownTool
    <2>3. /\ tools' = Append(tools, [id |-> id, args |-> whole[id]])
          /\ emittedTo' = Len(tools) /\ queued' = Unflushed
        BY <1>7, <2>1, <2>2 DEF Accumulate
    <2>4. [id |-> id, args |-> whole[id]] \in ToolCall
        BY <2>1 DEF ToolCall
    <2>5. /\ tools' \in Seq(ToolCall) /\ Len(tools') = Len(tools) + 1
          /\ \A i \in 1..Len(tools) : tools'[i] = tools[i]
          /\ tools'[Len(tools) + 1] = [id |-> id, args |-> whole[id]]
        BY <1>2, <2>3, <2>4
    <2>6. /\ Unflushed \in Seq(StreamEvent) /\ Len(Unflushed) = Len(tools) - emittedTo
          /\ \A i \in 1..Len(Unflushed) : Unflushed[i] = ToolUse(tools[emittedTo + i])
        BY <1>2, UnflushedCalls
    <2>7. StreamTyped'
        BY <1>1, <1>2, <2>3, <2>5, <2>6 DEF StreamInv, StreamTyped
    <2>8. /\ \A i \in 1..Len(tools') : Given(i)'
          /\ \A i \in 1..Len(tools') : tools'[i].id = begun'[i]
        <3>1. \A i \in 1..Len(tools) : Given(i)
            BY <1>7 DEF Opening
        <3>2. ASSUME NEW i \in 1..Len(tools) PROVE Given(i)' /\ tools'[i].id = begun'[i]
            BY <1>1, <1>2, <2>5, <3>1 DEF Given
        <3>3. ASSUME NEW i \in Nat, i = Len(tools) + 1
              PROVE  Given(i)' /\ tools'[i].id = begun'[i]
            <4>1. begun'[Len(tools) + 1] = id /\ whole' = whole
                BY <1>1, <2>1
            <4>2. /\ tools'[Len(tools) + 1].id = id
                  /\ tools'[Len(tools) + 1].args = whole[id]
                BY <2>5
            <4> QED BY <3>3, <4>1, <4>2 DEF Given
        <3>4. \A i \in 1..Len(tools') : i \in 1..Len(tools) \/ (i \in Nat /\ i = Len(tools) + 1)
            BY <1>2, <2>5
        <3> QED BY <3>2, <3>3, <3>4
    <2>9. ToolsInv'
        <3>1. Between'
            BY <1>1, <2>1, <2>5, <2>8 DEF Between
        <3>2. emittedTo' # Len(tools') /\ emittedTo' <= Len(tools') /\ Len(tools') = Len(begun')
            BY <1>1, <1>2, <2>1, <2>3, <2>5
        <3> QED BY <1>1, <1>2, <2>8, <3>1, <3>2 DEF ToolsInv
    <2>10. HandedInv'
        <3>1. /\ Len(Handed') = Len(tools)
              /\ \A i \in 1..Len(yielded) : Handed'[i] = yielded[i]
              /\ \A i \in 1..Len(Unflushed) : Handed'[Len(yielded) + i] = Unflushed[i]
            <4>1. Handed' = yielded \o Unflushed
                BY <1>1, <2>3 DEF Handed
            <4>2. Len(Handed') = Len(yielded) + Len(Unflushed)
                BY <4>1, <1>2, <2>6, InTwo
            <4>3. Len(yielded) + Len(Unflushed) = Len(tools)
                BY <1>2, <1>3, <2>6
            <4>4. /\ \A i \in 1..Len(yielded) : (yielded \o Unflushed)[i] = yielded[i]
                  /\ \A i \in 1..Len(Unflushed) :
                        (yielded \o Unflushed)[Len(yielded) + i] = Unflushed[i]
                BY <1>2, <2>6, InTwo
            <4> QED BY <4>1, <4>2, <4>3, <4>4
        <3>2. ASSUME NEW i \in 1..Len(tools) PROVE Told(Handed[i], i)'
            <4>1. CASE i <= emittedTo
                <5>1. i \in 1..Len(yielded)
                    BY <4>1, <1>3
                <5>2. Handed'[i] = yielded'[i]
                    BY <1>1, <3>1, <5>1
                <5> QED BY <1>4, <5>1, <5>2 DEF Told
            <4>2. CASE i > emittedTo
                <5>1. i - emittedTo \in 1..Len(Unflushed) /\ emittedTo + (i - emittedTo) = i
                    BY <4>2, <1>2, <2>6
                <5>2. Handed'[emittedTo + (i - emittedTo)] = Unflushed[i - emittedTo]
                    BY <5>1, <1>3, <3>1
                <5>3. Unflushed[i - emittedTo] = ToolUse(tools[i])
                    BY <5>1, <2>6
                <5>4. Told(ToolUse(tools[i]), i)
                    BY <1>2, <1>7 DEF Opening, Given, Told, ToolUse
                <5> QED BY <1>1, <5>1, <5>2, <5>3, <5>4 DEF Told
            <4> QED BY <4>1, <4>2, <1>2
        <3>3. \A i \in 1..Len(tools) : Handed'[i] \notin {DeltaEvent, DoneEvent}
            BY <3>2, CallsAreCalls DEF Told
        <3> QED BY <1>1, <1>2, <1>4, <2>3, <3>1, <3>2, <3>3 DEF HandedInv
    <2> QED BY <1>5, <2>7, <2>9, <2>10 DEF StreamInv
<1>8. CASE /\ offered.type = "call" /\ Accumulate(offered.id, offered.args)
           /\ Going
    <2> DEFINE n == Len(tools)
               Hit(i) == offered.id = begun[i] \/ (offered.id = NoID /\ i = n)
               New(i) == IF ~Hit(i) THEN tools[i].args
                         ELSE IF offered.id = NoID THEN tools[i].args \o offered.args
                         ELSE MergedArgs(tools[i].args, offered.args)
    <2>1. /\ Len(begun) = n /\ n > 0 /\ n \in Nat /\ DOMAIN tools = 1..n /\ tools # <<>>
          /\ \A i \in 1..n : /\ tools[i] \in ToolCall /\ tools[i].id = begun[i]
                             /\ tools[i].args \in Seq(Char) /\ begun[i] \in ToolID
                             /\ tools[i] = [id |-> begun[i], args |-> tools[i].args]
          /\ NoID \notin ToolID
        <3>1. Len(begun) = n /\ tools # <<>> /\ n > 0
            BY <1>2, <1>8 DEF Going
        <3>2. \A i \in 1..n : tools[i] \in ToolCall /\ tools[i].id = begun[i] /\ begun[i] \in ToolID
            BY <1>2, <3>1
        <3> QED BY <1>2, <3>1, <3>2, ToolAssumption DEF ToolCall
    <2>2. IsPiece
        BY <1>8 DEF Going
    <2>3. \A i \in 1..n : New(i) \in Seq(Char)
        <3>1. \A a, b \in Seq(Char) : a \o b \in Seq(Char) /\ MergedArgs(a, b) \in Seq(Char)
            BY DEF MergedArgs
        <3>2. offered.args \in Seq(Char)
            BY <2>2 DEF IsPiece
        <3> QED BY <2>1, <3>1, <3>2
    <2>4. tools' = [i \in 1..n |-> [id |-> begun[i], args |-> New(i)]]
        <3>1. CASE offered.id = NoID
            <4>1. tools' = [tools EXCEPT ![n].args = tools[n].args \o offered.args]
                BY <1>8, <2>1, <3>1 DEF Accumulate
            <4>2. tools' = [tools EXCEPT ![n] = [id |-> begun[n],
                                                 args |-> tools[n].args \o offered.args]]
                <5>1. [tools[n] EXCEPT !.args = tools[n].args \o offered.args] =
                         [id |-> begun[n], args |-> tools[n].args \o offered.args]
                    <6>1. n \in 1..n
                        BY <2>1
                    <6>2. tools[n] = [id |-> begun[n], args |-> tools[n].args]
                        BY <2>1, <6>1
                    <6> DEFINE more == tools[n].args \o offered.args
                    <6> HIDE DEF n, more
                    <6>4. [tools[n] EXCEPT !.args = more] = [id |-> begun[n], args |-> more]
                        BY <6>2
                    <6> QED BY <6>4 DEF more
                <5> QED BY <4>1, <5>1
            <4>3. ASSUME NEW i \in 1..n
                  PROVE  [id |-> begun[i], args |-> New(i)] =
                         IF i = n THEN [id |-> begun[n], args |-> tools[n].args \o offered.args]
                                  ELSE tools[i]
                <5>1. offered.id # begun[i]
                    BY <2>1, <3>1
                <5> QED BY <2>1, <3>1, <5>1
            <4> QED BY <2>1, <4>2, <4>3
        <3>2. CASE offered.id # NoID
            <4>1. PICK m \in 1..n : offered.id = begun[m]
                BY <2>1, <2>2, <3>2 DEF IsPiece
            <4>2. KnownTool(offered.id)
                BY <2>1, <4>1 DEF KnownTool
            <4>3. tools' = [i \in DOMAIN tools |->
                              IF tools[i].id = offered.id
                              THEN [tools[i] EXCEPT !.args = MergedArgs(@, offered.args)]
                              ELSE tools[i]]
                BY <1>8, <3>2, <4>2 DEF Accumulate
            <4>4. ASSUME NEW i \in 1..n
                  PROVE  [id |-> begun[i], args |-> New(i)] =
                         IF tools[i].id = offered.id
                         THEN [tools[i] EXCEPT !.args = MergedArgs(@, offered.args)]
                         ELSE tools[i]
                <5>1. CASE offered.id = begun[i]
                    <6>1. New(i) = MergedArgs(tools[i].args, offered.args)
                        BY <3>2, <5>1
                    <6>2. [tools[i] EXCEPT !.args = MergedArgs(@, offered.args)] =
                             [id |-> begun[i], args |-> MergedArgs(tools[i].args, offered.args)]
                        <7>1. tools[i] = [id |-> begun[i], args |-> tools[i].args]
                            BY <2>1
                        <7> QED BY <7>1
                    <6> QED BY <2>1, <5>1, <6>1, <6>2
                <5>2. CASE offered.id # begun[i]
                    BY <2>1, <3>2, <5>2
                <5> QED BY <5>1, <5>2
            <4> QED BY <2>1, <4>3, <4>4
        <3> QED BY <3>1, <3>2
    <2>5. emittedTo' = emittedTo /\ queued' = <<>>
        <3>1. offered.id = NoID \/ KnownTool(offered.id)
            BY <2>1, <2>2 DEF IsPiece, KnownTool
        <3> QED BY <1>1, <1>8, <3>1 DEF Accumulate
    <2>6. /\ tools' \in Seq(ToolCall) /\ Len(tools') = n
          /\ \A i \in 1..n : tools'[i].id = begun[i] /\ tools'[i].args = New(i)
        <3>1. \A i \in 1..n : [id |-> begun[i], args |-> New(i)] \in ToolCall
            BY <2>1, <2>3 DEF ToolCall
        <3> HIDE DEF New
        <3>2. n \in Nat
            BY <2>1
        <3> HIDE DEF n
        <3> QED BY <2>4, <3>1, <3>2
    <2>7. ASSUME NEW i \in 1..n PROVE Given(i)'
        <3> SUFFICES ASSUME begun[i] \notin confused PROVE New(i) = whole[begun[i]]
            BY <1>1, <2>6 DEF Given
        <3>1. CASE i # n
            <4>1. i \in 1..n - 1
                BY <2>1, <3>1
            <4>2. tools[i].args = whole[begun[i]]
                BY <1>8, <4>1 DEF Going, Given
            <4>3. offered.id # begun[i]
                BY <2>1, <2>2, <4>1 DEF IsPiece
            <4> QED BY <3>1, <4>2, <4>3
        <3>2. CASE i = n
            <4>1. Fits(n)
                BY <1>8, <3>2 DEF Going
            <4>2. CASE Given(n) /\ offered.id \notin {NoID, begun[n]}
                BY <3>2, <4>2 DEF Given
            <4>3. CASE \E args \in Seq(Char) : Completes(tools[n].args, args, begun[n])
                <5>1. /\ offered.id \in {begun[n], NoID}
                      /\ offered.id = NoID => tools[n].args \o offered.args = whole[begun[n]]
                      /\ offered.id = begun[n] =>
                            MergedArgs(tools[n].args, offered.args) = whole[begun[n]]
                    <6>1. tools[n].args \in Seq(Char) /\ begun[n] \in ToolID
                        BY <2>1, <3>2
                    <6>2. PICK args \in Seq(Char) : Completes(tools[n].args, args, begun[n])
                        BY <4>3
                    <6> QED BY <6>1, <6>2, PieceMakesWhole
                <5>2. begun[n] # NoID
                    BY <2>1, <3>2
                <5> QED BY <3>2, <5>1, <5>2
            <4> QED BY <4>1, <4>2, <4>3 DEF Fits
        <3> QED BY <3>1, <3>2
    <2>8. StreamTyped'
        BY <1>1, <1>2, <2>5, <2>6 DEF StreamInv, StreamTyped
    <2>9. ToolsInv'
        <3>1. Between'
            BY <1>1, <2>1, <2>6, <2>7 DEF Between
        <3>2. emittedTo # n
            BY <1>1, <2>1 DEF StreamInv, ToolsInv
        <3> QED BY <1>1, <1>2, <2>1, <2>5, <2>6, <3>1, <3>2 DEF ToolsInv
    <2>10. HandedInv'
        <3>1. Handed' = yielded
            BY <1>1, <1>2, <2>5 DEF Handed
        <3>2. \A i \in 1..Len(yielded) : Told(Handed[i], i)'
            BY <1>1, <1>4, <3>1 DEF Told
        <3> QED BY <1>1, <1>2, <1>3, <1>4, <2>5, <3>1, <3>2 DEF HandedInv
    <2> QED BY <1>5, <2>8, <2>9, <2>10 DEF StreamInv
<1>9. ASSUME offered.type = "call" PROVE Opening \/ Going
    <2>1. ~Between
        BY <1>1, <1>9 DEF Between, NoOffer, TextChunk, ErrorValue
    <2> QED BY <1>1, <2>1 DEF StreamInv, ToolsInv
<1> QED BY <1>6, <1>7, <1>8, <1>9 DEF ReceiveChunk

(* A channel is found closed, or drained after Close; an error ends the    *)
(* stream; Next is called or returns: no event and no call is touched.     *)
LEMMA RestKeeps ==
    ASSUME StreamInv,
           \/ NextCalled \/ NextStops \/ ReceiveError
           \/ \E c \in Chan : ReceiveClosed(c) \/ DrainChan(c)
    PROVE  StreamInv'
<1>1. /\ UNCHANGED <<pieceStyle, begun, whole, confused, upstream, shutChans, tools,
                     emittedTo, queued, yielded>>
      /\ liveChans' \subseteq liveChans /\ drainsFrom' \subseteq drainsFrom
      /\ liveChans \ liveChans' \subseteq shutChans
      /\ \/ UNCHANGED <<stopped, offered>>
         \/ UNCHANGED stopped /\ "closed" \in stopped /\ offered' \in {offered, NoOffer}
         \/ stopped = {} /\ stopped' = {"err"} /\ offered' = NoOffer
    BY DEF StreamInv, ChansInv, NextCalled, NextStops, ReceiveError, ReceiveClosed, DrainChan,
           ReadsOn, providerVars, toolVars
<1>2. StreamTyped'
    BY <1>1 DEF StreamInv, StreamTyped
<1>3. ToolsInv'
    <2>1. \A i : Given(i)' = Given(i)
        BY <1>1 DEF Given
    <2>2. stopped' = {} => (Between \/ Opening \/ Going)'
        BY <1>1, <2>1 DEF StreamInv, ToolsInv, Between, Opening, Going, IsPiece, Fits, Completes
    <2> QED BY <1>1, <2>1, <2>2 DEF StreamInv, ToolsInv
<1>4. ChansInv'
    BY <1>1 DEF StreamInv, ChansInv
<1>5. HandedInv'
    <2>1. Handed' = Handed
        BY <1>1 DEF Handed
    <2> QED BY <1>1, <2>1 DEF StreamInv, HandedInv, Told
<1> QED BY <1>2, <1>3, <1>4, <1>5 DEF StreamInv

(* Every step keeps the invariant.                                         *)
LEMMA StreamInvStep == StreamInv /\ [LLMNext]_llmVars => StreamInv'
<1> SUFFICES ASSUME StreamInv, [LLMNext]_llmVars PROVE StreamInv'
    OBVIOUS
<1>1. CASE UNCHANGED llmVars
    BY <1>1 DEF llmVars, providerVars, toolVars, StreamInv, StreamTyped, ToolsInv, ChansInv,
                HandedInv, Handed, Told, Given, Between, Opening, Going, IsPiece, Fits, Completes
<1>2. CASE LLMNext
    BY <1>2, SendOpenKeeps, SendMoreKeeps, ProviderKeeps, NextYieldsKeeps, NextEndsKeeps,
       CloseStreamKeeps, ReceiveChunkKeeps, RestKeeps DEF LLMNext
<1> QED BY <1>1, <1>2

(* For any calls, arguments, style and order of pieces: what the consumer  *)
(* is given of tool calls is what the provider made, each once and in      *)
(* order, none is missing when the stream says it is done, and each has    *)
(* all of its arguments unless a piece of it came after another call had   *)
(* begun, took the bare piece of such a one, or began under a repeated ID  *)
(* with all there was before (stream.go, accumulateToolCall, flushTools).  *)
THEOREM ToolCallsArriveWhole == LLMSpec => []ToolCallsWhole
BY StreamStarts, StreamInvStep, CallsFollow, PTL DEF LLMSpec
=============================================================================
