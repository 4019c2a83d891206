----------------------------- MODULE WorkProofs -----------------------------
(***************************************************************************)
(* What takes in work and shuts down: the pool and its group, the kafka    *)
(* consumer, the pgnotify listener and the streams of a websocket          *)
(* notifier, for any number of messages, workers, pools, readers, callers  *)
(* of Close and connections. They share no state; each part below is about *)
(* one of them.                                                            *)
(***************************************************************************)
EXTENDS JobsPool, PoolGroup, KafkaConsumer, PgListener, Streams, TLAPS

-----------------------------------------------------------------------------
(* The jobs Pool.                                                          *)

(* A worker that is between taking a message and being done with it.       *)
Busy == {"attempt", "handling", "deciding", "sleeping", "retire"}
WorkerState == Busy \cup {"off", "idle", "gone"}

(* What the hand-off keeps true: a worker has a message exactly while it   *)
(* is busy, an offered message is nobody's yet, and Run does not return    *)
(* before its workers.                                                     *)
HandOffInv ==
    /\ worker \in [Worker -> WorkerState]
    /\ job \in [Worker -> Message \cup {None}]
    /\ fate \in [Message -> Fate]
    /\ \A w \in Worker : worker[w] \in Busy <=> job[w] # None
    /\ OwnedByOne
    /\ consumer = "submitting" => offer \in Message /\ fate[offer] = "offered"
    /\ stray # None => /\ stray \in Message /\ fate[stray] = "offered"
                       /\ consumer = "returned"
    /\ run = "returned" => \A w \in Worker : worker[w] = "gone"
    /\ run = "new" => consumer = "off" /\ \A w \in Worker : worker[w] = "off"

(* A step that leaves the messages and who has them alone.                 *)
LEMMA QuietStepKeepsHandOff ==
    ASSUME HandOffInv, UNCHANGED <<job, fate>>,
           worker' \in [Worker -> WorkerState],
           \A w \in Worker : worker'[w] \in Busy <=> worker[w] \in Busy,
           consumer' = "submitting" => consumer = "submitting" /\ offer' = offer,
           stray' = stray,
           consumer = "returned" => consumer' = "returned",
           run' = "returned" => \A w \in Worker : worker'[w] = "gone",
           run' = "new" => /\ run = "new" /\ consumer' = consumer
                           /\ \A w \in Worker : worker'[w] = worker[w]
    PROVE  HandOffInv'
BY DEF HandOffInv, OwnedByOne, Pending

(* One message changes its state without changing hands.                   *)
LEMMA OfferKeepsHandOff ==
    ASSUME HandOffInv, NEW m \in Message, NEW f \in Fate,
           fate' = [fate EXCEPT ![m] = f],
           (f \in {"held", "hopeless"}) <=> (fate[m] \in {"held", "hopeless"}),
           UNCHANGED <<job, worker, run>>, run # "new",
           consumer' = "submitting" =>
               offer' \in Message /\ fate'[offer'] = "offered",
           stray' # None => /\ stray' \in Message /\ fate'[stray'] = "offered"
                            /\ consumer' = "returned"
    PROVE  HandOffInv'
<1>1. \A n \in Message : (n \in Pending') <=> (n \in Pending)
    BY DEF HandOffInv, Pending
<1>2. fate' \in [Message -> Fate]
    BY DEF HandOffInv
<1>3. OwnedByOne'
    BY <1>1 DEF HandOffInv, OwnedByOne
<1> QED BY <1>2, <1>3 DEF HandOffInv

(* Run, the consumer, the workers and Close keep the hand-off's invariant. *)
LEMMA HandOffIsKept == HandOffInv /\ [PoolNext]_poolVars => HandOffInv'
<1> SUFFICES ASSUME HandOffInv, [PoolNext]_poolVars PROVE HandOffInv'
    OBVIOUS
<1> USE PoolAssumption DEF runVars, consumerVars, workerVars
<1>1. CASE RunStarts
    BY <1>1 DEF RunStarts, HandOffInv, OwnedByOne, Pending, WorkerState, Busy
<1>2. CASE SeeStop \/ RetireWorkers \/ RunReturns
    BY <1>2, QuietStepKeepsHandOff DEF SeeStop, RetireWorkers, RunReturns, HandOffInv
<1>3. CASE DrainStep
    BY <1>3, QuietStepKeepsHandOff DEF DrainStep, DrainOne, DrainEnds, HandOffInv
<1>4. CASE ConsumerReturns \/ SubscriptionEnds \/ Report \/ ReportDropped
    BY <1>4, QuietStepKeepsHandOff
       DEF ConsumerReturns, SubscriptionEnds, Report, ReportDropped, HandOffInv
<1>5. CASE SubmitRefused
    <2>1. offer \in Message /\ fate[offer] = "offered" /\ stray = None /\ run # "new"
        BY <1>5 DEF SubmitRefused, HandOffInv
    <2> QED BY <1>5, <2>1, OfferKeepsHandOff DEF SubmitRefused, Fate
<1>6. CASE StrayRefused
    <2>1. /\ stray \in Message /\ fate[stray] = "offered" /\ consumer = "returned"
          /\ run # "new"
        BY <1>6 DEF StrayRefused, HandOffInv
    <2> QED BY <1>6, <2>1, OfferKeepsHandOff DEF StrayRefused, Fate
<1>7. ASSUME NEW m \in Message, Deliver(m) PROVE HandOffInv'
    <2>1. fate'[m] = "offered" /\ stray = None /\ run # "new"
        BY <1>7 DEF Deliver, HandOffInv
    <2> QED BY <1>7, <2>1, OfferKeepsHandOff DEF Deliver, Fate
<1>8. ASSUME NEW m \in Message, StrayDelivery(m) PROVE HandOffInv'
    <2>1. fate'[m] = "offered" /\ consumer = "returned" /\ run # "new"
        BY <1>8 DEF StrayDelivery, HandOffInv
    <2> QED BY <1>8, <2>1, OfferKeepsHandOff DEF StrayDelivery, Fate
<1>9. CASE ClosePool \/ CloseDone \/ CloseExpires
    BY <1>9, QuietStepKeepsHandOff DEF ClosePool, CloseDone, CloseExpires, HandOffInv
<1>10. ASSUME NEW w \in Worker, Retire(w) PROVE HandOffInv'
    BY <1>10, QuietStepKeepsHandOff DEF Retire, HandOffInv, WorkerState, Busy
<1>11. ASSUME NEW w \in Worker, Attempt(w) \/ Decide(w) \/ Sleep(w)
       PROVE HandOffInv'
    <2>1. worker[w] \in Busy /\ run # "returned"
        BY <1>11 DEF Attempt, Decide, Sleep, Busy, HandOffInv
    <2>2. \E b \in Busy : worker' = [worker EXCEPT ![w] = b]
        BY <1>11 DEF Attempt, Decide, Sleep, Becomes, Busy
    <2> QED BY <1>11, <2>1, <2>2, QuietStepKeepsHandOff
            DEF Attempt, Decide, Sleep, HandOffInv, WorkerState
<1>12. ASSUME NEW w \in Worker, NEW m \in Message, Take(w, m),
              fate[m] = "offered",
              consumer' = "submitting" => offer' \in Message /\ offer' # m
                                          /\ fate[offer'] = "offered",
              stray' # None => /\ stray' \in Message /\ stray' # m
                               /\ fate[stray'] = "offered"
                               /\ consumer' = "returned"
       PROVE HandOffInv'
    <2>1. /\ worker[w] = "idle" /\ job[w] = None /\ run \notin {"returned"}
          /\ \A v \in Worker : job[v] # m
        BY <1>12 DEF Take, HandOffInv, Busy, OwnedByOne, Pending
    <2>2. \A n \in Message : n \in Pending' <=> n \in Pending \/ n = m
        BY <1>12 DEF Take, HandOffInv, Pending
    <2>3. \A v \in Worker : job'[v] = IF v = w THEN m ELSE job[v]
        BY <1>12 DEF Take, HandOffInv
    <2>4. OwnedByOne'
        BY <2>1, <2>2, <2>3 DEF HandOffInv, OwnedByOne
    <2>5. /\ worker' \in [Worker -> WorkerState]
          /\ job' \in [Worker -> Message \cup {None}]
          /\ fate' \in [Message -> Fate]
          /\ \A v \in Worker : worker'[v] \in Busy <=> job'[v] # None
        BY <1>12, <2>1 DEF Take, HandOffInv, WorkerState, Busy, Fate
    <2>6. run' \notin {"new", "returned"}
        BY <1>12, <2>1 DEF Take, HandOffInv
    <2>7. fate'[m] = "held" /\ \A n \in Message \ {m} : fate'[n] = fate[n]
        BY <1>12 DEF Take, HandOffInv
    <2> QED BY <1>12, <2>4, <2>5, <2>6, <2>7 DEF HandOffInv
<1>13. ASSUME NEW w \in Worker, Accept(w) PROVE HandOffInv'
    <2>1. offer \in Message /\ fate[offer] = "offered" /\ stray = None
        BY <1>13 DEF Accept, HandOffInv
    <2> QED BY <1>12, <1>13, <2>1 DEF Accept
<1>14. ASSUME NEW w \in Worker, AcceptStray(w) PROVE HandOffInv'
    <2>1. stray \in Message /\ fate[stray] = "offered" /\ consumer = "returned"
        BY <1>14 DEF AcceptStray, HandOffInv
    <2> QED BY <1>12, <1>14, <2>1 DEF AcceptStray
<1>15. ASSUME NEW w \in Worker, NEW f \in Final, Ends(w, f),
              worker[w] \in Busy, UNCHANGED <<run, consumer, offer, stray>>
       PROVE HandOffInv'
    <2>1. PICK m \in Message : m = job[w]
        BY <1>15 DEF HandOffInv
    <2>2. m \in Pending /\ \A v \in Worker : v # w => job[v] # m
        BY <2>1 DEF HandOffInv, OwnedByOne
    <2>3. fate' = [fate EXCEPT ![m] = f] /\ f \notin {"held", "hopeless", "offered"}
        BY <1>15, <2>1 DEF Ends, Final, Retired
    <2>4. \A n \in Message : n \in Pending' <=> n \in Pending /\ n # m
        BY <2>3 DEF HandOffInv, Pending
    <2>5. \A v \in Worker : job'[v] = IF v = w THEN None ELSE job[v]
        BY <1>15 DEF Ends, HandOffInv
    <2>6. OwnedByOne'
        BY <2>1, <2>2, <2>4, <2>5 DEF HandOffInv, OwnedByOne
    <2>7. /\ worker' \in [Worker -> WorkerState]
          /\ job' \in [Worker -> Message \cup {None}]
          /\ \A v \in Worker : worker'[v] \in Busy <=> job'[v] # None
        BY <1>15, <2>5 DEF Ends, Becomes, HandOffInv, WorkerState, Busy
    <2>8. fate' \in [Message -> Fate]
        BY <2>3 DEF HandOffInv, Fate
    <2>9. run' \notin {"new", "returned"}
        BY <1>15 DEF HandOffInv, Busy
    <2>10. \A n \in Message : fate[n] = "offered" => fate'[n] = "offered"
        BY <2>2, <2>3 DEF Pending, HandOffInv
    <2> QED BY <1>15, <2>6, <2>7, <2>8, <2>9, <2>10 DEF HandOffInv
<1>16. ASSUME NEW w \in Worker, Dispose(w) PROVE HandOffInv'
    BY <1>15, <1>16 DEF Dispose, Busy, Final, Retired
<1>17. ASSUME NEW w \in Worker, Handled(w) PROVE HandOffInv'
    <2>1. worker[w] \in Busy /\ run \notin {"new", "returned"}
        BY <1>17 DEF Handled, Busy, HandOffInv
    <2>2. CASE Ends(w, "processed")
        BY <1>15, <1>17, <2>1, <2>2 DEF Handled, Final
    <2>3. CASE Becomes(w, "deciding") /\ UNCHANGED <<job, fate>>
        BY <1>17, <2>1, <2>3, QuietStepKeepsHandOff
           DEF Handled, Becomes, HandOffInv, WorkerState, Busy
    <2>4. CASE Becomes(w, "deciding") /\ fate' = [fate EXCEPT ![job[w]] = "hopeless"]
               /\ UNCHANGED job
        <3>1. PICK m \in Message : m = job[w] /\ m \in Pending
            BY <2>1 DEF HandOffInv, OwnedByOne
        <3>2. \A n \in Message : n \in Pending' <=> n \in Pending
            BY <2>4, <3>1 DEF HandOffInv, Pending
        <3>3. OwnedByOne'
            BY <2>4, <3>2 DEF HandOffInv, OwnedByOne
        <3>4. \A n \in Message : fate[n] = "offered" => fate'[n] = "offered"
            BY <2>4, <3>1 DEF Pending, HandOffInv
        <3>5. /\ worker' \in [Worker -> WorkerState] /\ fate' \in [Message -> Fate]
              /\ \A v \in Worker : worker'[v] \in Busy <=> worker[v] \in Busy
            BY <2>1, <2>4, <3>1 DEF Becomes, HandOffInv, WorkerState, Busy, Fate
        <3> QED BY <1>17, <2>1, <2>4, <3>3, <3>4, <3>5 DEF Handled, HandOffInv
    <2> QED BY <1>17, <2>2, <2>3, <2>4 DEF Handled
<1>18. CASE UNCHANGED poolVars
    BY <1>18, QuietStepKeepsHandOff DEF poolVars, HandOffInv
<1> QED BY <1>1, <1>2, <1>3, <1>4, <1>5, <1>6, <1>7, <1>8, <1>9, <1>10, <1>11,
           <1>13, <1>14, <1>16, <1>17, <1>18
        DEF PoolNext, RunStep, ConsumerStep, WorkerStep

(* Nothing was submitted and no worker runs.                               *)
LEMMA HandOffStarts == PoolInit => HandOffInv
BY PoolAssumption DEF PoolInit, HandOffInv, OwnedByOne, Pending, WorkerState,
                      Busy, Fate

-----------------------------------------------------------------------------
(* Every message submit accepted and that has no outcome yet is with       *)
(* exactly one worker (pool.go, submit, worker and process).               *)
THEOREM AcceptedIsOwnedByOne == PoolSpec => []OwnedByOne
<1>1. HandOffInv => OwnedByOne
    BY DEF HandOffInv
<1> QED BY <1>1, HandOffStarts, HandOffIsKept, PTL DEF PoolSpec

(* When Run returns, every accepted message has its outcome (pool.go, Run).*)
THEOREM RunReturnsDrained == PoolSpec => []DrainedOnReturn
<1>1. HandOffInv => DrainedOnReturn
    BY PoolAssumption DEF HandOffInv, DrainedOnReturn, OwnedByOne, Busy, Pending
<1> QED BY <1>1, HandOffStarts, HandOffIsKept, PTL DEF PoolSpec

-----------------------------------------------------------------------------
(* The PoolGroup.                                                          *)

(* The group need not answer for p: it has returned, was never built, or   *)
(* its Close outlasted the context.                                        *)
LetGo(p) == \/ state[p] \in {"unbuilt", "returned"}
            \/ state[p] = "stopping" /\ p \in forgotten

(* What makes AllOrNone inductive: before the first Start nothing is       *)
(* built; while a Start is inside the pools it keeps are exactly those     *)
(* that run; while a Close is inside, also the one of a failed Start,      *)
(* every pool it keeps has been told to stop, those that answered in time  *)
(* have returned, and the group kept every pool that is left.              *)
InsideInv ==
    /\ ~latch => pools = {} /\ inside = "nobody" /\ \A p \in Position : state[p] = "unbuilt"
    /\ inside = "start" => \A p \in Position :
          state[p] = IF p \in pools THEN "running" ELSE "unbuilt"
    /\ inside = "close" =>
          /\ \A p \in pools : state[p] \in {"stopping", "returned"}
          /\ \A p \in closed \ late : state[p] = "returned"
          /\ \A p \in Position \ pools : LetGo(p)
    /\ inside # "close" => closed = {}

GroupInv == GroupOK /\ AllOrNone /\ InsideInv

(* A group that was never started has none of its pools.                   *)
LEMMA GroupStarts == GroupInit => GroupInv
BY GroupAssumption DEF GroupInit, GroupInv, GroupOK, AllOrNone, InsideInv, LetGo

(* Start, Close and the pools beside them keep the invariant.              *)
LEMMA GroupInvStep == GroupInv /\ [GroupNext]_groupVars => GroupInv'
<1> SUFFICES ASSUME GroupInv, [GroupNext]_groupVars PROVE GroupInv'
  OBVIOUS
<1> USE GroupAssumption DEF GroupInv, GroupOK, AllOrNone, InsideInv, LetGo
<1>1. CASE UNCHANGED groupVars
  BY <1>1 DEF groupVars
<1>2. CASE StartGroup
  BY <1>2 DEF StartGroup
<1>3. CASE BuildFails
  BY <1>3 DEF BuildFails, BeginClose
<1>4. CASE StartReturns
  BY <1>4 DEF StartReturns
<1>5. CASE CloseGroup
  BY <1>5 DEF CloseGroup, BeginClose
<1>6. CASE CloseReturns
  BY <1>6 DEF CloseReturns
<1>7. ASSUME NEW p \in Position, BuildPool(p) PROVE GroupInv'
  BY <1>7 DEF BuildPool
<1>8. ASSUME NEW p \in Position, PoolDrains(p) PROVE GroupInv'
  BY <1>8 DEF PoolDrains
<1>9. ASSUME NEW p \in Position, NEW expires \in BOOLEAN, PoolCloses(p, expires)
      PROVE  GroupInv'
  BY <1>9 DEF PoolCloses
<1> QED
  BY <1>1, <1>2, <1>3, <1>4, <1>5, <1>6, <1>7, <1>8, <1>9 DEF GroupNext

(* When no call is inside, a PoolGroup has all of its pools running or     *)
(* none, whichever build failed, and whoever called Start or Close how     *)
(* often; the pools whose Close outlasted its context are the only ones    *)
(* excepted (poolgroup.go, Start and Close).                               *)
THEOREM GroupIsAllOrNone == GroupSpec => []AllOrNone
<1>1. GroupInv => AllOrNone
  BY DEF GroupInv
<1> QED BY <1>1, GroupStarts, GroupInvStep, PTL DEF GroupSpec

-----------------------------------------------------------------------------
(* The kafka consumer.                                                     *)

(* The messages before o have all been accepted by a handler.              *)
Accepted(o) == \A i \in 0..LogLength - 1 : i < o => i \in succeeded

(* What makes NothingSkipped inductive: the partition is a running         *)
(* reader's; all before its position is accepted, except what it has in    *)
(* hand; and so is all before the message in hand, and that message itself *)
(* once a commit may cover it.                                             *)
PositionInv ==
    /\ Accepted(committed)
    /\ \A r \in Reader :
          /\ assigned = r =>
                /\ stage[r] \notin {"off", "returned"}
                /\ \A i \in 0..LogLength - 1 :
                      i < offset[r] => \/ i \in succeeded
                                       \/ /\ stage[r] \in {"handle", "handleFailed"}
                                          /\ i = message[r]
          /\ stage[r] \in {"handle", "commit"} =>
                /\ message[r] < LogLength
                /\ Accepted(message[r])
          /\ stage[r] = "commit" => message[r] \in succeeded

KafkaInv == KafkaTypeOK /\ PositionInv

(* No reader runs, and the group has committed nothing.                    *)
LEMMA KafkaStarts == KafkaInit => KafkaInv
BY KafkaAssumption DEF KafkaInit, KafkaInv, KafkaTypeOK, PositionInv, Accepted

(* Offsets stay within the partition.                                      *)
LEMMA KafkaTyped == KafkaInv /\ [KafkaNext]_kafkaVars => KafkaTypeOK'
<1> SUFFICES ASSUME KafkaInv, [KafkaNext]_kafkaVars PROVE KafkaTypeOK'
  OBVIOUS
<1> USE KafkaAssumption DEF KafkaInv, KafkaTypeOK, PositionInv, At, Returns
<1>1. CASE UNCHANGED kafkaVars
  BY <1>1 DEF kafkaVars
<1>2. ASSUME NEW r \in Reader,
             StartReader(r) \/ Assign(r) \/ CancelReader(r) \/ KillReader(r)
      PROVE  KafkaTypeOK'
  BY <1>2 DEF StartReader, Assign, CancelReader, KillReader
<1>3. ASSUME NEW r \in Reader, Fetch(r) PROVE KafkaTypeOK'
  BY <1>3 DEF Fetch
<1>4. ASSUME NEW r \in Reader, FetchFails(r) \/ FetchReported(r) \/ BackOff(r)
      PROVE  KafkaTypeOK'
  BY <1>4 DEF FetchFails, FetchReported, BackOff
<1>5. ASSUME NEW r \in Reader,
             HandlerSucceeds(r) \/ HandlerFails(r) \/ FailureReported(r)
      PROVE  KafkaTypeOK'
  BY <1>5 DEF HandlerSucceeds, HandlerFails, FailureReported
<1>6. ASSUME NEW r \in Reader, Commit(r) PROVE KafkaTypeOK'
  BY <1>6 DEF Commit
<1>7. ASSUME NEW r \in Reader, CommitFails(r) PROVE KafkaTypeOK'
  BY <1>7 DEF CommitFails
<1>8. ASSUME NEW r \in Reader, CommitReported(r) PROVE KafkaTypeOK'
  BY <1>8 DEF CommitReported
<1> QED BY <1>1, <1>2, <1>3, <1>5, <1>6, <1>4, <1>7, <1>8 DEF KafkaNext

(* No step of a reader or of the group brings a position past a message    *)
(* nobody accepted: a failed handler ends its reader, and a new assignment *)
(* starts at the committed offset.                                         *)
LEMMA PositionIsKept == KafkaInv /\ [KafkaNext]_kafkaVars => PositionInv'
<1> SUFFICES ASSUME KafkaInv, [KafkaNext]_kafkaVars PROVE PositionInv'
  OBVIOUS
<1> USE KafkaAssumption DEF KafkaInv, KafkaTypeOK, PositionInv, Accepted, At, Returns
<1>1. CASE UNCHANGED kafkaVars
  BY <1>1 DEF kafkaVars
<1>2. ASSUME NEW r \in Reader, StartReader(r) PROVE PositionInv'
  BY <1>2 DEF StartReader
<1>3. ASSUME NEW r \in Reader, Assign(r) PROVE PositionInv'
  BY <1>3 DEF Assign
<1>4. ASSUME NEW r \in Reader, CancelReader(r) \/ KillReader(r) PROVE PositionInv'
  BY <1>4 DEF CancelReader, KillReader
<1>5. ASSUME NEW r \in Reader, Fetch(r) PROVE PositionInv'
  BY <1>5 DEF Fetch
<1>6. ASSUME NEW r \in Reader, FetchFails(r) \/ FetchReported(r) \/ BackOff(r)
      PROVE  PositionInv'
  BY <1>6 DEF FetchFails, FetchReported, BackOff
<1>7. ASSUME NEW r \in Reader, HandlerSucceeds(r) PROVE PositionInv'
  BY <1>7 DEF HandlerSucceeds
<1>8. ASSUME NEW r \in Reader, HandlerFails(r) \/ FailureReported(r)
      PROVE  PositionInv'
  BY <1>8 DEF HandlerFails, FailureReported
<1>9. ASSUME NEW r \in Reader, Commit(r) PROVE PositionInv'
  BY <1>9 DEF Commit
<1>10. ASSUME NEW r \in Reader, CommitFails(r) PROVE PositionInv'
  BY <1>10 DEF CommitFails
<1>11. ASSUME NEW r \in Reader, CommitReported(r) PROVE PositionInv'
  BY <1>11 DEF CommitReported
<1> QED
  BY <1>1, <1>2, <1>3, <1>4, <1>5, <1>6, <1>7, <1>8, <1>9, <1>10, <1>11 DEF KafkaNext

(* The committed offset is never past a message no handler accepted, for   *)
(* any number of readers, rebalances, crashes and commits that are         *)
(* repeated, late or lost (consumer.go, Consume).                          *)
THEOREM NoMessageIsSkipped == KafkaSpec => []NothingSkipped
<1>1. KafkaInv => NothingSkipped
  BY DEF KafkaInv, PositionInv, Accepted, NothingSkipped
<1> QED BY <1>1, KafkaStarts, KafkaTyped, PositionIsKept, PTL DEF KafkaSpec, KafkaInv

-----------------------------------------------------------------------------
(* The pgnotify listener.                                                  *)

(* What makes ClosedHoldsNothing inductive: a connection is open only      *)
(* while Run is in a session, the mark that Run sets tells whether it has  *)
(* begun, and whoever has called Close has closed the stop channel.        *)
ClosingInv ==
    /\ ClosedHoldsNothing
    /\ started <=> loop # "off"
    /\ link # "none" => loop \in {"listen", "gap", "wait", "wake", "teardown"}
    /\ \A c \in Closer : caller[c] # "none" => stopped
    /\ inbox <= rows

ListenerInv == ListenerTypeOK /\ ClosingInv

(* Neither Run nor Close was called.                                       *)
LEMMA ListenerStarts == ListenerInit => ListenerInv
<1> SUFFICES ASSUME ListenerInit PROVE ListenerInv
  OBVIOUS
<1> USE ListenerAssumption DEF ListenerInit
<1>1. ListenerTypeOK
  <2>1. inbox \in 0..MaxRows /\ rows \in 0..MaxRows /\ read \in 0..MaxRows
    OBVIOUS
  <2>2. caller \in [Closer -> {"none", "looks", "waits", "nil", "expired"}]
    OBVIOUS
  <2> QED BY <2>1, <2>2 DEF ListenerTypeOK
<1>2. ClosingInv
  BY DEF ClosingInv, ClosedHoldsNothing
<1> QED BY <1>1, <1>2 DEF ListenerInv

(* Run, its sessions, Close and the server keep the invariant.             *)
LEMMA ListenerInvStep == ListenerInv /\ [ListenerNext]_listenerVars => ListenerInv'
<1> SUFFICES ASSUME ListenerInv, [ListenerNext]_listenerVars PROVE ListenerInv'
  OBVIOUS
<1> USE ListenerAssumption DEF ListenerInv, ListenerTypeOK, ClosingInv, ClosedHoldsNothing, outside
<1>1. CASE UNCHANGED listenerVars
  BY <1>1 DEF listenerVars
<1>2. CASE RunListener
  BY <1>2 DEF RunListener
<1>3. CASE CheckStop \/ AfterSession
  BY <1>3 DEF CheckStop, AfterSession, Goes
<1>4. CASE DialFails \/ ListenFails
  BY <1>4 DEF DialFails, ListenFails
<1>5. CASE WakePoller
  BY <1>5 DEF WakePoller
<1>6. CASE Receive
  BY <1>6 DEF Receive
<1>7. CASE WaitFails \/ CloseConn
  BY <1>7 DEF WaitFails, CloseConn
<1>8. CASE SleepOut
  BY <1>8 DEF SleepOut
<1>9. CASE Dial \/ Listen
  BY <1>9 DEF Dial, Listen
<1>10. CASE StopCancels
  BY <1>10 DEF StopCancels
<1>11. ASSUME NEW c \in Closer, CloseListener(c) PROVE ListenerInv'
  BY <1>11 DEF CloseListener
<1>12. ASSUME NEW c \in Closer, LooksStarted(c) PROVE ListenerInv'
  BY <1>12 DEF LooksStarted
<1>13. ASSUME NEW c \in Closer, CloseAnswers(c) PROVE ListenerInv'
  BY <1>13 DEF CloseAnswers
<1>14. CASE CommitRow
  <2>1. rows' \in 0..MaxRows /\ inbox' \in 0..MaxRows /\ inbox' <= rows'
    BY <1>14 DEF CommitRow
  <2> QED BY <1>14, <2>1 DEF CommitRow
<1>15. CASE LoseSession
  BY <1>15 DEF LoseSession
<1>16. CASE PollerWakes
  BY <1>16 DEF PollerWakes
<1>17. CASE PollerReads
  BY <1>17 DEF PollerReads
<1> QED
  BY <1>1, <1>2, <1>3, <1>4, <1>5, <1>6, <1>7, <1>8, <1>9, <1>10, <1>11, <1>12,
     <1>13, <1>14, <1>15, <1>16, <1>17 DEF ListenerNext, RunAdvances

(* Once a Close has returned nil, no connection is open, and Run was not   *)
(* begun, has returned, or is about to find that it must return without    *)
(* dialling: for any number of callers of Close and any lost sessions      *)
(* (pgnotify.go, Run and Close).                                           *)
THEOREM NothingOpenAfterClose == ListenerSpec => []ClosedHoldsNothing
<1>1. ListenerInv => ClosedHoldsNothing
  BY DEF ListenerInv, ClosingInv
<1> QED BY <1>1, ListenerStarts, ListenerInvStep, PTL DEF ListenerSpec

-----------------------------------------------------------------------------
(* eventstream: StreamManager.                                             *)

(* With the types it is inductive as it stands.                            *)
RegisteredInv == StreamTypeOK /\ RegisteredIsNewest

(* Connections that come, go, break and are sent to keep it.               *)
LEMMA RegisteredStep == RegisteredInv /\ [StreamNext]_streamVars => RegisteredInv'
<1> SUFFICES ASSUME RegisteredInv, [StreamNext]_streamVars PROVE RegisteredInv'
    OBVIOUS
<1> USE StreamAssumption DEF RegisteredInv, StreamTypeOK, RegisteredIsNewest, pubVars
<1>1. ASSUME NEW s \in Stream, Upgrade(s) PROVE RegisteredInv'
    BY <1>1 DEF Upgrade
<1>2. ASSUME NEW s \in Stream, Add(s) PROVE RegisteredInv'
    BY <1>2 DEF Add
<1>3. ASSUME NEW s \in Stream, Remove(s) PROVE RegisteredInv'
    BY <1>3 DEF Remove
<1>4. ASSUME NEW s \in Stream, Disconnect(s) \/ PumpCloses(s) PROVE RegisteredInv'
    BY <1>4 DEF Disconnect, PumpCloses
<1>5. ASSUME NEW s \in Stream, Send(s) PROVE RegisteredInv'
    BY <1>5 DEF Send
<1>6. ASSUME NEW some \in SUBSET Member, Snapshot(some) PROVE RegisteredInv'
    <2>1. Copied(some) \subseteq Stream /\ Connected(some) \subseteq Stream
        BY DEF Copied, Connected
    <2> QED BY <1>6, <2>1 DEF Snapshot
<1>7. CASE PublishReturns
    BY <1>7 DEF PublishReturns
<1>8. CASE UNCHANGED streamVars
    BY <1>8 DEF streamVars
<1> QED BY <1>1, <1>2, <1>3, <1>4, <1>5, <1>6, <1>7, <1>8 DEF StreamNext

(* For any members and connections, whatever of them break and reconnect:  *)
(* who is registered is a member's newest connection, and is watched       *)
(* (manager.go, Add and Remove; websocket.go, AcceptConnection).           *)
THEOREM NoOlderStreamComesBack == StreamSpec => []RegisteredIsNewest
<1>1. StreamInit => RegisteredInv
    BY StreamAssumption DEF StreamInit, RegisteredInv, StreamTypeOK, RegisteredIsNewest
<1>2. RegisteredInv => RegisteredIsNewest
    BY DEF RegisteredInv
<1> QED BY <1>1, <1>2, RegisteredStep, PTL DEF StreamSpec
=============================================================================
