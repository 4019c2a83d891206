------------------------------ MODULE JobsPool ------------------------------
(***************************************************************************)
(* jobs.Pool: a queue consumer, an unbuffered hand-off to a fixed set of   *)
(* workers, per-message retries, a dead-letter path, and a shutdown that   *)
(* drains. The consumer is messagequeue/redis's loop, which reports its    *)
(* handler's errors through consumererr.Send.                              *)
(*                                                                         *)
(* The goroutines are Run, its drain of the error channel, the consumer,   *)
(* the workers, one caller of Close, and one stray delivery by a consumer  *)
(* that calls its handler after Consume has returned. A panic in a handler *)
(* is contained and counts as an error.                                    *)
(***************************************************************************)
EXTENDS Naturals, FiniteSets

CONSTANTS Message,
          Worker,       \* one per Concurrency
          MaxAttempts,  \* of the retry policy
          DeadLetters,  \* whether a dead-letter destination is configured
          None          \* no message

ASSUME PoolAssumption ==
    /\ IsFiniteSet(Worker) /\ Worker # {}
    /\ MaxAttempts \in Nat \ {0}
    /\ DeadLetters \in BOOLEAN
    /\ None \notin Message

VARIABLES run,       \* Run: where it is
          stop,      \* p.stop is closed
          cancelled, \* workerCtx is cancelled
          consumer,  \* the consumer's loop
          offer,     \* the message in the consumer's call of submit
          stray,     \* the message in a late call of submit
          errs,      \* errors buffered in Run's channel, capacity Concurrency
          drain,     \* the drain goroutine
          closer,    \* the caller of Close
          worker,    \* what each worker is doing
          job,       \* the message each worker has
          tries,     \* attempts made on each message
          fate       \* what has become of each message

poolVars == <<run, stop, cancelled, consumer, offer, stray, errs, drain, closer,
              worker, job, tries, fate>>

Retired == {"deadLettered", "dropped", "dlFailed"}
Final   == {"processed"} \cup Retired
\* hopeless: its last error is one the policy does not retry.
Fate    == {"queued", "offered", "refused", "held", "hopeless"} \cup Final

PoolTypeOK ==
    /\ run \in {"new", "serving", "stopping", "retiring", "returned"}
    /\ stop \in BOOLEAN /\ cancelled \in BOOLEAN
    /\ consumer \in {"off", "idle", "submitting", "reporting", "returned"}
    /\ offer \in Message \cup {None} /\ stray \in Message \cup {None}
    /\ errs \in 0..Cardinality(Worker)
    /\ drain \in {"off", "on", "ended"}
    /\ closer \in {"none", "waiting", "nil", "expired"}
    /\ worker \in [Worker -> {"off", "idle", "attempt", "handling", "deciding",
                              "sleeping", "retire", "gone"}]
    /\ job \in [Worker -> Message \cup {None}]
    /\ tries \in [Message -> 0..MaxAttempts]
    /\ fate \in [Message -> Fate]

PoolInit ==
    /\ run = "new" /\ stop = FALSE /\ cancelled = FALSE
    /\ consumer = "off" /\ offer = None /\ stray = None
    /\ errs = 0 /\ drain = "off" /\ closer = "none"
    /\ worker = [w \in Worker |-> "off"]
    /\ job = [w \in Worker |-> None]
    /\ tries = [m \in Message |-> 0]
    /\ fate = [m \in Message |-> "queued"]

runVars      == <<run, stop, cancelled, closer>>
consumerVars == <<consumer, offer, stray, errs>>
workerVars   == <<worker, job, tries>>

-----------------------------------------------------------------------------
(* Run and Close.                                                          *)
RunStarts ==
    /\ run = "new"
    /\ run' = "serving"
    /\ worker' = [w \in Worker |-> "idle"]
    /\ consumer' = "idle"
    /\ drain' = "on"
    /\ UNCHANGED <<stop, cancelled, closer, offer, stray, errs, job, tries, fate>>

\* consumeCtx: Run's own, derived from workerCtx.
StopConsuming == run \in {"stopping", "retiring", "returned"} \/ cancelled

SeeStop ==
    /\ run = "serving" /\ stop
    /\ run' = "stopping"
    /\ UNCHANGED <<stop, cancelled, closer, consumerVars, drain, workerVars, fate>>

(* close(noMoreWork), once Consume has returned and its errors are read.   *)
RetireWorkers ==
    /\ run = "stopping" /\ consumer = "returned" /\ drain = "ended"
    /\ run' = "retiring"
    /\ UNCHANGED <<stop, cancelled, closer, consumerVars, drain, workerVars, fate>>

(* wg.Wait is over, and done is closed. Variant: Run does not wait.        *)
RunReturnsAtOnce ==
    /\ run = "retiring"
    /\ run' = "returned"
    /\ UNCHANGED <<stop, cancelled, closer, consumerVars, drain, workerVars, fate>>

RunReturns ==
    /\ run = "retiring" /\ \A w \in Worker : worker[w] = "gone"
    /\ run' = "returned"
    /\ UNCHANGED <<stop, cancelled, closer, consumerVars, drain, workerVars, fate>>

(* Close may be called again after its context has expired.               *)
ClosePool ==
    /\ closer \in {"none", "expired"}
    /\ closer' = "waiting"
    /\ stop' = TRUE
    /\ UNCHANGED <<run, cancelled, consumerVars, drain, workerVars, fate>>

CloseDone ==
    /\ closer = "waiting" /\ run = "returned"
    /\ closer' = "nil"
    /\ cancelled' = TRUE
    /\ UNCHANGED <<run, stop, consumerVars, drain, workerVars, fate>>

CloseExpires ==
    /\ closer = "waiting"
    /\ closer' = "expired"
    /\ cancelled' = TRUE
    /\ UNCHANGED <<run, stop, consumerVars, drain, workerVars, fate>>

-----------------------------------------------------------------------------
(* The drain of the error channel ends with the consumer, the rest of the  *)
(* buffer read first.                                                      *)
DrainOne ==
    /\ drain = "on" /\ errs > 0
    /\ errs' = errs - 1
    /\ UNCHANGED <<runVars, consumer, offer, stray, drain, workerVars, fate>>

(* Variant: the drain ends only when the error channel is closed.          *)
DrainNever ==
    /\ drain = "on" /\ consumer = "gone"
    /\ drain' = "ended"
    /\ UNCHANGED <<runVars, consumerVars, workerVars, fate>>

DrainEnds ==
    /\ drain = "on" /\ consumer = "returned" /\ errs = 0
    /\ drain' = "ended"
    /\ UNCHANGED <<runVars, consumerVars, workerVars, fate>>

-----------------------------------------------------------------------------
(* The consumer: a message to submit, or the end of its context.           *)
Deliver(m) ==
    /\ consumer = "idle" /\ fate[m] = "queued"
    /\ consumer' = "submitting" /\ offer' = m
    /\ fate' = [fate EXCEPT ![m] = "offered"]
    /\ UNCHANGED <<runVars, stray, errs, drain, workerVars>>

ConsumerReturns ==
    /\ consumer = "idle" /\ StopConsuming
    /\ consumer' = "returned"
    /\ UNCHANGED <<runVars, offer, stray, errs, drain, workerVars, fate>>

(* The broker's client closes the subscription's channel under Consume;    *)
(* Run hears of it only once it is stopped.                                *)
SubscriptionEnds ==
    /\ consumer = "idle"
    /\ consumer' = "returned"
    /\ UNCHANGED <<runVars, offer, stray, errs, drain, workerVars, fate>>

(* submit's other branch: the pool is stopping and the message is refused. *)
SubmitRefused ==
    /\ consumer = "submitting" /\ stop
    /\ consumer' = "reporting" /\ offer' = None
    /\ fate' = [fate EXCEPT ![offer] = "refused"]
    /\ UNCHANGED <<runVars, stray, errs, drain, workerVars>>

(* consumererr.Send: the channel if it has room, else the channel or ctx.  *)
Report ==
    /\ consumer = "reporting" /\ errs < Cardinality(Worker)
    /\ consumer' = "idle" /\ errs' = errs + 1
    /\ UNCHANGED <<runVars, offer, stray, drain, workerVars, fate>>

ReportDropped ==
    /\ consumer = "reporting" /\ errs = Cardinality(Worker) /\ StopConsuming
    /\ consumer' = "idle"
    /\ UNCHANGED <<runVars, offer, stray, errs, drain, workerVars, fate>>

(* A consumer that calls its handler once more after Consume has returned. *)
StrayDelivery(m) ==
    /\ consumer = "returned" /\ stray = None /\ fate[m] = "queued"
    /\ stray' = m
    /\ fate' = [fate EXCEPT ![m] = "offered"]
    /\ UNCHANGED <<runVars, consumer, offer, errs, drain, workerVars>>

StrayRefused ==
    /\ stray # None /\ stop
    /\ stray' = None
    /\ fate' = [fate EXCEPT ![stray] = "refused"]
    /\ UNCHANGED <<runVars, consumer, offer, errs, drain, workerVars>>

-----------------------------------------------------------------------------
(* A worker takes what submit offers, or retires. With both possible, the  *)
(* select takes either.                                                    *)
Take(w, m) ==
    /\ worker[w] = "idle"
    /\ worker' = [worker EXCEPT ![w] = "attempt"]
    /\ job' = [job EXCEPT ![w] = m]
    /\ fate' = [fate EXCEPT ![m] = "held"]
    /\ UNCHANGED <<runVars, errs, drain, tries>>

Accept(w) ==
    /\ consumer = "submitting"
    /\ Take(w, offer)
    /\ consumer' = "idle" /\ offer' = None
    /\ UNCHANGED stray

AcceptStray(w) ==
    /\ stray # None
    /\ Take(w, stray)
    /\ stray' = None
    /\ UNCHANGED <<consumer, offer>>

Retire(w) ==
    /\ worker[w] = "idle" /\ run \in {"retiring", "returned"}
    /\ worker' = [worker EXCEPT ![w] = "gone"]
    /\ UNCHANGED <<runVars, consumerVars, drain, job, tries, fate>>

Becomes(w, what) == worker' = [worker EXCEPT ![w] = what]
Ends(w, how) ==
    /\ Becomes(w, "idle")
    /\ job' = [job EXCEPT ![w] = None]
    /\ fate' = [fate EXCEPT ![job[w]] = how]

(* policy.Execute: the context is looked at before each attempt...         *)
Attempt(w) ==
    /\ worker[w] = "attempt"
    /\ \/ cancelled /\ Becomes(w, "retire") /\ UNCHANGED tries
       \/ /\ ~cancelled
          /\ Becomes(w, "handling")
          /\ tries' = [tries EXCEPT ![job[w]] = @ + 1]
    /\ UNCHANGED <<runVars, consumerVars, drain, job, fate>>

(* ...and the handler runs.                                                *)
Handled(w) ==
    /\ worker[w] = "handling"
    /\ \/ Ends(w, "processed")
       \/ Becomes(w, "deciding") /\ UNCHANGED <<job, fate>>
       \/ /\ Becomes(w, "deciding")
          /\ fate' = [fate EXCEPT ![job[w]] = "hopeless"]
          /\ UNCHANGED job
    /\ UNCHANGED <<runVars, consumerVars, drain, tries>>

(* An error ends the loop when it is terminal or was the last attempt.     *)
Decide(w) ==
    /\ worker[w] = "deciding"
    /\ Becomes(w, IF cancelled \/ fate[job[w]] = "hopeless" \/ tries[job[w]] = MaxAttempts
                  THEN "retire" ELSE "sleeping")
    /\ UNCHANGED <<runVars, consumerVars, drain, job, tries, fate>>

(* The backoff, cut short by workerCtx.                                    *)
Sleep(w) ==
    /\ worker[w] = "sleeping"
    /\ \/ Becomes(w, "attempt")
       \/ cancelled /\ Becomes(w, "retire")
    /\ UNCHANGED <<runVars, consumerVars, drain, job, tries, fate>>

(* retire, on a context that cannot be cancelled.                          *)
(* Variant: a message is abandoned when the pool is being cancelled.       *)
DisposeOnWorkerCtx(w) ==
    /\ worker[w] = "retire"
    /\ IF cancelled THEN /\ Becomes(w, "idle")
                         /\ job' = [job EXCEPT ![w] = None]
                         /\ UNCHANGED fate
       ELSE \E how \in Retired : Ends(w, how)
    /\ UNCHANGED <<runVars, consumerVars, drain, tries>>

Dispose(w) ==
    /\ worker[w] = "retire"
    /\ \E how \in IF DeadLetters THEN {"deadLettered", "dlFailed"} ELSE {"dropped"} :
          Ends(w, how)
    /\ UNCHANGED <<runVars, consumerVars, drain, tries>>

-----------------------------------------------------------------------------
RunStep == RunStarts \/ SeeStop \/ RetireWorkers \/ RunReturns
DrainStep == DrainOne \/ DrainEnds
ConsumerStep == ConsumerReturns \/ SubmitRefused \/ Report \/ ReportDropped
WorkerStep(w) == Accept(w) \/ AcceptStray(w) \/ Retire(w) \/ Attempt(w)
                 \/ Decide(w) \/ Sleep(w) \/ Dispose(w)

PoolNext ==
    \/ RunStep \/ DrainStep \/ ConsumerStep \/ SubscriptionEnds \/ StrayRefused
    \/ ClosePool \/ CloseDone \/ CloseExpires
    \/ \E m \in Message : Deliver(m) \/ StrayDelivery(m)
    \/ \E w \in Worker : WorkerStep(w) \/ Handled(w)

PoolSpec == PoolInit /\ [][PoolNext]_poolVars

(* Every goroutine of the pool that can move is scheduled, and a consumer  *)
(* whose context has ended returns when it next comes round its loop (its  *)
(* select may take another message first, but the broker's run out). A     *)
(* handler is not assumed to return.                                       *)
GoroutineFairness ==
    /\ WF_poolVars(RunStep) /\ WF_poolVars(DrainStep)
    /\ WF_poolVars(ConsumerStep) /\ WF_poolVars(StrayRefused)
    /\ WF_poolVars(CloseDone)
    /\ \A w \in Worker : WF_poolVars(WorkerStep(w))

(* The condition under which shutdown is promised; nothing enforces it.    *)
HandlersReturn == \A w \in Worker : WF_poolVars(Handled(w))

FairPoolSpec == PoolSpec /\ GoroutineFairness

-----------------------------------------------------------------------------
(* When Run returns, and so when Close returns nil, every message the pool *)
(* took from the transport has reached a terminal state: the transport     *)
(* already counts it as handled, so nobody else will (pool.go, Run: "The   *)
(* order here is the drain").                                              *)
Pending == {m \in Message : fate[m] \in {"held", "hopeless"}}
DrainedOnReturn == run = "returned" => Pending = {}

(* A message submit accepted, and that has no outcome yet, is in the hands *)
(* of exactly one worker: none is lost and none handled twice, through     *)
(* retries, cancellation and shutdown (pool.go, submit: "the Pool, not the *)
(* transport, owns the message from here on").                             *)
OwnedByOne ==
    \A m \in Message :
        /\ m \in Pending <=> \E w \in Worker : job[w] = m
        /\ \A v, w \in Worker : job[v] = m /\ job[w] = m => v = w

(* Shutdown completes once handlers return: no goroutine of Run waits for  *)
(* another that waits for it, whatever is queued, refused, or reported.    *)
ShutdownCompletes == HandlersReturn => ((stop /\ run # "new") ~> run = "returned")

(* Every message accepted ends, even when Close gave up waiting for it.    *)
AcceptedEnds == HandlersReturn => \A m \in Message : m \in Pending ~> fate[m] \in Final

=============================================================================
