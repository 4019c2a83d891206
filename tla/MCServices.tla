---------------------------- MODULE MCServices ----------------------------
(* What must eventually happen, where goroutines wait for a peer that may  *)
(* be gone. The four share no state: a behaviour is one of idempotent      *)
(* calls in an outage, of a pool, of a listener, or of event streams.      *)
(* Two calls of Do with one fingerprint. One worker, so that messages      *)
(* queue behind it, and no dead-letter destination. Two rows, so that one  *)
(* can come while the other is being read. Two connections of one member.  *)
(* No symmetry, which liveness forbids.                                    *)
EXTENDS Idempotency, JobsPool, PgListener, Streams

CONSTANTS c1, c2, f1, m1

MCFp == [c \in Client |-> f1]
MCMemberOf == [s \in Stream |-> m1]

VARIABLE part

Init ==
    /\ part \in {"do", "pool", "listener", "streams"}
    /\ IdemInit /\ (part = "do" \/ rec = NoRecord)
    /\ PoolInit /\ ListenerInit /\ StreamInit
Next ==
    /\ UNCHANGED part
    /\ \/ part = "do" /\ IdemNext /\ UNCHANGED <<poolVars, listenerVars, streamVars>>
       \/ part = "pool" /\ PoolNext /\ UNCHANGED <<idemVars, listenerVars, streamVars>>
       \/ part = "listener" /\ ListenerNext /\ UNCHANGED <<idemVars, poolVars, streamVars>>
       \/ part = "streams" /\ StreamNext /\ UNCHANGED <<idemVars, poolVars, listenerVars>>

(* Goroutines are scheduled, time passes, and handlers are assumed to      *)
(* return only where a property says so. A server that can be reached and  *)
(* asked to LISTEN again and again is one day reached and asked; the       *)
(* poller takes its wakes. A pump's deadline lapses on a dead connection.  *)
Do(A) == part = "do" /\ A
Pool(A) == part = "pool" /\ A
Listener(A) == part = "listener" /\ A
Streaming(A) == part = "streams" /\ A

Spec ==
    /\ Init /\ [][Next]_<<part, idemVars, poolVars, listenerVars, streamVars>>
    /\ \A c \in Client : WF_idemVars(Do(Work(c)))
    /\ WF_idemVars(Do(ClockTick))
    /\ WF_poolVars(Pool(RunStep)) /\ WF_poolVars(Pool(DrainStep))
    /\ WF_poolVars(Pool(ConsumerStep)) /\ WF_poolVars(Pool(StrayRefused))
    /\ WF_poolVars(Pool(CloseDone))
    /\ \A w \in Worker : WF_poolVars(Pool(WorkerStep(w)))
    /\ WF_listenerVars(Listener(RunAdvances))
    /\ SF_listenerVars(Listener(Dial)) /\ SF_listenerVars(Listener(Listen))
    /\ WF_listenerVars(Listener(PollerWakes)) /\ WF_listenerVars(Listener(PollerReads))
    /\ \A s \in Stream : /\ WF_streamVars(Streaming(PumpCloses(s)))
                         /\ WF_streamVars(Streaming(Remove(s)))
=============================================================================
