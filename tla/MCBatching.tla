----------------------------- MODULE MCBatching -----------------------------
(* The two halves of the batching package, which share no state: a         *)
(* behaviour is one of a GroupCommit or one of a Buffer.  Submits of two   *)
(* keys, two of them of one key; a Take of one key and a Take of both; two *)
(* callers of Close.                                                       *)
EXTENDS GroupCommit, Buffer

CONSTANTS c1, c2, c3, k1, k2, t1, t2

MCKeyOf == [c \in Caller |-> IF c = c3 THEN k2 ELSE k1]
MCWanted == [t \in Taker |-> IF t = t1 THEN {k1} ELSE {k1, k2}]

VARIABLE half

Init == half \in {"groupcommit", "buffer"} /\ GroupInit /\ BufferInit
Next ==
    \/ half = "groupcommit" /\ GroupNext /\ UNCHANGED <<half, bufVars>>
    \/ half = "buffer" /\ BufferNext /\ UNCHANGED <<half, gcVars>>

(* Goroutines are scheduled, the buffer's ticker fires, and a write        *)
(* returns: run's within its flush timeout, Close's within Close's ctx.    *)
Group(A) == half = "groupcommit" /\ A
Buf(A) == half = "buffer" /\ A

Spec ==
    /\ Init /\ [][Next]_<<half, gcVars, bufVars>>
    /\ WF_gcVars(Group(Woken \/ RunStops \/ TakeBatch))
    /\ \A w \in Writer : WF_gcVars(Group(Write(w)))
    /\ \A z \in Closer : WF_gcVars(Group(TakeLast(z)))
    /\ \A c \in Caller : WF_gcVars(Group(Answer(c)))
    /\ WF_bufVars(Buf(Fire \/ BufferStops))
    /\ \A w \in BufWriter : WF_bufVars(Buf(WriterStep(w)))
    /\ \A z \in BufCloser : WF_bufVars(Buf(CloseFlush(z)))
    /\ \A t \in Taker : WF_bufVars(Buf(Take(t) \/ TakeParks(t)))
=============================================================================
