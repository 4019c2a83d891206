----------------------------- MODULE MCClosing -----------------------------
(* What Close leaves behind, in three kinds of behaviour: a scheduler of   *)
(* an interval job, a calendar job and one that also runs on start; a      *)
(* stream of completion chunks; a recorder and its files. Two tool calls,  *)
(* with arguments of up to two characters. Four events, the first          *)
(* impossible to encode, the second and the last larger than a file may    *)
(* grow: enough for two rotations and a prune. One crash, which may cut a  *)
(* line in two and leave room for the next behind it, and two callers of   *)
(* Close.                                                                  *)
EXTENDS Scheduler, LLMStream, EventCapture, TLC

CONSTANTS c1, c2, c3, r1, k1, k2, k3

MCReplicaOf == [c \in Client |-> r1]
MCJobOf == c1 :> k1 @@ c2 :> k2 @@ c3 :> k3

\* The callers of the recorder's Close are alike.
CloserSymmetry == Permutations(Closer)

VARIABLE part

Init ==
    /\ part \in {"scheduler", "stream", "capture"}
    /\ SchedInit
    /\ LLMInit /\ (part = "stream" \/ pieceStyle = "fragments")
    /\ CaptureInit /\ (part = "capture" \/ disk = "sound")
Next ==
    /\ UNCHANGED part
    /\ \/ part = "scheduler" /\ SchedNext /\ UNCHANGED <<llmVars, captureVars>>
       \/ part = "stream" /\ LLMNext /\ UNCHANGED <<schedVars, captureVars>>
       \/ part = "capture" /\ CaptureNext /\ UNCHANGED <<schedVars, llmVars>>

Spec == Init /\ [][Next]_<<part, schedVars, llmVars, captureVars>>
=============================================================================
