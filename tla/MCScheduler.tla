---------------------------- MODULE MCScheduler ----------------------------
(* Two replicas that share one job; in the middle of a deployment one may  *)
(* have it on a calendar and the other on an interval.                     *)
EXTENDS Scheduler

CONSTANTS c1, c2, r1, r2, k1

MCReplicaOf == [c \in Client |-> IF c = c2 THEN r2 ELSE r1]
MCJobOf     == [c \in Client |-> k1]
=============================================================================
