------------------------------ MODULE PoolGroup ------------------------------
(***************************************************************************)
(* jobs.PoolGroup: one Pool per topic, started all or none and closed      *)
(* together.  The group's mutex is held for the whole of Start and of      *)
(* Close, so one call is inside at a time; its pools, which the calls of   *)
(* Close wait for concurrently, run beside it.                             *)
(*                                                                         *)
(* A pool is here what the group sees of JobsPool: it runs from Start's go *)
(* statement until it has been told to stop and has drained, and its Close *)
(* returns nil once it has, or an error when the context ends first.       *)
(***************************************************************************)
EXTENDS Naturals

CONSTANTS TopicCount    \* len(g.specs), in spec order

ASSUME GroupAssumption == TopicCount \in Nat \ {0}

VARIABLES pools,     \* the pools of g.pools, by position
          latch,     \* g.started
          inside,    \* what the holder of g.mu is doing
          closed,    \* pools whose Close has returned to the current close
          late,      \* those of them whose Close ended with the context
          state,     \* of each pool
          forgotten  \* ghost: pools a close gave up on

groupVars == <<pools, latch, inside, closed, late, state, forgotten>>

Position == 1..TopicCount

GroupOK ==
    /\ pools \subseteq Position /\ latch \in BOOLEAN
    /\ inside \in {"nobody", "start", "close"}
    /\ closed \subseteq pools /\ late \subseteq closed
    /\ state \in [Position -> {"unbuilt", "running", "stopping", "returned"}]
    /\ forgotten \subseteq Position

GroupInit ==
    /\ pools = {} /\ latch = FALSE /\ inside = "nobody"
    /\ closed = {} /\ late = {} /\ forgotten = {}
    /\ state = [p \in Position |-> "unbuilt"]

-----------------------------------------------------------------------------
(* Start, under g.mu.                                                      *)

\* ErrPoolGroupStarted is the other outcome, and changes nothing.
StartGroup ==
    /\ inside = "nobody" /\ ~latch
    /\ latch' = TRUE /\ inside' = "start"
    /\ UNCHANGED <<pools, closed, late, state, forgotten>>

\* NewPool, the append and go pool.Run() of the next spec.
BuildPool(p) ==
    /\ inside = "start" /\ p \notin pools /\ 1..(p - 1) \subseteq pools
    /\ pools' = pools \cup {p}
    /\ state' = [state EXCEPT ![p] = "running"]
    /\ UNCHANGED <<latch, inside, closed, late, forgotten>>

\* close: every pool of the group is told to stop at once.
BeginClose ==
    /\ inside' = "close" /\ closed' = {} /\ late' = {}
    /\ state' = [p \in Position |->
          IF p \in pools /\ state[p] = "running" THEN "stopping" ELSE state[p]]

\* Variant of BuildFails: the caller gets the error and the pools stay.
BuildFailsBare ==
    /\ inside = "start" /\ pools # Position
    /\ inside' = "nobody"
    /\ UNCHANGED <<pools, latch, closed, late, state, forgotten>>

\* NewPool fails: drainPartialStart, then the error.
BuildFails ==
    /\ inside = "start" /\ pools # Position
    /\ BeginClose
    /\ UNCHANGED <<pools, latch, forgotten>>

StartReturns ==
    /\ inside = "start" /\ pools = Position
    /\ inside' = "nobody"
    /\ UNCHANGED <<pools, latch, closed, late, state, forgotten>>

-----------------------------------------------------------------------------
(* Close, under g.mu, and the pools.                                       *)

CloseGroup ==
    /\ inside = "nobody"
    /\ latch' = TRUE /\ BeginClose
    /\ UNCHANGED <<pools, forgotten>>

\* Pool.Close returns: done is closed, or the context has ended.
PoolCloses(p, expires) ==
    /\ inside = "close" /\ p \in pools \ closed
    /\ expires \/ state[p] = "returned"
    /\ closed' = closed \cup {p}
    /\ late' = IF expires THEN late \cup {p} ELSE late
    /\ UNCHANGED <<pools, latch, inside, state, forgotten>>

\* wg.Wait is over: the pools are let go, those that did not stop too.
CloseReturns ==
    /\ inside = "close" /\ closed = pools
    /\ inside' = "nobody" /\ pools' = {} /\ closed' = {} /\ late' = {}
    /\ forgotten' = forgotten \cup late
    /\ UNCHANGED <<latch, state>>

\* Pool.Run returns, once told to stop and drained.
PoolDrains(p) ==
    /\ state[p] = "stopping"
    /\ state' = [state EXCEPT ![p] = "returned"]
    /\ UNCHANGED <<pools, latch, inside, closed, late, forgotten>>

GroupNext ==
    \/ StartGroup \/ BuildFails \/ StartReturns \/ CloseGroup \/ CloseReturns
    \/ \E p \in Position : BuildPool(p) \/ PoolDrains(p)
    \/ \E p \in Position, expires \in BOOLEAN : PoolCloses(p, expires)

GroupSpec == GroupInit /\ [][GroupNext]_groupVars

-----------------------------------------------------------------------------
(* Start is all or nothing, and so is Close: while no call is inside, the  *)
(* group has all its pools, every one of them consuming, or none.  A pool  *)
(* that is still up and that no Close can reach any more is one whose own  *)
(* Close outlasted its context, and it has been told to stop.              *)
AllOrNone ==
    inside = "nobody" =>
      /\ pools \in {{}, Position}
      /\ \A p \in pools : state[p] = "running"
      /\ \A p \in Position \ pools :
           state[p] \in {"unbuilt", "returned"} \/ (state[p] = "stopping" /\ p \in forgotten)
=============================================================================
