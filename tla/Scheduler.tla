----------------------------- MODULE Scheduler -----------------------------
(***************************************************************************)
(* jobs.Scheduler: replicas that each run the same jobs on their own       *)
(* cadence, under a lease per job, so that one replica runs a job at a     *)
(* time. The lease is the memory Locker's.                                 *)
(*                                                                         *)
(* A Client is the goroutine one replica has for one job. Cadence is       *)
(* abstracted: a ticker may fire at any time, and once it has, it stays    *)
(* due until it is read, however often it fires (clock.Ticker coalesces).  *)
(***************************************************************************)
EXTENDS Locker, FiniteSets

CONSTANTS Replica,
          ReplicaOf,   \* ReplicaOf[c]: the replica c is a goroutine of
          JobOf,       \* JobOf[c]: the job c runs, which is also its lock key
          Calendar,    \* the goroutines of jobs with a Schedule, not an Interval
          OnStart,     \* those of jobs with RunOnStart
          LeaseTTL,
          LockFaults   \* which calls of the locker may fail outright

ASSUME SchedulerAssumption ==
    /\ ReplicaOf \in [Client -> Replica]
    /\ JobOf \in [Client -> Key]
    /\ Calendar \subseteq Client /\ OnStart \subseteq Client
    /\ LeaseTTL \in TTL
    /\ LockFaults \subseteq {"acquire", "release"}

VARIABLES registered, \* the jobs registered with each replica
          state,      \* Run of each replica
          stop,       \* whether its stop channel is closed
          closer,     \* a caller of Close
          phase,      \* where each goroutine is
          due,        \* whether its ticker has fired unread
          spoiled,    \* a run overlapping c's own has finished as if alone
          missed,     \* and so has c's
          outlasted,  \* a run of c was in progress when stop was closed
          again       \* and c has begun another since

schedVars == <<held, handle, sure, registered, state, stop, closer, phase, due,
               spoiled, missed, outlasted, again>>
replicaVars == <<registered, state, stop, closer>>
ghosts      == <<spoiled, missed, outlasted, again>>

Idle == {"off", "ended"}
Busy == {"onstart", "running"}   \* in job.Run: for RunOnStart, or on a tick

SchedTypeOK ==
    /\ LockTypeOK
    /\ registered \in [Replica -> SUBSET Key]
    /\ state \in [Replica -> {"new", "running", "returned", "dead"}]
    /\ stop \in [Replica -> BOOLEAN]
    /\ closer \in [Replica -> {"none", "waiting", "nil"}]
    /\ phase \in [Client -> Idle \cup Busy \cup {"starting", "waiting", "recheck"}]
    /\ due \in [Client -> BOOLEAN]
    /\ spoiled \subseteq Client /\ missed \subseteq Client
    /\ outlasted \subseteq Client /\ again \subseteq Client

SchedInit ==
    /\ LockInit
    /\ registered = [r \in Replica |-> {}]
    /\ state = [r \in Replica |-> "new"]
    /\ stop = [r \in Replica |-> FALSE]
    /\ closer = [r \in Replica |-> "none"]
    /\ phase = [c \in Client |-> "off"]
    /\ due = [c \in Client |-> FALSE]
    /\ spoiled = {} /\ missed = {} /\ outlasted = {} /\ again = {}

Stopped(c) == stop[ReplicaOf[c]]
Goto(c, where) == phase' = [phase EXCEPT ![c] = where]
JobsOf(r) == {JobOf[c] : c \in {d \in Client : ReplicaOf[d] = r}}

-----------------------------------------------------------------------------
(* Register takes the whole batch or, with one job invalid or already      *)
(* registered, none of it; it takes nothing once Run has begun.            *)
(* Variant: the running flag is not looked at.                             *)
RegisterAnyTime(r, batch) ==
    /\ state[r] # "dead"
    /\ batch \cap registered[r] = {}
    /\ registered' = [registered EXCEPT ![r] = @ \cup batch]
    /\ UNCHANGED <<lockVars, state, stop, closer, phase, due, ghosts>>

Register(r, batch) ==
    /\ state[r] = "new"
    /\ batch \cap registered[r] = {}
    /\ registered' = [registered EXCEPT ![r] = @ \cup batch]
    /\ UNCHANGED <<lockVars, state, stop, closer, phase, due, ghosts>>

Run(r) ==
    /\ state[r] = "new"
    /\ state' = [state EXCEPT ![r] = "running"]
    /\ phase' = [c \in Client |->
                    IF ReplicaOf[c] = r /\ JobOf[c] \in registered[r]
                    THEN "starting" ELSE phase[c]]
    /\ UNCHANGED <<lockVars, registered, stop, closer, due, ghosts>>

(* Run's WaitGroup is down to zero after stop.                             *)
(* Variant: Run returns on stop without waiting for its jobs.              *)
ReturnAtOnce(r) ==
    /\ state[r] = "running" /\ stop[r]
    /\ state' = [state EXCEPT ![r] = "returned"]
    /\ UNCHANGED <<lockVars, registered, stop, closer, phase, due, ghosts>>

Return(r) ==
    /\ state[r] = "running" /\ stop[r]
    /\ \A c \in Client : ReplicaOf[c] = r => phase[c] \in Idle
    /\ state' = [state EXCEPT ![r] = "returned"]
    /\ UNCHANGED <<lockVars, registered, stop, closer, phase, due, ghosts>>

(* Close may be called again, after its context has expired; stop is       *)
(* closed once.                                                            *)
CloseScheduler(r) ==
    /\ closer[r] = "none" /\ state[r] # "dead"
    /\ closer' = [closer EXCEPT ![r] = "waiting"]
    /\ stop' = [stop EXCEPT ![r] = TRUE]
    /\ outlasted' = outlasted \cup {c \in Client : /\ ReplicaOf[c] = r /\ ~stop[r]
                                                 /\ phase[c] \in Busy}
    /\ UNCHANGED <<lockVars, registered, state, phase, due, spoiled, missed, again>>

CloseReturns(r) ==
    /\ closer[r] = "waiting" /\ state[r] # "dead"
    /\ \/ state[r] = "returned" /\ closer' = [closer EXCEPT ![r] = "nil"]
       \/ closer' = [closer EXCEPT ![r] = "none"]
    /\ UNCHANGED <<lockVars, registered, state, stop, phase, due, ghosts>>

(* The process dies: its leases are left to lapse.                         *)
Die(r) ==
    /\ state[r] = "running"
    /\ state' = [state EXCEPT ![r] = "dead"]
    /\ closer' = [closer EXCEPT ![r] = "none"]
    /\ phase' = [c \in Client |-> IF ReplicaOf[c] = r THEN "ended" ELSE phase[c]]
    /\ due' = [c \in Client |-> ReplicaOf[c] # r /\ due[c]]
    /\ UNCHANGED <<lockVars, registered, stop, ghosts>>

-----------------------------------------------------------------------------
(* tick: take the lease and run, or skip. Another replica's lease, and a   *)
(* locker that fails, only cost the tick.                                  *)
Begin(c, run) ==
    /\ Acquire(c, JobOf[c], LeaseTTL)
    /\ Goto(c, run)
    /\ spoiled' = spoiled \ {c}
    /\ again' = IF c \in outlasted THEN again \cup {c} ELSE again
    /\ UNCHANGED <<missed, outlasted>>

Skip(c, next) ==
    /\ \/ AcquireContended(JobOf[c])
       \/ "acquire" \in LockFaults /\ UNCHANGED lockVars
    /\ Goto(c, next)
    /\ UNCHANGED ghosts

\* Where the goroutine goes on after a tick: runPeriodic looks at stop again,
\* but not after the RunOnStart execution; runScheduled computes its next wait.
AfterTick(c, run) == IF run = "onstart" \/ c \in Calendar THEN "waiting" ELSE "recheck"

(* The RunOnStart execution, or straight to the loop. The look at stop and *)
(* the Acquire after it are one step: Acquire does not look at stop, so a  *)
(* stop that falls between them is one that follows both.                  *)
StartTick(c) ==
    /\ phase[c] = "starting"
    /\ \/ c \notin OnStart /\ Goto(c, "waiting") /\ UNCHANGED <<lockVars, ghosts>>
       \/ c \in OnStart /\ Stopped(c) /\ Goto(c, "ended") /\ UNCHANGED <<lockVars, ghosts>>
       \/ c \in OnStart /\ ~Stopped(c) /\ (Begin(c, "onstart") \/ Skip(c, "waiting"))
    /\ UNCHANGED <<replicaVars, due>>

(* An interval job's ticker runs from the start; a calendar job's is made  *)
(* for each wait.                                                          *)
Fire(c) ==
    /\ phase[c] \in (IF c \in Calendar THEN {"waiting"}
                     ELSE {"starting", "onstart", "waiting", "running", "recheck"})
    /\ ~due[c]
    /\ due' = [due EXCEPT ![c] = TRUE]
    /\ UNCHANGED <<lockVars, replicaVars, phase, ghosts>>

(* The select of runPeriodic and of waitUntil: with stop closed and the    *)
(* ticker due, either branch may be taken.                                 *)
Leave(c) ==
    /\ phase[c] = "waiting" /\ Stopped(c)
    /\ Goto(c, "ended")
    /\ UNCHANGED <<lockVars, replicaVars, due, ghosts>>

JobTick(c) ==
    /\ phase[c] = "waiting" /\ due[c]
    /\ due' = [due EXCEPT ![c] = FALSE]
    /\ Begin(c, "running") \/ Skip(c, AfterTick(c, "running"))
    /\ UNCHANGED replicaVars

(* runPeriodic looks at stop again before its next select.                 *)
(* Variant: it does not.                                                   *)
RecheckNothing(c) ==
    /\ phase[c] = "recheck"
    /\ Goto(c, "waiting")
    /\ UNCHANGED <<lockVars, replicaVars, due, ghosts>>

Recheck(c) ==
    /\ phase[c] = "recheck"
    /\ Goto(c, IF Stopped(c) THEN "ended" ELSE "waiting")
    /\ UNCHANGED <<lockVars, replicaVars, due, ghosts>>

(* runScheduled: a Schedule that has no next fire time retires its job.    *)
Exhaust(c) ==
    /\ phase[c] = "waiting" /\ c \in Calendar
    /\ Goto(c, "ended")
    /\ UNCHANGED <<lockVars, replicaVars, due, ghosts>>

-----------------------------------------------------------------------------
(* job.Run is over, or has panicked, and the lease is released.            *)
Rivals(c) == {d \in Client \ {c} : phase[d] \in Busy /\ JobOf[d] = JobOf[c]}

Finish(c) ==
    /\ phase[c] \in Busy
    /\ Release(c)
    /\ Goto(c, AfterTick(c, phase[c]))
    /\ spoiled' = spoiled \cup Rivals(c)
    /\ missed' = missed \cup (spoiled \cap {c})
    /\ UNCHANGED <<replicaVars, due, outlasted, again>>

(* leases_expired is counted, or lock_errors: not a clean finish.          *)
FinishBadly(c) ==
    /\ phase[c] \in Busy
    /\ NotHeld(c) \/ ("release" \in LockFaults /\ UNCHANGED lockVars)
    /\ Goto(c, AfterTick(c, phase[c]))
    /\ UNCHANGED <<replicaVars, due, ghosts>>

ClockTick == Tick /\ UNCHANGED <<replicaVars, phase, due, ghosts>>

-----------------------------------------------------------------------------
Cadence(c) == StartTick(c) \/ JobTick(c) \/ Leave(c) \/ Recheck(c)
JobReturns(c) == Finish(c) \/ FinishBadly(c)

SchedNext ==
    \/ \E r \in Replica : \/ \E batch \in SUBSET JobsOf(r) : Register(r, batch)
                          \/ Run(r) \/ Return(r) \/ Die(r)
                          \/ CloseScheduler(r) \/ CloseReturns(r)
    \/ \E c \in Client : Cadence(c) \/ Fire(c) \/ JobReturns(c) \/ Exhaust(c)
    \/ ClockTick

SchedSpec == SchedInit /\ [][SchedNext]_schedVars

(* Goroutines are scheduled, tickers fire, jobs return and time passes. A  *)
(* calendar job has only waitUntil's select to leave by, which chooses at  *)
(* random when its timer is due too, and so does not always choose that.   *)
FairSchedSpec ==
    /\ SchedSpec
    /\ \A c \in Calendar : SF_schedVars(Leave(c))
    /\ WF_schedVars(ClockTick)
    /\ \A r \in Replica : WF_schedVars(Return(r))
    /\ \A c \in Client : /\ WF_schedVars(Cadence(c)) /\ WF_schedVars(Fire(c))
                         /\ WF_schedVars(JobReturns(c))

-----------------------------------------------------------------------------
(* If two replicas ran a job at the same time, at least one of them counts *)
(* it in leases_expired or lock_errors: whichever finishes last cannot     *)
(* finish cleanly once the other has (scheduler.go, tick: "it may have run *)
(* twice").                                                                *)
OverlapIsCounted ==
    /\ missed = {}
    /\ \A c \in spoiled : phase[c] \in Busy => ~Holds(c)

(* Close returning nil means that nothing of this replica runs, or will:   *)
(* no goroutine of it is left (scheduler.go, Close).                       *)
NothingRunsAfterClose ==
    \A c \in Client :
        closer[ReplicaOf[c]] = "nil" => phase[c] \in Idle

(* A job that Register accepted has a goroutine once the scheduler runs:   *)
(* none is registered too late to be started (scheduler.go, Register).     *)
NoJobForgotten ==
    \A c \in Client :
        /\ JobOf[c] \in registered[ReplicaOf[c]]
        /\ state[ReplicaOf[c]] = "running"
        => phase[c] # "off"

(* scheduler.go:393-394: "Rechecked after the run, so a job whose execution*)
(* outlasted the stop signal does not start another one."                  *)
NoOutlastedRunIsRepeated == again \subseteq Calendar

(* As long as some replica keeps the job going, the job keeps running      *)
(* somewhere: a replica that dies inside a run, or whose release fails,    *)
(* blocks the others only until its lease lapses.                          *)
RunsSomewhere(k) == \E c \in Client : JobOf[c] = k /\ phase[c] \in Busy
JobKeepsRunning ==
    \A c \in Client :
        phase[c] = "waiting" ~> RunsSomewhere(JobOf[c]) \/ phase[c] = "ended"

(* A scheduler told to stop returns from Run, once its jobs return.        *)
SchedulerStops ==
    \A r \in Replica :
        (stop[r] /\ state[r] = "running") ~> state[r] \in {"returned", "dead"}
=============================================================================
