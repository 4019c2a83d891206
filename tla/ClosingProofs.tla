--------------------------- MODULE ClosingProofs ----------------------------
(***************************************************************************)
(* The jobs Scheduler and the event Recorder: what has been promised when  *)
(* a Close returns, and before. For every set of replicas, jobs and        *)
(* goroutines, every number of events, file sizes, crashes and callers of  *)
(* Close.                                                                  *)
(***************************************************************************)
EXTENDS Scheduler, EventCapture, SequenceTheorems, FiniteSetTheorems, LockerProofs

-----------------------------------------------------------------------------
(* The Scheduler. A scheduled job that ran twice at once is counted, a     *)
(* closed scheduler is quiet, and no registered job is forgotten.          *)

Phases == Idle \cup Busy \cup {"starting", "waiting", "recheck"}

(* The lease's own invariant, and that a goroutine inside job.Run holds a  *)
(* handle on its own job's key: without the second, a rival's clean release*)
(* would say nothing of the lease this goroutine is about to release.      *)
LeaseInv ==
    /\ LockInv
    /\ phase \in [Client -> Phases]
    /\ \A c \in Client : phase[c] \in Busy => handle[c] = JobOf[c]
    /\ spoiled \subseteq Client
    /\ OverlapIsCounted

(* Where a goroutine can be, given what its replica's Run has reached.     *)
LifeInv ==
    /\ phase \in [Client -> Phases]
    /\ state \in [Replica -> {"new", "running", "returned", "dead"}]
    /\ closer \in [Replica -> {"none", "waiting", "nil"}]
    /\ \A c \in Client : state[ReplicaOf[c]] # "running" => phase[c] \in Idle
    /\ \A r \in Replica : closer[r] = "nil" => state[r] = "returned"

-----------------------------------------------------------------------------
(* The steps that leave the locker, the ghosts and every goroutine's being *)
(* inside job.Run as they were, or end a run without a clean release.      *)
Quiet ==
    /\ UNCHANGED <<lockVars, spoiled, missed>>
    /\ phase' \in [Client -> Phases]
    /\ \A c \in Client : phase'[c] \in Busy => phase[c] \in Busy

(* A quiet step keeps the lease's invariant.                               *)
LEMMA QuietKeeps == LeaseInv /\ Quiet => LeaseInv'
  <1> SUFFICES ASSUME LeaseInv, Quiet PROVE LeaseInv'
    OBVIOUS
  <1>1. LockInv'
    BY LockInvStep DEF LeaseInv, Quiet
  <1>2. \A c \in Client : Holds(c)' = Holds(c)
    BY DEF Quiet, Holds, lockVars
  <1>3. OverlapIsCounted'
    BY <1>2 DEF LeaseInv, Quiet, OverlapIsCounted
  <1> QED
    BY <1>1, <1>3 DEF LeaseInv, Quiet, lockVars

(* Register, Run, Close and a replica's death are quiet.                   *)
LEMMA ReplicaStepsAreQuiet ==
  ASSUME LeaseInv, NEW r \in Replica,
         \/ \E batch \in SUBSET JobsOf(r) : Register(r, batch)
         \/ Run(r) \/ Return(r) \/ Die(r) \/ CloseScheduler(r) \/ CloseReturns(r)
  PROVE  Quiet
  <1> USE DEF LeaseInv, Quiet, Phases, Idle, Busy, ghosts
  <1>1. CASE \E batch \in SUBSET JobsOf(r) : Register(r, batch)
    BY <1>1 DEF Register
  <1>2. CASE Run(r)
    BY <1>2 DEF Run
  <1>3. CASE Return(r)
    BY <1>3 DEF Return
  <1>4. CASE Die(r)
    BY <1>4 DEF Die
  <1>5. CASE CloseScheduler(r)
    BY <1>5 DEF CloseScheduler
  <1>6. CASE CloseReturns(r)
    BY <1>6 DEF CloseReturns
  <1> QED
    BY <1>1, <1>2, <1>3, <1>4, <1>5, <1>6

(* So are a goroutine between its runs, and a run that ends uncleanly.     *)
LEMMA IdleStepsAreQuiet ==
  ASSUME LeaseInv, NEW c \in Client,
         Leave(c) \/ Recheck(c) \/ Fire(c) \/ Exhaust(c) \/ FinishBadly(c)
  PROVE  Quiet
  <1> USE DEF LeaseInv, Quiet, Phases, Idle, Busy, ghosts, Goto, AfterTick
  <1>1. CASE Leave(c)
    BY <1>1 DEF Leave
  <1>2. CASE Recheck(c)
    BY <1>2 DEF Recheck
  <1>3. CASE Fire(c)
    BY <1>3 DEF Fire
  <1>4. CASE Exhaust(c)
    BY <1>4 DEF Exhaust
  <1>5. CASE FinishBadly(c)
    BY <1>5 DEF FinishBadly, NotHeld
  <1> QED
    BY <1>1, <1>2, <1>3, <1>4, <1>5

(* A grant takes the key from whoever had it, so it can only end Holds for *)
(* the goroutines that were already spoiled.                               *)
LEMMA BeginKeeps ==
  ASSUME LeaseInv, NEW c \in Client, NEW run \in Busy,
         phase[c] \notin Busy, Begin(c, run)
  PROVE  LeaseInv'
  <1> USE SchedulerAssumption, LockerAssumption
  <1>1. JobOf[c] \in Key /\ LeaseTTL \in TTL /\ Acquire(c, JobOf[c], LeaseTTL)
    BY DEF Begin
  <1>2. LockInv'
    BY <1>1, LockInvStep DEF LeaseInv, LockNext
  <1>3. phase' \in [Client -> Phases] /\ \A d \in Client : d # c => phase'[d] = phase[d]
    BY DEF Begin, Goto, LeaseInv, Phases, Busy
  <1>4. \A d \in Client : handle'[d] = IF d = c THEN JobOf[c] ELSE handle[d]
    BY <1>1 DEF Acquire, LeaseInv, LockInv, LockTypeOK
  <1>5. ASSUME NEW d \in Client, d # c, ~Holds(d) PROVE ~Holds(d)'
    BY <1>1, <1>4, <1>5
       DEF Acquire, Holds, Sweep, Absent, Lapsed, LeaseInv, LockInv, LockTypeOK
  <1>6. OverlapIsCounted'
    BY <1>3, <1>5 DEF Begin, OverlapIsCounted, LeaseInv
  <1>7. \A d \in Client : phase'[d] \in Busy => handle'[d] = JobOf[d]
    BY <1>3, <1>4 DEF LeaseInv
  <1> QED
    BY <1>2, <1>3, <1>6, <1>7 DEF LeaseInv, Begin

(* A tick that is refused the lease runs nothing.                          *)
LEMMA SkipKeeps ==
  ASSUME LeaseInv, NEW c \in Client, NEW next \in Phases \ Busy, Skip(c, next)
  PROVE  LeaseInv'
  <1> USE SchedulerAssumption, LockerAssumption
  <1>1. phase' \in [Client -> Phases] /\ \A d \in Client : phase'[d] \in Busy => phase[d] \in Busy
    BY DEF Skip, Goto, LeaseInv
  <1>2. CASE "acquire" \in LockFaults /\ UNCHANGED lockVars
    BY <1>1, <1>2, QuietKeeps DEF Quiet, Skip, ghosts
  <1>3. CASE AcquireContended(JobOf[c])
    <2>1. LockInv'
      BY <1>3, LockInvStep DEF LeaseInv, LockNext
    <2>2. ASSUME NEW d \in Client, ~Holds(d) PROVE ~Holds(d)'
      BY <1>3, <2>2
         DEF AcquireContended, Holds, Sweep, Absent, Lapsed, LeaseInv, LockInv, LockTypeOK
    <2>3. OverlapIsCounted'
      BY <1>1, <2>2 DEF OverlapIsCounted, LeaseInv, Skip, ghosts
    <2> QED
      BY <1>1, <1>3, <2>1, <2>3 DEF LeaseInv, Skip, ghosts, AcquireContended
  <1> QED
    BY <1>2, <1>3 DEF Skip

(* The clean release deletes the entry of the key that every rival's handle*)
(* names: none of them can release cleanly after it.                       *)
LEMMA FinishKeeps ==
  ASSUME LeaseInv, NEW c \in Client, Finish(c)
  PROVE  LeaseInv'
  <1> USE SchedulerAssumption, LockerAssumption
  <1>1. Release(c) /\ phase[c] \in Busy /\ handle[c] = JobOf[c] /\ JobOf[c] \in Key
    BY DEF Finish, LeaseInv
  <1>2. LockInv'
    BY <1>1, LockInvStep DEF LeaseInv, LockNext
  <1>3. phase' \in [Client -> Phases] /\ \A d \in Client : phase'[d] \in Busy => phase[d] \in Busy
    BY DEF Finish, Goto, AfterTick, LeaseInv, Phases, Busy, Idle
  <1>4. c \notin spoiled
    BY <1>1 DEF LeaseInv, OverlapIsCounted, Release
  <1>5. ASSUME NEW d \in Client, ~Holds(d) PROVE ~Holds(d)'
    BY <1>1, <1>5 DEF Release, Holds, Absent, Lapsed, LeaseInv, LockInv, LockTypeOK
  <1>6. ASSUME NEW d \in Rivals(c) PROVE d \in Client /\ ~Holds(d)'
    BY <1>1 DEF Rivals, Release, Holds, Absent, Lapsed, LeaseInv, LockInv, LockTypeOK
  <1>7. missed' = {}
    BY <1>4 DEF Finish, LeaseInv, OverlapIsCounted
  <1>8. OverlapIsCounted' /\ spoiled' \subseteq Client
    BY <1>3, <1>5, <1>6, <1>7 DEF Finish, OverlapIsCounted, LeaseInv
  <1> QED
    BY <1>1, <1>2, <1>3, <1>8 DEF LeaseInv, Release

(* Time passes for the leases alone.                                       *)
LEMMA ClockTickKeeps == ASSUME LeaseInv, ClockTick PROVE LeaseInv'
  <1> USE LockerAssumption
  <1>1. LockInv'
    BY LockInvStep DEF ClockTick, LeaseInv, LockNext
  <1>2. ASSUME NEW d \in Client, ~Holds(d) PROVE ~Holds(d)'
    <2>1. \A k \in Key : held'[k].owner = held[k].owner /\ (held'[k].left >= 0 => held[k].left >= 0)
      BY DEF ClockTick, Tick, Older, LeaseInv, LockInv, LockTypeOK
    <2> QED
      BY <1>2, <2>1 DEF ClockTick, Tick, Holds, LeaseInv, LockInv, LockTypeOK
  <1>3. OverlapIsCounted'
    BY <1>2 DEF ClockTick, OverlapIsCounted, LeaseInv, ghosts
  <1> QED
    BY <1>1, <1>3 DEF LeaseInv, ClockTick, Tick, ghosts

(* Every step of a replica, a goroutine or the clock keeps it.             *)
LEMMA LeaseInvStep == LeaseInv /\ [SchedNext]_schedVars => LeaseInv'
  <1> SUFFICES ASSUME LeaseInv, [SchedNext]_schedVars PROVE LeaseInv'
    OBVIOUS
  <1>1. ASSUME NEW r \in Replica,
               \/ \E batch \in SUBSET JobsOf(r) : Register(r, batch)
               \/ Run(r) \/ Return(r) \/ Die(r) \/ CloseScheduler(r) \/ CloseReturns(r)
        PROVE  LeaseInv'
    BY <1>1, ReplicaStepsAreQuiet, QuietKeeps
  <1>2. ASSUME NEW c \in Client,
               Leave(c) \/ Recheck(c) \/ Fire(c) \/ Exhaust(c) \/ FinishBadly(c)
        PROVE  LeaseInv'
    BY <1>2, IdleStepsAreQuiet, QuietKeeps
  <1>3. ASSUME NEW c \in Client, StartTick(c) PROVE LeaseInv'
    <2>1. CASE Begin(c, "onstart")
      BY <1>3, <2>1, BeginKeeps DEF StartTick, Busy
    <2>2. CASE Skip(c, "waiting")
      BY <2>2, SkipKeeps DEF Phases, Busy
    <2>3. CASE UNCHANGED <<lockVars, ghosts>> /\ (Goto(c, "waiting") \/ Goto(c, "ended"))
      BY <2>3, QuietKeeps DEF Quiet, ghosts, Goto, LeaseInv, Phases, Busy, Idle
    <2> QED
      BY <1>3, <2>1, <2>2, <2>3 DEF StartTick
  <1>4. ASSUME NEW c \in Client, JobTick(c) PROVE LeaseInv'
    <2>1. CASE Begin(c, "running")
      BY <1>4, <2>1, BeginKeeps DEF JobTick, Busy
    <2>2. CASE Skip(c, AfterTick(c, "running"))
      BY <2>2, SkipKeeps DEF Phases, Busy, AfterTick
    <2> QED
      BY <1>4, <2>1, <2>2 DEF JobTick
  <1>5. CASE UNCHANGED schedVars
    BY <1>5, QuietKeeps DEF Quiet, schedVars, lockVars, LeaseInv
  <1> QED
    BY <1>1, <1>2, <1>3, <1>4, <1>5, FinishKeeps, ClockTickKeeps
       DEF SchedNext, Cadence, JobReturns

(* Two runs of one job at once never both end uncounted, whatever the      *)
(* lease, the failures of the locker and the deaths of replicas.           *)
THEOREM DoubleRunsAreCounted == SchedSpec => []OverlapIsCounted
  <1>1. SchedInit => LeaseInv
    BY InitLockInv DEF SchedInit, LeaseInv, Phases, Idle, Busy, OverlapIsCounted
  <1>2. LeaseInv => OverlapIsCounted
    BY DEF LeaseInv
  <1> QED
    BY <1>1, <1>2, LeaseInvStep, PTL DEF SchedSpec

-----------------------------------------------------------------------------
(* A goroutine only moves in a running replica, and stays a phase.         *)
LEMMA GoroutineKeepsLife ==
  ASSUME LifeInv, NEW c \in Client, NEW where \in Phases,
         phase[c] \notin Idle, Goto(c, where), UNCHANGED replicaVars
  PROVE  LifeInv'
  BY SchedulerAssumption DEF LifeInv, Goto, replicaVars

(* Every step keeps the goroutines within their replica's Run.             *)
LEMMA LifeInvStep == LifeInv /\ [SchedNext]_schedVars => LifeInv'
  <1> SUFFICES ASSUME LifeInv, [SchedNext]_schedVars PROVE LifeInv'
    OBVIOUS
  <1> USE SchedulerAssumption
  <1>1. ASSUME NEW r \in Replica, \E batch \in SUBSET JobsOf(r) : Register(r, batch)
        PROVE  LifeInv'
    BY <1>1 DEF Register, LifeInv
  <1>2. ASSUME NEW r \in Replica, Run(r) PROVE LifeInv'
    BY <1>2 DEF Run, LifeInv, Phases
  <1>3. ASSUME NEW r \in Replica, Return(r) PROVE LifeInv'
    BY <1>3 DEF Return, LifeInv
  <1>4. ASSUME NEW r \in Replica, Die(r) PROVE LifeInv'
    BY <1>4 DEF Die, LifeInv, Phases, Idle
  <1>5. ASSUME NEW r \in Replica, CloseScheduler(r) PROVE LifeInv'
    BY <1>5 DEF CloseScheduler, LifeInv
  <1>6. ASSUME NEW r \in Replica, CloseReturns(r) PROVE LifeInv'
    BY <1>6 DEF CloseReturns, LifeInv
  <1>7. ASSUME NEW c \in Client,
               Cadence(c) \/ JobReturns(c) \/ Exhaust(c)
        PROVE  LifeInv'
    <2>1. phase[c] \notin Idle /\ UNCHANGED replicaVars
      BY <1>7 DEF Cadence, JobReturns, StartTick, JobTick, Leave, Recheck, Exhaust,
                  Finish, FinishBadly, Idle, Busy
    <2>2. \E where \in Phases : Goto(c, where)
      BY <1>7 DEF Cadence, JobReturns, StartTick, JobTick, Leave, Recheck, Exhaust, Finish,
                  FinishBadly, Begin, Skip, AfterTick, Phases, Idle, Busy
    <2> QED
      BY <2>1, <2>2, GoroutineKeepsLife
  <1>8. ASSUME NEW c \in Client, Fire(c) PROVE LifeInv'
    BY <1>8 DEF Fire, LifeInv, replicaVars
  <1>9. CASE ClockTick
    BY <1>9 DEF ClockTick, LifeInv, replicaVars
  <1>10. CASE UNCHANGED schedVars
    BY <1>10 DEF schedVars, LifeInv
  <1> QED
    BY <1>1, <1>2, <1>3, <1>4, <1>5, <1>6, <1>7, <1>8, <1>9, <1>10 DEF SchedNext

(* When Close returns nil, no goroutine of the scheduler is left.          *)
THEOREM CloseIsQuiet == SchedSpec => []NothingRunsAfterClose
  <1>1. SchedInit => LifeInv
    BY SchedulerAssumption DEF SchedInit, LifeInv, Phases, Idle
  <1>2. LifeInv => NothingRunsAfterClose
    BY SchedulerAssumption DEF LifeInv, NothingRunsAfterClose
  <1> QED
    BY <1>1, <1>2, LifeInvStep, PTL DEF SchedSpec
-----------------------------------------------------------------------------
(* NoJobForgotten is inductive with the types it speaks of: a goroutine    *)
(* that has begun never becomes one that has not.                          *)
RosterInv ==
    /\ LifeInv
    /\ registered \in [Replica -> SUBSET Key]
    /\ NoJobForgotten

(* Every step keeps the roster of goroutines complete.                     *)
LEMMA RosterInvStep == RosterInv /\ [SchedNext]_schedVars => RosterInv'
  <1> SUFFICES ASSUME RosterInv, [SchedNext]_schedVars PROVE RosterInv'
    OBVIOUS
  <1> USE SchedulerAssumption
  <1>1. LifeInv'
    BY LifeInvStep DEF RosterInv
  <1>2. ASSUME NEW r \in Replica, \E batch \in SUBSET JobsOf(r) : Register(r, batch)
        PROVE  RosterInv'
    <2>1. JobsOf(r) \subseteq Key
      BY DEF JobsOf
    <2> QED BY <1>1, <1>2, <2>1 DEF Register, RosterInv, NoJobForgotten
  <1>3. ASSUME NEW r \in Replica, Run(r) PROVE RosterInv'
    BY <1>1, <1>3 DEF Run, RosterInv, LifeInv, NoJobForgotten
  <1>4. ASSUME NEW r \in Replica, Return(r) \/ CloseScheduler(r) \/ CloseReturns(r)
        PROVE  RosterInv'
    BY <1>1, <1>4
       DEF Return, CloseScheduler, CloseReturns, RosterInv, LifeInv, NoJobForgotten
  <1>5. ASSUME NEW r \in Replica, Die(r) PROVE RosterInv'
    BY <1>1, <1>5 DEF Die, RosterInv, LifeInv, NoJobForgotten
  <1>6. ASSUME NEW c \in Client, Cadence(c) \/ JobReturns(c) \/ Exhaust(c)
        PROVE  RosterInv'
    <2>1. UNCHANGED replicaVars
      BY <1>6 DEF Cadence, JobReturns, StartTick, JobTick, Leave, Recheck, Exhaust,
                  Finish, FinishBadly
    <2>2. \E where \in Phases \ {"off"} : Goto(c, where)
      BY <1>6 DEF Cadence, JobReturns, StartTick, JobTick, Leave, Recheck, Exhaust, Finish,
                  FinishBadly, Begin, Skip, AfterTick, Phases, Idle, Busy
    <2> QED
      BY <1>1, <2>1, <2>2 DEF RosterInv, LifeInv, NoJobForgotten, Goto, replicaVars
  <1>7. CASE ClockTick \/ (\E c \in Client : Fire(c)) \/ UNCHANGED schedVars
    BY <1>1, <1>7 DEF ClockTick, Fire, schedVars, replicaVars, RosterInv, NoJobForgotten
  <1> QED
    BY <1>2, <1>3, <1>4, <1>5, <1>6, <1>7 DEF SchedNext

(* A job that Register accepted has its goroutine once Run has begun: none *)
(* is taken in behind the loop that starts them.                           *)
THEOREM EveryJobHasAGoroutine == SchedSpec => []NoJobForgotten
  <1>1. SchedInit => RosterInv
    BY SchedulerAssumption DEF SchedInit, RosterInv, LifeInv, Phases, Idle, NoJobForgotten
  <1>2. RosterInv => NoJobForgotten
    BY DEF RosterInv
  <1> QED
    BY <1>1, <1>2, RosterInvStep, PTL DEF SchedSpec

-----------------------------------------------------------------------------
(* The Recorder and its jsonl Sink. First, which elements a sequence has   *)
(* after each of the operations the model uses.                            *)

(* The set of a sequence, by position.                                     *)
LEMMA Members ==
    ASSUME NEW S, NEW s \in Seq(S)
    PROVE  \A x : x \in ToSet(s) <=> \E i \in 1..Len(s) : s[i] = x
<1>1. DOMAIN s = 1..Len(s)
      BY LenProperties
<1> QED BY <1>1 DEF ToSet

(* Append adds its element.                                                *)
LEMMA SetOfAppend ==
    ASSUME NEW S, NEW s \in Seq(S), NEW e \in S
    PROVE  Append(s, e) \in Seq(S) /\ ToSet(Append(s, e)) = ToSet(s) \cup {e}
<1> DEFINE t == Append(s, e)
<1>1. /\ t \in Seq(S) /\ Len(t) = Len(s) + 1 /\ Len(s) \in Nat
      /\ \A i \in 1..Len(s) : t[i] = s[i]
      /\ t[Len(s) + 1] = e
      BY AppendProperties, LenProperties
<1> HIDE DEF t
<1>2. /\ \A x : x \in ToSet(s) <=> \E i \in 1..Len(s) : s[i] = x
      /\ \A x : x \in ToSet(t) <=> \E i \in 1..Len(t) : t[i] = x
      BY <1>1, Members
<1>3. ASSUME NEW x \in ToSet(t) PROVE x \in ToSet(s) \cup {e}
  <2>1. PICK i \in 1..Len(t) : t[i] = x
        BY <1>2, <1>3
  <2>2. CASE i = Len(s) + 1
        BY <1>1, <2>1, <2>2
  <2>3. CASE i \in 1..Len(s)
        BY <1>1, <1>2, <2>1, <2>3
  <2> QED BY <1>1, <2>1, <2>2, <2>3
<1>4. ASSUME NEW x \in ToSet(s) \cup {e} PROVE x \in ToSet(t)
  <2>1. CASE x = e
        BY <1>1, <1>2, <2>1
  <2>2. CASE x \in ToSet(s)
    <3>1. PICK i \in 1..Len(s) : s[i] = x
          BY <1>2, <2>2
    <3>2. i \in 1..Len(t) /\ t[i] = x
          BY <1>1, <3>1
    <3> QED BY <1>2, <3>2
  <2> QED BY <1>4, <2>1, <2>2
<1> QED BY <1>1, <1>3, <1>4 DEF t

(* Tail loses the head and nothing else.                                   *)
LEMMA SetOfTail ==
    ASSUME NEW S, NEW s \in Seq(S), s # <<>>
    PROVE  /\ Tail(s) \in Seq(S) /\ Head(s) \in S
           /\ \A x \in ToSet(s) : x = Head(s) \/ x \in ToSet(Tail(s))
<1> DEFINE t == Tail(s)
<1>1. /\ t \in Seq(S) /\ Head(s) \in S /\ Len(t) = Len(s) - 1 /\ Len(s) \in Nat
      /\ \A i \in 1..Len(t) : t[i] = s[i + 1]
      BY HeadTailProperties, LenProperties
<1>2. Head(s) = s[1]
      OBVIOUS
<1> HIDE DEF t
<1>3. /\ \A x : x \in ToSet(s) <=> \E i \in 1..Len(s) : s[i] = x
      /\ \A x : x \in ToSet(t) <=> \E i \in 1..Len(t) : t[i] = x
      BY <1>1, Members
<1>4. ASSUME NEW x \in ToSet(s), x # Head(s) PROVE x \in ToSet(t)
  <2>1. PICK i \in 1..Len(s) : s[i] = x
        BY <1>3, <1>4
  <2>2. i - 1 \in 1..Len(t) /\ t[i - 1] = x
        BY <1>1, <1>2, <1>4, <2>1
  <2> QED BY <1>3, <2>2
<1> QED BY <1>1, <1>4 DEF t

(* A concatenation has the elements of both parts.                         *)
LEMMA SetOfConcat ==
    ASSUME NEW S, NEW s \in Seq(S), NEW t \in Seq(S)
    PROVE  s \o t \in Seq(S) /\ ToSet(s \o t) = ToSet(s) \cup ToSet(t)
<1>1. /\ Range(s) = ToSet(s) /\ Range(t) = ToSet(t) /\ Range(s \o t) = ToSet(s \o t)
      BY DEF Range, ToSet
<1>2. Range(s \o t) = Range(s) \cup Range(t)
      BY RangeConcatenation
<1>3. s \o t \in Seq(S)
      BY ConcatProperties
<1> QED BY <1>1, <1>2, <1>3

(* A sequence cut in two loses nothing.                                    *)
LEMMA SetOfParts ==
    ASSUME NEW S, NEW s \in Seq(S), NEW k \in 0..Len(s)
    PROVE  /\ SubSeq(s, 1, k) \in Seq(S) /\ SubSeq(s, k + 1, Len(s)) \in Seq(S)
           /\ \A x \in ToSet(s) : \/ \E i \in 1..k : s[i] = x
                                  \/ x \in ToSet(SubSeq(s, k + 1, Len(s)))
           /\ \A i \in 1..k : s[i] \in ToSet(SubSeq(s, 1, k))
<1> DEFINE a == SubSeq(s, 1, k)
           b == SubSeq(s, k + 1, Len(s))
<1>0. Len(s) \in Nat /\ \A i \in 1..Len(s) : s[i] \in S
      BY LenProperties, ElementOfSeq
<1>1. /\ a \in Seq(S) /\ Len(a) = k /\ \A i \in 1..k : a[i] = s[i]
      BY <1>0, SubSeqProperties
<1>2. /\ b \in Seq(S) /\ Len(b) = Len(s) - k /\ \A i \in 1..Len(s) - k : b[i] = s[k + i]
      BY <1>0, SubSeqProperties
<1> HIDE DEF a, b
<1>3. /\ \A x : x \in ToSet(s) <=> \E i \in 1..Len(s) : s[i] = x
      /\ \A x : x \in ToSet(a) <=> \E i \in 1..Len(a) : a[i] = x
      /\ \A x : x \in ToSet(b) <=> \E i \in 1..Len(b) : b[i] = x
      BY <1>1, <1>2, Members
<1>4. \A i \in 1..k : s[i] \in ToSet(a)
      BY <1>1, <1>3
<1>5. ASSUME NEW x \in ToSet(s), ~\E i \in 1..k : s[i] = x PROVE x \in ToSet(b)
  <2>1. PICK i \in 1..Len(s) : s[i] = x
        BY <1>3, <1>5
  <2>2. i > k
        BY <1>0, <1>5, <2>1
  <2>3. i - k \in 1..Len(s) - k /\ k + (i - k) = i
        BY <1>0, <2>1, <2>2
  <2>4. b[i - k] = x
        BY <1>2, <2>1, <2>3
  <2> QED BY <1>2, <1>3, <2>3, <2>4
<1> QED BY <1>1, <1>2, <1>4, <1>5 DEF a, b

-----------------------------------------------------------------------------
(* Lines, and the files they are written to.                               *)
Before(a, b) == a[1] < b[1] \/ (a[1] = b[1] /\ a[2] < b[2])
Ordered(s) == \A i, j \in 1..Len(s) : i < j => Before(s[i], s[j])
Below(A, B) == \A a \in A, b \in B : a < b

(* A file within its bound, or with the bytes of one event only.           *)
Fits(s) == Len(s) <= MaxBytes \/ \E e : \A i \in 1..Len(s) : s[i][1] = e

(* A file that does not end in part of a line.                             *)
Ended(s) == Len(s) > 0 => ~CutShort(s[Len(s)])

(* An event whose line begins behind part of another is one of those in F, *)
(* unless its own line lacks the end.                                      *)
Unspoilt(s, F) ==
    \A e \in Event : \A i \in 2..Len(s) :
        s[i] = <<e, 1>> /\ CutShort(s[i - 1]) /\ <<e, LineSize(e)>> \in ToSet(s) => e \in F

Sound(s, F) == Ordered(s) /\ Fits(s) /\ Unspoilt(s, F)

(* The first bytes of a line.                                              *)
LEMMA LinePart ==
    ASSUME NEW e \in Event, NEW n \in 0..LineSize(e)
    PROVE  /\ LineSize(e) \in Nat /\ LineSize(e) >= 1
           /\ SubSeq(Line(e), 1, n) \in Seq(Byte) /\ Len(SubSeq(Line(e), 1, n)) = n
           /\ \A j \in 1..n : SubSeq(Line(e), 1, n)[j] = <<e, j>>
<1>1. LineSize(e) \in Nat /\ LineSize(e) >= 1
    BY CaptureAssumption DEF LineSize
<1>2. \A j \in 1..LineSize(e) : <<e, j>> \in Byte
    BY <1>1 DEF Byte
<1> DEFINE l == Line(e)
<1>3. l \in Seq(Byte) /\ Len(l) = LineSize(e) /\ \A j \in 1..LineSize(e) : l[j] = <<e, j>>
    BY <1>1, <1>2 DEF Line
<1> HIDE DEF l
<1>4. \A j \in 1..n : l[j] \in Byte
    BY <1>1, <1>2, <1>3
<1>5. /\ SubSeq(l, 1, n) \in Seq(Byte) /\ Len(SubSeq(l, 1, n)) = n
      /\ \A j \in 1..n : SubSeq(l, 1, n)[j] = l[j]
    <2>1. n \in 0..Len(l) /\ n \in Nat
        BY <1>1, <1>3
    <2> QED BY <1>3, <1>4, <2>1, SubSeqProperties
<1> QED BY <1>1, <1>3, <1>5 DEF l

(* The bytes of a line, as a set.                                          *)
LEMMA BytesOfLine ==
    ASSUME NEW e \in Event
    PROVE  /\ \A b : b \in ToSet(Line(e)) <=> \E j \in 1..LineSize(e) : b = <<e, j>>
           /\ <<e, 1>> \in ToSet(Line(e)) /\ <<e, LineSize(e)>> \in ToSet(Line(e))
<1>1. LineSize(e) \in Nat /\ LineSize(e) >= 1
    BY CaptureAssumption DEF LineSize
<1>2. \A b : b \in ToSet(Line(e)) <=> \E j \in 1..LineSize(e) : b = <<e, j>>
    BY DEF ToSet, Line
<1>3. 1 \in 1..LineSize(e) /\ LineSize(e) \in 1..LineSize(e)
    BY <1>1
<1> QED BY <1>2, <1>3

(* An event with a complete line in a file is an event of that file.       *)
LEMMA CompleteIsIn ==
    ASSUME NEW s, NEW e \in Complete(s)
    PROVE  /\ e \in Event /\ e \in EventsIn(s)
           /\ <<e, 1>> \in ToSet(s) /\ <<e, LineSize(e)>> \in ToSet(s)
<1>1. e \in Event /\ ToSet(Line(e)) \subseteq ToSet(s)
    BY DEF Complete
<1>2. <<e, 1>> \in ToSet(s) /\ <<e, LineSize(e)>> \in ToSet(s)
    BY <1>1, BytesOfLine
<1>3. <<e, 1>>[1] = e
    OBVIOUS
<1> QED BY <1>1, <1>2, <1>3 DEF EventsIn

(* The events of a file, by position.                                      *)
LEMMA EventsByByte ==
    ASSUME NEW s \in Seq(Byte)
    PROVE  /\ \A x : x \in EventsIn(s) <=> \E i \in 1..Len(s) : s[i][1] = x
           /\ EventsIn(s) \subseteq Event /\ Len(s) \in Nat
<1>1. \A b : b \in ToSet(s) <=> \E i \in 1..Len(s) : s[i] = b
    BY Members
<1>2. \A i \in 1..Len(s) : s[i] \in Byte
    BY ElementOfSeq
<1>3. \A x : x \in EventsIn(s) <=> \E i \in 1..Len(s) : s[i][1] = x
    BY <1>1 DEF EventsIn
<1>4. \A b \in Byte : b[1] \in Event
    BY DEF Byte
<1> QED BY <1>2, <1>3, <1>4, LenProperties

(* The first part of a sound file is sound, and older than the rest.       *)
LEMMA SoundPart ==
    ASSUME NEW a \in Seq(Byte), NEW b \in Seq(Byte), NEW F, Sound(a \o b, F)
    PROVE  /\ Sound(a, F)
           /\ \A x \in ToSet(a), y \in ToSet(b) : Before(x, y)
<1> DEFINE t == a \o b
<1>1. /\ Len(a) \in Nat /\ Len(b) \in Nat /\ Len(t) = Len(a) + Len(b)
      /\ ToSet(t) = ToSet(a) \cup ToSet(b)
    BY ConcatProperties, LenProperties, SetOfConcat
<1>2. /\ \A i \in 1..Len(a) : t[i] = a[i] /\ i \in 1..Len(t)
      /\ \A i \in 1..Len(b) : t[Len(a) + i] = b[i] /\ Len(a) + i \in 1..Len(t)
    BY <1>1, ConcatProperties
<1>3. Ordered(t) /\ Fits(t) /\ Unspoilt(t, F)
    BY DEF Sound
<1> HIDE DEF t
<1>4. Ordered(a)
    BY <1>2, <1>3 DEF Ordered
<1>5. Fits(a)
    <2>1. CASE Len(t) <= MaxBytes
        BY <1>1, <2>1, CaptureAssumption DEF Fits
    <2>2. ASSUME NEW e, \A i \in 1..Len(t) : t[i][1] = e PROVE Fits(a)
        <3>1. \A i \in 1..Len(a) : a[i][1] = e
            BY <1>2, <2>2
        <3> QED BY <3>1 DEF Fits
    <2> QED BY <1>3, <2>1, <2>2 DEF Fits
<1>6. Unspoilt(a, F)
    <2> SUFFICES ASSUME NEW e \in Event, NEW i \in 2..Len(a), a[i] = <<e, 1>>,
                        CutShort(a[i - 1]), <<e, LineSize(e)>> \in ToSet(a)
                 PROVE  e \in F
        BY DEF Unspoilt
    <2>1. i \in 1..Len(a) /\ i - 1 \in 1..Len(a) /\ i \in 2..Len(t)
        BY <1>1
    <2> QED BY <1>1, <1>2, <1>3, <2>1 DEF Unspoilt
<1>7. ASSUME NEW x \in ToSet(a), NEW y \in ToSet(b) PROVE Before(x, y)
    <2>1. PICK i \in 1..Len(a) : a[i] = x
        BY Members
    <2>2. PICK j \in 1..Len(b) : b[j] = y
        BY Members
    <2>3. i < Len(a) + j
        BY <1>1
    <2> QED BY <1>2, <1>3, <2>1, <2>2, <2>3 DEF Ordered
<1> QED BY <1>4, <1>5, <1>6, <1>7 DEF Sound

(* What a file is after it has taken n bytes of a line newer than all it   *)
(* has.                                                                    *)
LEMMA LineTaken ==
    ASSUME NEW s \in Seq(Byte), NEW e \in Event, NEW n \in 0..LineSize(e), NEW F,
           Sound(s, F), Below(EventsIn(s), {e}),
           Len(s) = 0 \/ Len(s) + n <= MaxBytes,
           n < LineSize(e) \/ Ended(s) \/ e \in F
    PROVE  LET t == s \o SubSeq(Line(e), 1, n)
           IN  /\ t \in Seq(Byte) /\ Len(t) = Len(s) + n /\ Len(t) \in Nat
               /\ EventsIn(t) \subseteq EventsIn(s) \cup {e}
               /\ Sound(t, F) /\ Complete(s) \subseteq Complete(t)
               /\ n = LineSize(e) => e \in Complete(t) /\ Ended(t)
<1> DEFINE p == SubSeq(Line(e), 1, n)
           t == s \o p
           m == Len(s)
<1>0. /\ LineSize(e) \in Nat /\ LineSize(e) >= 1 /\ n \in Nat /\ n <= LineSize(e)
      /\ p \in Seq(Byte) /\ Len(p) = n /\ \A j \in 1..n : p[j] = <<e, j>>
    <2>1. LineSize(e) \in Nat /\ LineSize(e) >= 1
        BY CaptureAssumption DEF LineSize
    <2> QED BY <2>1, LinePart
<1>1. m \in Nat /\ \A x : x \in EventsIn(s) <=> \E i \in 1..m : s[i][1] = x
    BY EventsByByte
<1> HIDE DEF p
<1>2. /\ t \in Seq(Byte) /\ Len(t) = m + n /\ ToSet(t) = ToSet(s) \cup ToSet(p)
      /\ \A i \in 1..m : t[i] = s[i]
      /\ \A j \in 1..n : t[m + j] = <<e, j>>
    <2>1. /\ t \in Seq(Byte) /\ Len(t) = m + n
          /\ \A i \in 1..m + n : t[i] = IF i <= m THEN s[i] ELSE p[i - m]
        BY <1>0, ConcatProperties
    <2>2. ToSet(t) = ToSet(s) \cup ToSet(p)
        BY <1>0, SetOfConcat
    <2> HIDE DEF t
    <2>3. ASSUME NEW j \in 1..n PROVE t[m + j] = <<e, j>>
        <3>1. m + j \in 1..m + n /\ ~(m + j <= m) /\ (m + j) - m = j
            BY <1>0, <1>1
        <3> QED BY <1>0, <2>1, <3>1
    <2>4. \A i \in 1..m : t[i] = s[i]
        BY <1>0, <1>1, <2>1
    <2> QED BY <2>1, <2>2, <2>3, <2>4
<1>3. \A b : b \in ToSet(p) <=> \E j \in 1..n : b = <<e, j>>
    <2>1. \A b : b \in ToSet(p) <=> \E j \in 1..n : p[j] = b
        BY <1>0, Members
    <2> QED BY <1>0, <2>1
<1> HIDE DEF t
<1>4. \A i \in 1..Len(t) : i \in 1..m \/ (i - m \in 1..n /\ i = m + (i - m))
    BY <1>0, <1>1, <1>2
<1>5. \A i \in 1..m : s[i][1] \in EventsIn(s) /\ s[i][1] < e /\ s[i][1] # e
    <2>1. \A i \in 1..m : s[i][1] \in EventsIn(s) /\ s[i][1] < e
        BY <1>1 DEF Below
    <2>2. EventsIn(s) \subseteq Event
        BY EventsByByte
    <2> QED BY <2>1, <2>2 DEF Event
<1>6. \A j \in 1..n : t[m + j][1] = e /\ t[m + j][2] = j
    BY <1>2
<1>7. EventsIn(t) \subseteq EventsIn(s) \cup {e}
    <2>1. \A x : x \in EventsIn(t) <=> \E i \in 1..Len(t) : t[i][1] = x
        BY <1>2, EventsByByte
    <2>2. \A i \in 1..Len(t) : t[i][1] \in EventsIn(s) \cup {e}
        <3> SUFFICES ASSUME NEW i \in 1..Len(t) PROVE t[i][1] \in EventsIn(s) \cup {e}
            OBVIOUS
        <3>1. CASE i \in 1..m
            BY <1>2, <1>5, <3>1
        <3>2. CASE i - m \in 1..n /\ i = m + (i - m)
            BY <1>6, <3>2
        <3> QED BY <1>4, <3>1, <3>2
    <2> QED BY <2>1, <2>2
<1>8. Ordered(t)
    <2> SUFFICES ASSUME NEW i \in 1..Len(t), NEW j \in 1..Len(t), i < j
                 PROVE  Before(t[i], t[j])
        BY DEF Ordered
    <2>1. CASE j \in 1..m
        <3>1. i \in 1..m
            BY <1>1, <2>1
        <3> QED BY <1>2, <2>1, <3>1 DEF Sound, Ordered
    <2>2. CASE i \in 1..m /\ j - m \in 1..n /\ j = m + (j - m)
        <3>1. t[i][1] < e /\ t[j][1] = e
            <4>1. t[j][1] = e
                BY <1>6, <2>2
            <4> QED BY <1>2, <1>5, <2>2, <4>1
        <3> QED BY <3>1 DEF Before
    <2>3. CASE i - m \in 1..n /\ i = m + (i - m) /\ j - m \in 1..n /\ j = m + (j - m)
        <3>1. i - m < j - m
            BY <1>1, <2>3
        <3>2. /\ t[i][1] = e /\ t[i][2] = i - m
              /\ t[j][1] = e /\ t[j][2] = j - m
            BY <1>6, <2>3
        <3> QED BY <3>1, <3>2 DEF Before
    <2> QED BY <1>4, <2>1, <2>2, <2>3
<1>9. Fits(t)
    <2>1. CASE m = 0
        <3>1. \A i \in 1..Len(t) : t[i][1] = e
            BY <1>4, <1>6, <2>1
        <3> QED BY <3>1 DEF Fits
    <2>2. CASE m # 0
        BY <1>2, <2>2 DEF Fits
    <2> QED BY <2>1, <2>2
<1>10. \A d \in Event : <<d, LineSize(d)>> \in ToSet(t) =>
          <<d, LineSize(d)>> \in ToSet(s) \/ (d = e /\ n = LineSize(e))
    <2> SUFFICES ASSUME NEW d \in Event, NEW j \in 1..n, <<d, LineSize(d)>> = <<e, j>>
                 PROVE  d = e /\ n = LineSize(e)
        BY <1>2, <1>3
    <2>1. d = e /\ LineSize(d) = j
        OBVIOUS
    <2> QED BY <1>0, <2>1
<1>11. Unspoilt(t, F)
    <2> SUFFICES ASSUME NEW d \in Event, NEW i \in 2..Len(t), t[i] = <<d, 1>>,
                        CutShort(t[i - 1]), <<d, LineSize(d)>> \in ToSet(t)
                 PROVE  d \in F
        BY DEF Unspoilt
    <2>0. i \in 1..Len(t) /\ i >= 2 /\ t[i][1] = d /\ t[i][2] = 1
        BY <1>0, <1>1, <1>2
    <2>1. CASE i \in 1..m
        <3>1. i \in 2..m /\ i - 1 \in 1..m
            BY <1>1, <2>0, <2>1
        <3>2. d # e /\ s[i] = <<d, 1>> /\ CutShort(s[i - 1])
            BY <1>2, <1>5, <2>0, <2>1, <3>1
        <3>3. <<d, LineSize(d)>> \in ToSet(s)
            BY <1>10, <3>2
        <3> QED BY <3>1, <3>2, <3>3 DEF Sound, Unspoilt
    <2>2. CASE i - m \in 1..n /\ i = m + (i - m)
        <3>1. d = e /\ i - m = 1
            BY <1>6, <2>0, <2>2
        <3>2. m > 0 /\ i - 1 = m /\ m \in 1..m
            <4>1. i \in Nat /\ m \in Nat /\ i - m = 1 /\ i >= 2
                BY <1>1, <2>0, <2>2, <3>1
            <4> QED BY <4>1
        <3>3. ~Ended(s)
            BY <1>2, <3>2 DEF Ended
        <3>4. <<e, LineSize(e)>> \notin ToSet(s)
            <4> SUFFICES ASSUME <<e, LineSize(e)>> \in ToSet(s) PROVE FALSE
                OBVIOUS
            <4>1. PICK k \in 1..m : s[k] = <<e, LineSize(e)>>
                BY Members
            <4> QED BY <1>5, <4>1
        <3>5. n = LineSize(e)
            BY <1>10, <3>1, <3>4
        <3> QED BY <1>0, <3>1, <3>3, <3>5
    <2> QED BY <1>4, <2>0, <2>1, <2>2
<1>12. Complete(s) \subseteq Complete(t)
    BY <1>2 DEF Complete
<1>13. ASSUME n = LineSize(e) PROVE e \in Complete(t) /\ Ended(t)
    <2>1. \A b \in ToSet(Line(e)) : b \in ToSet(t)
        BY <1>2, <1>3, <1>13, BytesOfLine
    <2>2. n \in 1..n /\ Len(t) = m + n
        BY <1>0, <1>2, <1>13
    <2>3. t[Len(t)][1] = e /\ t[Len(t)][2] = LineSize(e)
        BY <1>6, <1>13, <2>2
    <2> QED BY <2>1, <2>3 DEF Complete, Ended, CutShort
<1>14. Len(t) \in Nat
    BY <1>0, <1>1, <1>2
<1> QED BY <1>2, <1>7, <1>8, <1>9, <1>11, <1>12, <1>13, <1>14 DEF Sound, t, p

-----------------------------------------------------------------------------
(* at says which of the files each rotated one was; those at gone went.    *)
Leaves(files, gone, at) ==
    /\ rotated' \in Seq(Seq(Byte))
    /\ at \in [1..Len(rotated') -> (1..Len(files)) \ gone]
    /\ \A i \in 1..Len(rotated') : rotated'[i] = files[at[i]]
    /\ \A i, j \in 1..Len(rotated') : i < j => at[i] < at[j]
    /\ \A f \in (1..Len(files)) \ gone : \E i \in 1..Len(rotated') : at[i] = f
    /\ pruned' = pruned \cup UNION {EventsIn(files[i]) : i \in gone}
    /\ disk = "sound" => gone = 1..Surplus(files)

(* pruneLocked keeps some of the files, in their order, and counts the     *)
(* events of the others as pruned.                                         *)
LEMMA PruneLeaves ==
    ASSUME NEW files \in Seq(Seq(Byte)), Prunes(files)
    PROVE  \E gone \in SUBSET (1..Len(files)) : \E at :
              Leaves(files, gone, at)
<1>1. Len(files) \in Nat /\ DOMAIN files = 1..Len(files)
    BY LenProperties
<1>2. PICK gone \in SUBSET Oldest(files) :
        /\ disk = "sound" => gone = Oldest(files)
        /\ \E at \in InOrder(DOMAIN files \ gone) : rotated' = [i \in DOMAIN at |-> files[at[i]]]
        /\ pruned' = pruned \cup UNION {EventsIn(files[i]) : i \in gone}
    BY DEF Prunes
<1> DEFINE kept == (1..Len(files)) \ gone
           n == Cardinality(kept)
<1>3. Oldest(files) = 1..Surplus(files) /\ gone \in SUBSET (1..Len(files))
    <2>1. Surplus(files) \in Nat /\ Surplus(files) <= Len(files)
        BY <1>1, CaptureAssumption DEF Surplus
    <2> QED BY <1>1, <2>1 DEF Oldest
<1>4. n \in Nat
    <2>1. IsFiniteSet(1..Len(files)) /\ kept \in SUBSET (1..Len(files))
        BY <1>1, FS_Interval
    <2>2. IsFiniteSet(kept)
        BY <2>1, FS_Subset
    <2> QED BY <2>2, FS_CardinalityType
<1> HIDE DEF n
<1>5. PICK at \in InOrder(kept) : rotated' = [i \in DOMAIN at |-> files[at[i]]]
    BY <1>1, <1>2
<1>6. /\ at \in [1..n -> kept] /\ Range(at) = kept
       /\ \A i, j \in DOMAIN at : i < j => at[i] < at[j]
    BY <1>5 DEF InOrder, n
<1>7. DOMAIN at = 1..n
    BY <1>6
<1>8. \A i \in 1..n : at[i] \in 1..Len(files) /\ files[at[i]] \in Seq(Byte)
    BY <1>6, ElementOfSeq
<1>9. rotated' \in Seq(Seq(Byte)) /\ Len(rotated') = n
    BY <1>4, <1>5, <1>7, <1>8
<1>10. \A f \in kept : \E i \in 1..n : at[i] = f
    BY <1>6, <1>7 DEF Range
<1>11. /\ \A i \in 1..n : rotated'[i] = files[at[i]]
      /\ \A i, j \in 1..n : i < j => at[i] < at[j]
    BY <1>5, <1>6, <1>7
<1>12. /\ pruned' = pruned \cup UNION {EventsIn(files[i]) : i \in gone}
       /\ disk = "sound" => gone = 1..Surplus(files)
    BY <1>2, <1>3
<1>13. Leaves(files, gone, at)
    BY <1>6, <1>9, <1>10, <1>11, <1>12 DEF Leaves
<1> QED BY <1>3, <1>13

(* Events the Recorder has answered for.                                   *)
Counted == droppedEvs \cup accepted \cup refused

(* Without a crash, every event that was recorded has been answered for or *)
(* is still in the channel; when the flusher has drained, those recorded   *)
(* before the first Close have all been answered for. Only a finished Run  *)
(* lets Close say nil, and only a crash makes a restart.                   *)
AccountInv ==
    /\ events \in Seq(Event) /\ recorded \in Nat /\ stopSaw \in Nat /\ stopSaw <= recorded
    /\ crashes \in Nat
    /\ flusher # "runs" => stopAsked
    /\ \A k \in Closer : closerPc[k] = "nil" => flusher = "done"
    /\ crashes = 0 => /\ \A e \in 1..recorded : e \in Counted \/ e \in ToSet(events)
                      /\ flusher \in {"swept", "done"} => 1..stopSaw \subseteq Counted
                      /\ fresh = FALSE /\ firsts = {}

(* On a sound disk, only what cannot be encoded is refused, because the    *)
(* Sink stays open until Run is done; and after the final flush the buffer *)
(* is empty.                                                               *)
SoundInv ==
    disk = "sound" =>
      /\ bufErr = FALSE /\ refused \subseteq Unencodable
      /\ file = "open" \/ (file = "nil" /\ flusher = "done")
      /\ flusher \in {"swept", "done"} => lineBuf = <<>>

(* Nothing is recorded and no file has a line.                             *)
LEMMA CaptureStarts == CaptureInit => AccountInv /\ SoundInv
BY CaptureAssumption DEF CaptureInit, AccountInv, SoundInv, Counted

(* Write answers for its event one way or the other.                       *)
LEMMA WriteAnswers ==
    ASSUME NEW e, Write(e)
    PROVE  /\ accepted \subseteq accepted' /\ refused \subseteq refused'
           /\ e \in accepted' \cup refused'
           /\ fresh = FALSE /\ firsts = {} => fresh' = FALSE /\ firsts' = {}
BY DEF Write, WriteFitting, WriteRotating, WriteLine, Accepts, Refuses

(* Every step keeps the account, on a failing disk too.                    *)
LEMMA AccountStep == AccountInv /\ [CaptureNext]_captureVars => AccountInv'
<1> SUFFICES ASSUME AccountInv, [CaptureNext]_captureVars PROVE AccountInv'
    OBVIOUS
<1> USE CaptureAssumption
<1>1. ASSUME RecordEvent PROVE AccountInv'
  <2>1. recorded + 1 \in Event
        BY <1>1 DEF RecordEvent, AccountInv, Event
  <2>2. /\ events' \in Seq(Event)
        /\ \A e \in 1..recorded + 1 : e \in ToSet(events) \/ e \in Counted \/ e = recorded + 1 =>
             e \in ToSet(events') \/ e \in Counted'
    <3>1. CASE events' = Append(events, recorded + 1) /\ UNCHANGED droppedEvs
      <4>1. events' \in Seq(Event) /\ ToSet(events') = ToSet(events) \cup {recorded + 1}
            BY <2>1, <3>1, SetOfAppend DEF AccountInv
      <4> QED BY <1>1, <3>1, <4>1 DEF RecordEvent, outcomeVars, Counted
    <3>2. CASE droppedEvs' = droppedEvs \cup {recorded + 1} /\ UNCHANGED events
          BY <1>1, <3>2 DEF RecordEvent, outcomeVars, Counted, AccountInv
    <3> QED BY <1>1, <3>1, <3>2 DEF RecordEvent
  <2>3. /\ recorded' = recorded + 1 /\ UNCHANGED <<flusher, stopAsked, closerPc, stopSaw, crashes, fresh, firsts>>
        /\ Counted \subseteq Counted'
        BY <1>1 DEF RecordEvent, outcomeVars, Counted
  <2> QED BY <2>2, <2>3 DEF AccountInv
<1>2. ASSUME Consume PROVE AccountInv'
  <2>1. /\ events # <<>> /\ events' = Tail(events) /\ Write(Head(events))
        /\ flusher \in {"runs", "drains"}
        /\ UNCHANGED <<recorded, droppedEvs, flusher, stopAsked, closerPc, stopSaw, crashes>>
        BY <1>2 DEF Consume
  <2>2. /\ events' \in Seq(Event)
        /\ \A x \in ToSet(events) : x = Head(events) \/ x \in ToSet(events')
        BY <2>1, SetOfTail DEF AccountInv
  <2>3. /\ Counted \subseteq Counted' /\ Head(events) \in Counted'
        /\ fresh = FALSE /\ firsts = {} => fresh' = FALSE /\ firsts' = {}
        BY <2>1, WriteAnswers DEF Counted
  <2> QED BY <2>1, <2>2, <2>3 DEF AccountInv
<1>3. ASSUME TickFlush PROVE AccountInv'
      BY <1>3 DEF TickFlush, recorderVars, outcomeVars, AccountInv, Counted
<1>4. ASSUME StopSeen PROVE AccountInv'
      BY <1>4 DEF StopSeen, outcomeVars, AccountInv, Counted
<1>5. ASSUME FinalSweep PROVE AccountInv'
  <2>1. /\ events = <<>> /\ flusher' = "swept" /\ flusher = "drains" /\ Counted' = Counted
        /\ UNCHANGED <<recorded, events, stopAsked, closerPc, stopSaw, crashes, fresh, firsts>>
        BY <1>5 DEF FinalSweep, outcomeVars, Counted
  <2>2. ToSet(events) = {}
        BY <2>1 DEF ToSet
  <2> QED BY <2>1, <2>2 DEF AccountInv
<1>6. ASSUME RunDone PROVE AccountInv'
      BY <1>6 DEF RunDone, outcomeVars, AccountInv, Counted
<1>7. ASSUME NEW k \in Closer, CloseRecorder(k) PROVE AccountInv'
      BY <1>7 DEF CloseRecorder, outcomeVars, AccountInv, Counted
<1>8. ASSUME NEW k \in Closer, CloseRecorderReturns(k) PROVE AccountInv'
      BY <1>8 DEF CloseRecorderReturns, outcomeVars, AccountInv, Counted
<1>9. ASSUME CrashAndReopen PROVE AccountInv'
      BY <1>9 DEF CrashAndReopen, AccountInv
<1>10. CASE UNCHANGED captureVars
      BY <1>10 DEF captureVars, recorderVars, outcomeVars, AccountInv, Counted
<1> QED BY <1>1, <1>2, <1>3, <1>4, <1>5, <1>6, <1>7, <1>8, <1>9, <1>10 DEF CaptureNext

(* On a sound disk, Flush empties the buffer.                              *)
LEMMA FlushEmpties ==
    ASSUME SoundInv, disk = "sound", FlushOK \/ FlushFails \/ FlushBroken,
           lineBuf \in Seq(Byte)
    PROVE  lineBuf' = <<>> /\ bufErr' = bufErr
<1>1. FlushOK
    BY DEF SoundInv, FlushFails, FlushBroken
<1>2. SubSeq(lineBuf, Len(lineBuf) + 1, Len(lineBuf)) = <<>>
    BY LenProperties, SubSeqEmpty
<1> QED BY <1>1, <1>2 DEF FlushOK, Reached

(* Every step keeps SoundInv.                                              *)
LEMMA SoundStep ==
    lineBuf \in Seq(Byte) /\ SoundInv /\ [CaptureNext]_captureVars => SoundInv'
<1> SUFFICES ASSUME lineBuf \in Seq(Byte), SoundInv, [CaptureNext]_captureVars, disk' = "sound"
             PROVE  SoundInv'
    BY DEF SoundInv
<1>0. disk = "sound"
    BY DEF CaptureNext, RecordEvent, Consume, TickFlush, StopSeen, FinalSweep, RunDone,
           CrashAndReopen, CloseRecorder, CloseRecorderReturns, captureVars
<1>1. CASE Consume
    <2>1. flusher \in {"runs", "drains"} /\ flusher' = flusher /\ file = "open" /\ bufErr = FALSE
        BY <1>0, <1>1 DEF Consume, SoundInv
    <2>2. PICK e : Write(e)
        BY <1>1 DEF Consume
    <2>3. UNCHANGED <<bufErr, file>> /\ refused' \subseteq refused \cup Unencodable
        BY <1>0, <2>1, <2>2
           DEF Write, WriteFitting, WriteRotating, WriteLine, FlushFails, FlushBroken,
               Accepts, Refuses, sinkVars
    <2> QED BY <1>0, <2>1, <2>3 DEF SoundInv
<1>2. CASE TickFlush
    <2>1. file = "open" /\ Flush /\ flusher' = flusher /\ flusher = "runs"
          /\ UNCHANGED outcomeVars
        BY <1>0, <1>2 DEF TickFlush, SoundInv, recorderVars
    <2> QED BY <1>0, <2>1, FlushEmpties DEF SoundInv, Flush, outcomeVars
<1>3. CASE FinalSweep
    <2>1. file = "open" /\ Flush /\ flusher' = "swept" /\ UNCHANGED outcomeVars
        BY <1>0, <1>3 DEF FinalSweep, SoundInv
    <2> QED BY <1>0, <2>1, FlushEmpties DEF SoundInv, Flush, outcomeVars
<1>4. CASE RunDone
    <2>1. file = "open" /\ flusher' = "done" /\ UNCHANGED outcomeVars /\ SinkCloses
        BY <1>0, <1>4 DEF RunDone, SoundInv
    <2> QED BY <1>0, <2>1, FlushEmpties DEF SoundInv, SinkCloses, outcomeVars
<1>5. CASE CrashAndReopen
    BY <1>0, <1>5 DEF CrashAndReopen, SoundInv
<1>6. ASSUME UNCHANGED <<sinkVars, outcomeVars>>,
             flusher' = flusher \/ (flusher = "runs" /\ flusher' = "drains")
      PROVE  SoundInv'
    BY <1>0, <1>6 DEF SoundInv, sinkVars, outcomeVars
<1>7. CASE RecordEvent
    BY <1>6, <1>7 DEF RecordEvent
<1>8. CASE StopSeen
    BY <1>6, <1>8 DEF StopSeen
<1>9. ASSUME NEW k \in Closer, CloseRecorder(k) \/ CloseRecorderReturns(k) PROVE SoundInv'
    BY <1>6, <1>9 DEF CloseRecorder, CloseRecorderReturns
<1>10. CASE UNCHANGED captureVars
    BY <1>6, <1>10 DEF captureVars, recorderVars
<1> QED BY <1>1, <1>2, <1>3, <1>4, <1>5, <1>7, <1>8, <1>9, <1>10 DEF CaptureNext

-----------------------------------------------------------------------------
(* The bytes of the current file, with those that are still buffered.      *)
Lines == liveFile \o lineBuf

(* The events of a sequence of files, and those with a complete line.      *)
EventsOf(files) == UNION {EventsIn(f) : f \in ToSet(files)}
Whole(files) == UNION {Complete(f) : f \in ToSet(files)}

InLine(files, F) ==
    /\ \A f \in 1..Len(files) : Sound(files[f], F)
    /\ \A f, g \in 1..Len(files) : f < g => Below(EventsIn(files[f]), EventsIn(files[g]))

FilesTyped ==
    /\ recorded \in Nat /\ events \in Seq(Event) /\ lineBuf \in Seq(Byte)
    /\ liveFile \in Seq(Byte) /\ rotated \in Seq(Seq(Byte)) /\ size \in Nat

Seen == EventsOf(rotated) \cup EventsIn(Lines) \cup pruned \cup accepted

(* What makes FilesAreSound inductive: the rotated files, then the bytes   *)
(* of the current one, are sound and in the order of the events; every     *)
(* accepted event has its whole line there, or went with a pruned file;    *)
(* the byte count is never less than those bytes; and the current file     *)
(* ends in part of a line only when nothing was accepted since a restart,  *)
(* or nothing can be written any more.                                     *)
SinkInv ==
    /\ InLine(rotated, firsts) /\ Sound(Lines, firsts)
    /\ Below(EventsOf(rotated), EventsIn(Lines))
    /\ disk = "sound" => Below(pruned, EventsOf(rotated) \cup EventsIn(Lines))
    /\ accepted \subseteq Whole(rotated) \cup Complete(Lines) \cup pruned
    /\ size >= Len(Lines)
    /\ fresh \/ bufErr \/ Ended(Lines)

(* What is in the channel is newer than all of it, and in order too.       *)
Increasing(s) == \A i, j \in 1..Len(s) : i < j => s[i] < s[j]

QueueInv ==
    /\ Increasing(events) /\ Below(Seen, ToSet(events))
    /\ Seen \cup ToSet(events) \subseteq 1..recorded

FileInv == FilesTyped /\ SinkInv /\ QueueInv

(* The bytes are one sequence.                                             *)
LEMMA LinesTyped ==
    ASSUME FilesTyped
    PROVE  /\ Lines \in Seq(Byte) /\ Len(Lines) \in Nat
           /\ ToSet(Lines) = ToSet(liveFile) \cup ToSet(lineBuf)
           /\ EventsIn(Lines) = EventsIn(liveFile) \cup EventsIn(lineBuf)
BY SetOfConcat, LenProperties DEF FilesTyped, Lines, EventsIn

(* More events may be excused.                                             *)
LEMMA SoundGrows ==
    ASSUME NEW s, NEW F, NEW G, F \subseteq G, Sound(s, F)
    PROVE  Sound(s, G)
BY DEF Sound, Unspoilt

LEMMA InLineGrows ==
    ASSUME NEW files, NEW F, NEW G, F \subseteq G, InLine(files, F)
    PROVE  InLine(files, G)
BY SoundGrows DEF InLine

(* A file without a byte.                                                  *)
LEMMA EmptyIsSound ==
    ASSUME NEW F
    PROVE  /\ <<>> \in Seq(Byte) /\ Len(<<>>) = 0 /\ ToSet(<<>>) = {} /\ EventsIn(<<>>) = {}
           /\ Sound(<<>>, F) /\ Ended(<<>>)
<1>1. <<>> \in Seq(Byte) /\ Len(<<>>) = 0 /\ ToSet(<<>>) = {}
    BY DEF ToSet
<1> DEFINE s == <<>>
<1>2. s \in Seq(Byte) /\ Len(s) = 0 /\ ToSet(s) = {}
    BY <1>1
<1> HIDE DEF s
<1>3. EventsIn(s) = {} /\ Sound(s, F) /\ Ended(s)
    BY <1>2, CaptureAssumption DEF EventsIn, Sound, Ordered, Fits, Unspoilt, Ended
<1> QED BY <1>2, <1>3 DEF s

(* Another file behind those there are, with newer events.                 *)
LEMMA InLineAppend ==
    ASSUME NEW files \in Seq(Seq(Byte)), NEW s \in Seq(Byte), NEW F, InLine(files, F),
           Sound(s, F), Below(EventsOf(files), EventsIn(s))
    PROVE  /\ Append(files, s) \in Seq(Seq(Byte)) /\ InLine(Append(files, s), F)
           /\ EventsOf(Append(files, s)) = EventsOf(files) \cup EventsIn(s)
           /\ Whole(Append(files, s)) = Whole(files) \cup Complete(s)
<1> DEFINE more == Append(files, s)
           n == Len(files)
<1>1. /\ more \in Seq(Seq(Byte)) /\ Len(more) = n + 1 /\ n \in Nat
      /\ \A f \in 1..n : more[f] = files[f]
      /\ more[n + 1] = s
      /\ ToSet(more) = ToSet(files) \cup {s}
    BY AppendProperties, LenProperties, SetOfAppend
<1>2. \A f \in 1..n : EventsIn(files[f]) \subseteq EventsOf(files)
    <2>1. \A f \in 1..n : files[f] \in ToSet(files)
        BY Members
    <2> QED BY <2>1 DEF EventsOf
<1>3. /\ EventsOf(more) = EventsOf(files) \cup EventsIn(s)
      /\ Whole(more) = Whole(files) \cup Complete(s)
    BY <1>1 DEF EventsOf, Whole
<1> HIDE DEF more
<1>4. \A f \in 1..Len(more) : f \in 1..n \/ f = n + 1
    BY <1>1
<1>5. \A f \in 1..Len(more) : Sound(more[f], F)
    BY <1>1, <1>4 DEF InLine
<1>6. ASSUME NEW f \in 1..Len(more), NEW g \in 1..Len(more), f < g
      PROVE  Below(EventsIn(more[f]), EventsIn(more[g]))
    <2>1. f \in 1..n
        BY <1>1, <1>6
    <2>2. CASE g \in 1..n
        BY <1>1, <1>6, <2>1, <2>2 DEF InLine
    <2>3. CASE g = n + 1
        BY <1>1, <1>2, <2>1, <2>3 DEF Below
    <2> QED BY <1>4, <2>2, <2>3
<1> QED BY <1>1, <1>3, <1>5, <1>6 DEF InLine, more

(* An event that shares its line in a sound file is one of those excused.  *)
LEMMA GluedExcused ==
    ASSUME NEW s \in Seq(Byte), NEW F, Sound(s, F)
    PROVE  Glued(s) \subseteq F
<1> SUFFICES ASSUME NEW e \in Glued(s) PROVE e \in F
    OBVIOUS
<1>1. e \in Complete(s)
    BY DEF Glued
<1>2. PICK i \in DOMAIN s : i > 1 /\ s[i] = <<e, 1>> /\ CutShort(s[i - 1])
    BY DEF Glued
<1>3. i \in 2..Len(s)
    BY <1>2, LenProperties
<1>4. e \in Event /\ <<e, LineSize(e)>> \in ToSet(s)
    BY <1>1, CompleteIsIn
<1> QED BY <1>2, <1>3, <1>4 DEF Sound, Unspoilt

(* An event whose line is complete in the file and the buffer, and not in  *)
(* the file, is newer than those whose lines are there.                    *)
LEMMA BufferedIsNewer ==
    ASSUME FilesTyped, Sound(Lines, firsts),
           NEW e \in Complete(Lines), e \notin Complete(liveFile), NEW d \in Complete(liveFile)
    PROVE  d < e
<1>1. /\ liveFile \in Seq(Byte) /\ lineBuf \in Seq(Byte)
      /\ ToSet(Lines) = ToSet(liveFile) \cup ToSet(lineBuf)
    BY LinesTyped DEF FilesTyped
<1>2. e \in Event /\ d # e /\ <<d, 1>> \in ToSet(liveFile)
    BY CompleteIsIn
<1>3. PICK b \in ToSet(Line(e)) : b \notin ToSet(liveFile)
    BY <1>2 DEF Complete
<1>4. b \in ToSet(lineBuf)
    BY <1>1, <1>3 DEF Complete
<1>5. b[1] = e
    <2>1. PICK j \in 1..LineSize(e) : b = <<e, j>>
        BY <1>2, <1>3, BytesOfLine
    <2> QED BY <2>1
<1>6. Before(<<d, 1>>, b)
    BY <1>1, <1>2, <1>4, SoundPart DEF Lines
<1>7. <<d, 1>>[1] = d
    OBVIOUS
<1> QED BY <1>2, <1>5, <1>6, <1>7 DEF Before

(* FilesAreSound follows.                                                  *)
LEMMA FilesFollow ==
    ASSUME FilesTyped, SinkInv PROVE FilesAreSound
<1>0. /\ liveFile \in Seq(Byte) /\ lineBuf \in Seq(Byte) /\ rotated \in Seq(Seq(Byte))
      /\ Lines \in Seq(Byte)
      /\ EventsIn(Lines) = EventsIn(liveFile) \cup EventsIn(lineBuf)
    BY LinesTyped DEF FilesTyped
<1>1. Sound(liveFile, firsts)
    BY <1>0, SoundPart DEF SinkInv, Lines
<1>2. Below(EventsOf(rotated), EventsIn(liveFile))
    BY <1>0 DEF SinkInv, Below
<1>3. /\ Files \in Seq(Seq(Byte)) /\ InLine(Files, firsts)
      /\ EventsOf(Files) = EventsOf(rotated) \cup EventsIn(liveFile)
      /\ Whole(Files) = Whole(rotated) \cup Complete(liveFile)
    BY <1>0, <1>1, <1>2, InLineAppend DEF SinkInv, Files
<1>4. DOMAIN Files = 1..Len(Files) /\ \A f \in DOMAIN Files : Files[f] \in Seq(Byte)
    <2>1. DOMAIN Files = 1..Len(Files)
        BY <1>3, LenProperties
    <2>2. \A f \in 1..Len(Files) : Files[f] \in Seq(Byte)
        BY <1>3, ElementOfSeq
    <2> QED BY <2>1, <2>2
<1>5. \A f \in ToSet(Files) : f \in Seq(Byte) /\ Sound(f, firsts)
    <2>1. \A f \in ToSet(Files) : \E i \in DOMAIN Files : Files[i] = f
        BY <1>3, <1>4, Members
    <2> QED BY <1>3, <1>4, <2>1 DEF InLine
<1>6. Spoilt \subseteq firsts
    BY <1>5, GluedExcused DEF Spoilt
<1>7. Whole(Files) \subseteq Stored \cup Spoilt /\ Stored \subseteq Whole(Files)
    BY DEF Stored, Spoilt, Whole
<1>8. Whole(Files) \subseteq EventsOf(Files)
    BY CompleteIsIn DEF Whole, EventsOf
<1>9. ASSUME NEW f \in DOMAIN Files
      PROVE  /\ \A i, j \in DOMAIN Files[f] :
                    i < j => \/ Files[f][i][1] < Files[f][j][1]
                             \/ Files[f][i][1] = Files[f][j][1] /\ Files[f][i][2] < Files[f][j][2]
             /\ Len(Files[f]) <= MaxBytes \/ Cardinality(EventsIn(Files[f])) = 1
    <2> DEFINE s == Files[f]
    <2>1. s \in Seq(Byte) /\ Ordered(s) /\ Fits(s)
        BY <1>3, <1>4 DEF InLine, Sound
    <2> HIDE DEF s
    <2>2. DOMAIN s = 1..Len(s) /\ Len(s) \in Nat
        BY <2>1, LenProperties
    <2>3. \A i, j \in DOMAIN s :
              i < j => \/ s[i][1] < s[j][1]
                       \/ s[i][1] = s[j][1] /\ s[i][2] < s[j][2]
        BY <2>1, <2>2 DEF Ordered, Before
    <2>4. ASSUME ~(Len(s) <= MaxBytes) PROVE Cardinality(EventsIn(s)) = 1
        <3>1. PICK e : \A i \in 1..Len(s) : s[i][1] = e
            BY <2>1, <2>4 DEF Fits
        <3>2. 1 \in 1..Len(s)
            BY <2>2, <2>4, CaptureAssumption
        <3>3. \A x : x \in EventsIn(s) <=> \E i \in 1..Len(s) : s[i][1] = x
            BY <2>1, EventsByByte
        <3>4. EventsIn(s) = {e}
            BY <3>1, <3>2, <3>3
        <3> QED BY <3>4, FS_Singleton
    <2> QED BY <2>3, <2>4 DEF s
<1>10. \A f, g \in DOMAIN Files :
          f < g => \A d \in EventsIn(Files[f]), e \in EventsIn(Files[g]) : d < e
    BY <1>3, <1>4 DEF InLine, Below
<1>11. ASSUME NEW e \in accepted \ (Stored \cup Spoilt \cup pruned), NEW d \in Stored PROVE d < e
    <2>1. e \in Complete(Lines) /\ e \notin Complete(liveFile)
        BY <1>3, <1>7 DEF SinkInv
    <2>2. e \in EventsIn(Lines)
        BY <2>1, CompleteIsIn
    <2>3. CASE d \in Whole(rotated)
        <3>1. d \in EventsOf(rotated)
            BY <2>3, CompleteIsIn DEF Whole, EventsOf
        <3> QED BY <2>2, <3>1 DEF SinkInv, Below
    <2>4. CASE d \in Complete(liveFile)
        BY <2>1, <2>4, BufferedIsNewer DEF SinkInv
    <2> QED BY <1>3, <1>7, <2>3, <2>4
<1>12. ASSUME disk = "sound", NEW e \in pruned, NEW d \in Stored PROVE e < d
    BY <1>0, <1>3, <1>7, <1>8, <1>12 DEF SinkInv, Below
<1> QED BY <1>6, <1>9, <1>10, <1>11, <1>12 DEF FilesAreSound

(* When nothing is buffered, what was accepted can be read, shares its     *)
(* line or was pruned.                                                     *)
LEMMA FlushedIsStored ==
    ASSUME FilesTyped, SinkInv, lineBuf = <<>>
    PROVE  accepted \subseteq Stored \cup firsts \cup pruned
<1>0. liveFile \in Seq(Byte) /\ rotated \in Seq(Seq(Byte))
    BY DEF FilesTyped
<1>1. Lines = liveFile
    BY <1>0, ConcatEmptySeq DEF Lines
<1>2. /\ Whole(Files) = Whole(rotated) \cup Complete(liveFile)
      /\ Files \in Seq(Seq(Byte)) /\ InLine(Files, firsts)
    BY <1>0, <1>1, InLineAppend DEF SinkInv, Files
<1>3. \A f \in ToSet(Files) : f \in Seq(Byte) /\ Sound(f, firsts)
    <2>1. \A i \in 1..Len(Files) : Files[i] \in Seq(Byte)
        BY <1>2, ElementOfSeq
    <2>2. \A f \in ToSet(Files) : \E i \in 1..Len(Files) : Files[i] = f
        BY <1>2, Members
    <2> QED BY <1>2, <2>1, <2>2 DEF InLine
<1>4. Spoilt \subseteq firsts
    BY <1>3, GluedExcused DEF Spoilt
<1>5. Whole(Files) \subseteq Stored \cup Spoilt
    BY DEF Stored, Spoilt, Whole
<1> QED BY <1>1, <1>2, <1>4, <1>5 DEF SinkInv

-----------------------------------------------------------------------------
(* Files that stay are in line, and none is lost without being pruned; on  *)
(* a sound disk those that went were the oldest.                           *)
LEMMA PruneInLine ==
    ASSUME NEW files \in Seq(Seq(Byte)), NEW F, InLine(files, F), Prunes(files)
    PROVE  /\ rotated' \in Seq(Seq(Byte)) /\ InLine(rotated', F)
           /\ EventsOf(rotated') \subseteq EventsOf(files)
           /\ pruned' \subseteq pruned \cup EventsOf(files) /\ pruned \subseteq pruned'
           /\ EventsOf(files) \subseteq EventsOf(rotated') \cup pruned'
           /\ Whole(files) \subseteq Whole(rotated') \cup pruned'
           /\ disk = "sound" /\ Below(pruned, EventsOf(files)) => Below(pruned', EventsOf(rotated'))
<1>1. PICK gone \in SUBSET (1..Len(files)) : \E at : Leaves(files, gone, at)
    BY PruneLeaves
<1>2. PICK at : Leaves(files, gone, at)
    BY <1>1
<1> USE DEF Leaves
<1>3. InLine(rotated', F)
    <2>1. \A f \in 1..Len(files) : Sound(files[f], F)
        BY DEF InLine
    <2>2. \A f, g \in 1..Len(files) : f < g => Below(EventsIn(files[f]), EventsIn(files[g]))
        BY DEF InLine
    <2>3. \A i \in 1..Len(rotated') : at[i] \in 1..Len(files) /\ rotated'[i] = files[at[i]]
        BY <1>2
    <2>4. \A i \in 1..Len(rotated') : Sound(rotated'[i], F)
        BY <2>1, <2>3
    <2>5. \A i, j \in 1..Len(rotated') : i < j => Below(EventsIn(rotated'[i]), EventsIn(rotated'[j]))
        BY <1>2, <2>2, <2>3
    <2> QED BY <2>4, <2>5 DEF InLine
<1>4. \A x : x \in EventsOf(files) <=> \E f \in 1..Len(files) : x \in EventsIn(files[f])
    <2>1. \A s : s \in ToSet(files) <=> \E f \in 1..Len(files) : files[f] = s
        BY Members
    <2> QED BY <2>1 DEF EventsOf
<1>5. \A x : x \in EventsOf(rotated') <=> \E i \in 1..Len(rotated') : x \in EventsIn(files[at[i]])
    <2>0. \A r \in Seq(Seq(Byte)) : \A f : f \in ToSet(r) <=> \E i \in 1..Len(r) : r[i] = f
        BY Members
    <2>1. \A f : f \in ToSet(rotated') <=> \E i \in 1..Len(rotated') : rotated'[i] = f
        BY <1>2, <2>0
    <2>2. \A x : x \in EventsOf(rotated') <=> \E f \in ToSet(rotated') : x \in EventsIn(f)
        BY DEF EventsOf
    <2>3. \A x : x \in EventsOf(rotated') <=> \E i \in 1..Len(rotated') : x \in EventsIn(rotated'[i])
        BY <2>1, <2>2
    <2> QED BY <1>2, <2>3
<1>6. \A x : x \in pruned' <=> x \in pruned \/ \E f \in gone : x \in EventsIn(files[f])
    BY <1>2
<1>7. EventsOf(rotated') \subseteq EventsOf(files)
    BY <1>2, <1>4, <1>5
<1>8. pruned' \subseteq pruned \cup EventsOf(files) /\ pruned \subseteq pruned'
    BY <1>4, <1>6
<1>9. EventsOf(files) \subseteq EventsOf(rotated') \cup pruned'
    BY <1>2, <1>4, <1>5, <1>6
<1>10. ASSUME disk = "sound", Below(pruned, EventsOf(files)) PROVE Below(pruned', EventsOf(rotated'))
    <2> SUFFICES ASSUME NEW a \in pruned', NEW b \in EventsOf(rotated') PROVE a < b
        BY DEF Below
    <2>1. PICK i \in 1..Len(rotated') : b \in EventsIn(files[at[i]])
        BY <1>5
    <2>2. CASE a \in pruned
        BY <1>7, <1>10, <2>2 DEF Below
    <2>3. CASE \E f \in gone : a \in EventsIn(files[f])
        <3>1. PICK f \in gone : a \in EventsIn(files[f])
            BY <2>3
        <3>2. at[i] \in 1..Len(files) /\ at[i] \notin 1..Surplus(files) /\ f \in 1..Surplus(files)
            BY <1>2, <1>10
        <3>3. f \in 1..Len(files) /\ f < at[i]
            <4>1. Len(files) \in Nat /\ Surplus(files) \in Nat
                BY LenProperties, CaptureAssumption DEF Surplus
            <4>2. f \in 1..Len(files)
                BY <3>1
            <4> QED BY <3>2, <4>1, <4>2
        <3> QED BY <2>1, <3>1, <3>2, <3>3 DEF InLine, Below
    <2> QED BY <1>6, <2>2, <2>3
<1>11. ASSUME NEW e \in Whole(files) PROVE e \in Whole(rotated') \cup pruned'
    <2>1. PICK s \in ToSet(files) : e \in Complete(s)
        BY DEF Whole
    <2>2. PICK f \in 1..Len(files) : files[f] = s
        BY Members
    <2>3. CASE f \in gone
        <3>1. e \in EventsIn(files[f])
            BY <2>1, <2>2, CompleteIsIn
        <3> QED BY <1>6, <2>3, <3>1
    <2>4. CASE f \notin gone
        <3>1. PICK i \in 1..Len(rotated') : at[i] = f
            BY <1>2, <2>4
        <3>2. rotated'[i] = s
            BY <1>2, <2>2, <3>1
        <3>3. \A r \in Seq(Seq(Byte)) : \A k \in 1..Len(r) : r[k] \in ToSet(r)
            BY Members
        <3>4. s \in ToSet(rotated')
            BY <1>2, <3>2, <3>3
        <3> QED BY <2>1, <3>4 DEF Whole
    <2> QED BY <2>3, <2>4
<1> QED BY <1>2, <1>3, <1>7, <1>8, <1>9, <1>10, <1>11

-----------------------------------------------------------------------------
(* What became of a line of which n bytes were taken.                      *)
Answered(e, n) ==
    \/ n = LineSize(e) /\ Accepts(e) /\ bufErr' = bufErr
    \/ n \in 0..LineSize(e) - 1 /\ Refuses(e) /\ bufErr' = TRUE

(* An accepted line is whole, and if the file ended in part of another it  *)
(* is the first after a restart.                                           *)
LEMMA AnswerExcuses ==
    ASSUME NEW e \in Event, NEW n \in 0..LineSize(e), Answered(e, n)
    PROVE  /\ LineSize(e) \in Nat /\ LineSize(e) >= 1 /\ n \in Nat /\ n <= LineSize(e)
           /\ firsts \subseteq firsts' /\ accepted' \subseteq accepted \cup {e}
           /\ n < LineSize(e) \/ ~fresh \/ e \in firsts'
           /\ n < LineSize(e) => bufErr' = TRUE /\ accepted' = accepted
<1>1. LineSize(e) \in Nat /\ LineSize(e) >= 1
    BY CaptureAssumption DEF LineSize
<1>2. CASE n = LineSize(e) /\ Accepts(e)
    BY <1>1, <1>2 DEF Accepts
<1>3. CASE n \in 0..LineSize(e) - 1 /\ Refuses(e) /\ bufErr' = TRUE
    BY <1>1, <1>3 DEF Refuses
<1> QED BY <1>2, <1>3 DEF Answered

(* What the Sink's operations do to the bytes: nothing.                    *)
LEMMA SinkStays ==
    ASSUME SinkInv, bufErr => bufErr',
           UNCHANGED <<rotated, pruned, accepted, fresh, firsts, size, disk, Lines>>
    PROVE  SinkInv'
BY DEF SinkInv

(* Or they take bytes of a line newer than all that is there, to a file    *)
(* with room for it.                                                       *)
LEMMA SinkTakes ==
    ASSUME FilesTyped, SinkInv, ~bufErr, NEW e \in Event, Below(Seen, {e}), ~NeedsRotation(e),
           NEW n \in 0..LineSize(e), Answered(e, n), Lines' = Lines \o SubSeq(Line(e), 1, n),
           size' = size + n, UNCHANGED <<rotated, pruned, disk>>
    PROVE  SinkInv' /\ Seen' \subseteq Seen \cup {e}
<1> DEFINE t == Lines \o SubSeq(Line(e), 1, n)
<1>1. /\ LineSize(e) \in Nat /\ LineSize(e) >= 1 /\ n \in Nat /\ n <= LineSize(e)
      /\ firsts \subseteq firsts' /\ accepted' \subseteq accepted \cup {e}
      /\ n < LineSize(e) \/ ~fresh \/ e \in firsts'
      /\ n < LineSize(e) => bufErr' = TRUE /\ accepted' = accepted
    BY AnswerExcuses
<1>2. Lines \in Seq(Byte) /\ Len(Lines) \in Nat /\ size \in Nat
    BY LinesTyped DEF FilesTyped
<1>3. Sound(Lines, firsts') /\ InLine(rotated, firsts')
    BY <1>1, SoundGrows, InLineGrows DEF SinkInv
<1>4. Len(Lines) = 0 \/ Len(Lines) + n <= MaxBytes
    BY <1>1, <1>2, CaptureAssumption DEF SinkInv, NeedsRotation
<1>5. n < LineSize(e) \/ Ended(Lines) \/ e \in firsts'
    BY <1>1 DEF SinkInv
<1>6. Below(EventsIn(Lines), {e})
    BY DEF Below, Seen
<1>7. /\ t \in Seq(Byte) /\ Len(t) = Len(Lines) + n
      /\ EventsIn(t) \subseteq EventsIn(Lines) \cup {e}
      /\ Sound(t, firsts') /\ Complete(Lines) \subseteq Complete(t)
      /\ n = LineSize(e) => e \in Complete(t) /\ Ended(t)
    BY <1>2, <1>3, <1>4, <1>5, <1>6, LineTaken
<1>8. Lines' = t
    OBVIOUS
<1> HIDE DEF t
<1>9. Below(EventsOf(rotated), EventsIn(t))
    BY <1>7 DEF SinkInv, Below, Seen
<1>10. disk = "sound" => Below(pruned, EventsOf(rotated) \cup EventsIn(t))
    BY <1>7 DEF SinkInv, Below, Seen
<1>11. accepted' \subseteq Whole(rotated) \cup Complete(t) \cup pruned
    BY <1>1, <1>7 DEF SinkInv
<1>12. size' >= Len(t)
    BY <1>1, <1>2, <1>7 DEF SinkInv
<1>13. bufErr' \/ Ended(t)
    BY <1>1, <1>7
<1>14. SinkInv'
    BY <1>3, <1>7, <1>8, <1>9, <1>10, <1>11, <1>12, <1>13 DEF SinkInv
<1>15. Seen' \subseteq Seen \cup {e}
    BY <1>1, <1>7, <1>8 DEF Seen
<1> QED BY <1>14, <1>15

(* Or they put the bytes behind the rotated files, prune and begin a file. *)
LEMMA SinkRotates ==
    ASSUME FilesTyped, SinkInv, NEW e \in Event, Below(Seen, {e}),
           Prunes(Append(rotated, Lines)), NEW n \in 0..LineSize(e), Answered(e, n),
           Lines' = <<>> \o SubSeq(Line(e), 1, n), size' = n, UNCHANGED disk
    PROVE  SinkInv' /\ rotated' \in Seq(Seq(Byte)) /\ Seen' \subseteq Seen \cup {e}
<1> DEFINE t == <<>> \o SubSeq(Line(e), 1, n)
           files == Append(rotated, Lines)
<1>1. /\ LineSize(e) \in Nat /\ LineSize(e) >= 1 /\ n \in Nat /\ n <= LineSize(e)
      /\ firsts \subseteq firsts' /\ accepted' \subseteq accepted \cup {e}
      /\ n < LineSize(e) => bufErr' = TRUE /\ accepted' = accepted
    BY AnswerExcuses
<1>2. Lines \in Seq(Byte) /\ rotated \in Seq(Seq(Byte))
    BY LinesTyped DEF FilesTyped
<1>3. Sound(Lines, firsts') /\ InLine(rotated, firsts')
    BY <1>1, SoundGrows, InLineGrows DEF SinkInv
<1>4. /\ files \in Seq(Seq(Byte)) /\ InLine(files, firsts')
      /\ EventsOf(files) = EventsOf(rotated) \cup EventsIn(Lines)
      /\ Whole(files) = Whole(rotated) \cup Complete(Lines)
    BY <1>2, <1>3, InLineAppend DEF SinkInv
<1>5. Prunes(files)
    OBVIOUS
<1>6. /\ t \in Seq(Byte) /\ Len(t) = n
      /\ EventsIn(t) \subseteq {e} /\ Sound(t, firsts')
      /\ n = LineSize(e) => e \in Complete(t) /\ Ended(t)
    <2> DEFINE o == <<>>
    <2>1. /\ o \in Seq(Byte) /\ Len(o) = 0 /\ EventsIn(o) = {} /\ Sound(o, firsts') /\ Ended(o)
        BY EmptyIsSound
    <2>3. ASSUME NEW v \in Seq(Byte), Len(v) = 0, EventsIn(v) = {}, Sound(v, firsts'), Ended(v)
          PROVE  LET u == v \o SubSeq(Line(e), 1, n)
                 IN  /\ u \in Seq(Byte) /\ Len(u) = n /\ EventsIn(u) \subseteq {e}
                     /\ Sound(u, firsts')
                     /\ n = LineSize(e) => e \in Complete(u) /\ Ended(u)
        <3> DEFINE u == v \o SubSeq(Line(e), 1, n)
        <3>1. Below(EventsIn(v), {e})
            BY <2>3 DEF Below
        <3>2. Sound(v, firsts') /\ (Len(v) = 0 \/ Len(v) + n <= MaxBytes)
              /\ (n < LineSize(e) \/ Ended(v) \/ e \in firsts')
            BY <2>3
        <3>3. /\ u \in Seq(Byte) /\ Len(u) = Len(v) + n
              /\ EventsIn(u) \subseteq EventsIn(v) \cup {e} /\ Sound(u, firsts')
              /\ n = LineSize(e) => e \in Complete(u) /\ Ended(u)
            BY <3>1, <3>2, LineTaken
        <3> HIDE DEF u
        <3>4. Len(u) = n
            BY <1>1, <2>3, <3>3
        <3> QED BY <2>3, <3>3, <3>4 DEF u
    <2> QED BY <2>1, <2>3
<1>7. Lines' = t
    OBVIOUS
<1> HIDE DEF files, t
<1>8. /\ rotated' \in Seq(Seq(Byte)) /\ InLine(rotated', firsts')
      /\ EventsOf(rotated') \subseteq EventsOf(files)
      /\ pruned' \subseteq pruned \cup EventsOf(files) /\ pruned \subseteq pruned'
      /\ EventsOf(files) \subseteq EventsOf(rotated') \cup pruned'
      /\ Whole(files) \subseteq Whole(rotated') \cup pruned'
      /\ disk = "sound" /\ Below(pruned, EventsOf(files)) => Below(pruned', EventsOf(rotated'))
    BY <1>4, <1>5, PruneInLine
<1>9. \A a \in EventsOf(files) \cup pruned : a < e
    BY <1>4 DEF Below, Seen
<1>10. Below(EventsOf(rotated'), EventsIn(t))
    BY <1>6, <1>8, <1>9 DEF Below
<1>11. disk' = "sound" => Below(pruned', EventsOf(rotated') \cup EventsIn(t))
    BY <1>4, <1>6, <1>8, <1>9 DEF SinkInv, Below
<1>12. accepted' \subseteq Whole(rotated') \cup Complete(t) \cup pruned'
    BY <1>1, <1>4, <1>6, <1>8 DEF SinkInv
<1>13. bufErr' \/ Ended(t)
    BY <1>1, <1>6
<1>14. size' >= Len(t)
    BY <1>1, <1>6
<1>15. SinkInv'
    BY <1>6, <1>7, <1>8, <1>10, <1>11, <1>12, <1>13, <1>14 DEF SinkInv
<1>16. Seen' \subseteq Seen \cup {e}
    BY <1>1, <1>4, <1>6, <1>7, <1>8 DEF Seen
<1> QED BY <1>8, <1>15, <1>16

(* Or they put the bytes aside and cannot open another file.               *)
LEMMA SinkSetsAside ==
    ASSUME FilesTyped, SinkInv, rotated' = Append(rotated, Lines), Lines' = <<>>,
           UNCHANGED <<accepted, fresh, firsts, pruned, size, disk>>
    PROVE  SinkInv' /\ rotated' \in Seq(Seq(Byte)) /\ Seen' \subseteq Seen
<1>1. Lines \in Seq(Byte) /\ rotated \in Seq(Seq(Byte)) /\ size \in Nat
    BY LinesTyped DEF FilesTyped
<1>2. /\ rotated' \in Seq(Seq(Byte)) /\ InLine(rotated', firsts)
      /\ EventsOf(rotated') = EventsOf(rotated) \cup EventsIn(Lines)
      /\ Whole(rotated') = Whole(rotated) \cup Complete(Lines)
    BY <1>1, InLineAppend DEF SinkInv
<1>3. Len(Lines') = 0 /\ EventsIn(Lines') = {} /\ Sound(Lines', firsts) /\ Ended(Lines')
    BY EmptyIsSound
<1>4. Below(EventsOf(rotated'), EventsIn(Lines'))
    BY <1>3 DEF Below
<1>5. disk' = "sound" => Below(pruned', EventsOf(rotated') \cup EventsIn(Lines'))
    BY <1>2, <1>3 DEF SinkInv, Below
<1>6. accepted' \subseteq Whole(rotated') \cup Complete(Lines') \cup pruned'
    BY <1>2 DEF SinkInv
<1>7. SinkInv'
    BY <1>1, <1>2, <1>3, <1>4, <1>5, <1>6 DEF SinkInv
<1> QED BY <1>2, <1>3, <1>7 DEF Seen

(* Or a crash took what was buffered.                                      *)
LEMMA SinkReopens ==
    ASSUME FilesTyped, SinkInv, Lines' = liveFile, size' = Len(liveFile), fresh' = TRUE,
           accepted' = accepted \ EventsIn(lineBuf), UNCHANGED <<rotated, pruned, firsts, disk>>
    PROVE  SinkInv' /\ Seen' \subseteq Seen
<1>1. liveFile \in Seq(Byte) /\ lineBuf \in Seq(Byte) /\ Len(liveFile) \in Nat
    BY LenProperties DEF FilesTyped
<1>2. /\ ToSet(Lines) = ToSet(liveFile) \cup ToSet(lineBuf)
      /\ EventsIn(Lines) = EventsIn(liveFile) \cup EventsIn(lineBuf)
    BY LinesTyped
<1>3. Sound(liveFile, firsts)
    BY <1>1, SoundPart DEF SinkInv, Lines
<1>4. ASSUME NEW e \in Complete(Lines), e \notin EventsIn(lineBuf) PROVE e \in Complete(liveFile)
    <2>1. e \in Event /\ ToSet(Line(e)) \subseteq ToSet(Lines)
        BY DEF Complete
    <2>2. ASSUME NEW b \in ToSet(Line(e)) PROVE b \in ToSet(liveFile)
        <3>1. PICK j \in 1..LineSize(e) : b = <<e, j>>
            BY <2>1, BytesOfLine
        <3>2. b[1] = e
            BY <3>1
        <3>3. b \notin ToSet(lineBuf)
            BY <1>4, <3>2 DEF EventsIn
        <3> QED BY <1>2, <2>1, <3>3
    <2> QED BY <2>1, <2>2 DEF Complete
<1>5. accepted' \subseteq Whole(rotated) \cup Complete(liveFile) \cup pruned
    BY <1>4 DEF SinkInv
<1>6. /\ Below(EventsOf(rotated), EventsIn(liveFile))
      /\ disk = "sound" => Below(pruned, EventsOf(rotated) \cup EventsIn(liveFile))
    BY <1>2 DEF SinkInv, Below
<1>7. SinkInv'
    BY <1>1, <1>3, <1>5, <1>6 DEF SinkInv
<1> QED BY <1>2, <1>7 DEF Seen

-----------------------------------------------------------------------------
(* Concatenation is associative.                                           *)
LEMMA Joined ==
    \A a, b, c \in Seq(Byte) : (a \o b) \o c = a \o (b \o c)
<1> SUFFICES ASSUME NEW a \in Seq(Byte), NEW b \in Seq(Byte), NEW c \in Seq(Byte)
             PROVE  (a \o b) \o c = a \o (b \o c)
    OBVIOUS
<1> QED BY ConcatAssociative

(* Lines written through from the buffer are the same lines.               *)
LEMMA CutAndJoined ==
    ASSUME NEW a \in Seq(Byte), NEW b \in Seq(Byte), NEW k \in 0..Len(b)
    PROVE  /\ a \o SubSeq(b, 1, k) \in Seq(Byte) /\ SubSeq(b, k + 1, Len(b)) \in Seq(Byte)
           /\ (a \o SubSeq(b, 1, k)) \o SubSeq(b, k + 1, Len(b)) = a \o b
<1>1. Len(b) \in Nat /\ \A i \in 1..Len(b) : b[i] \in Byte
    BY LenProperties, ElementOfSeq
<1>2. /\ SubSeq(b, 1, k) \in Seq(Byte) /\ SubSeq(b, k + 1, Len(b)) \in Seq(Byte)
    BY SetOfParts
<1>3. SubSeq(b, 1, k) \o SubSeq(b, k + 1, Len(b)) = b
    <2>1. SubSeq(b, 1, k) \o SubSeq(b, k + 1, Len(b)) = SubSeq(b, 1, Len(b))
        <3>1. k + 1 \in 1..Len(b) + 1 /\ k \in (1 - 1)..Len(b) /\ Len(b) \in k..Len(b) /\ 1 \in 1..Len(b) + 1
            BY <1>1
        <3> QED BY <3>1, ConcatAdjacentSubSeq
    <2> QED BY <2>1, SubSeqFull
<1> DEFINE b1 == SubSeq(b, 1, k)
           b2 == SubSeq(b, k + 1, Len(b))
<1>4. b1 \in Seq(Byte) /\ b2 \in Seq(Byte) /\ b1 \o b2 = b
    BY <1>2, <1>3
<1> HIDE DEF b1, b2
<1>5. (a \o b1) \o b2 = a \o (b1 \o b2) /\ a \o b1 \in Seq(Byte)
    <2>1. a \o b1 \in Seq(Byte)
        BY <1>4, ConcatProperties
    <2>2. (a \o b1) \o b2 = a \o (b1 \o b2)
        BY <1>4, Joined, Zenon
    <2> QED BY <2>1, <2>2
<1>6. (a \o b1) \o b2 = a \o b
    BY <1>4, <1>5
<1> QED BY <1>4, <1>5, <1>6 DEF b1, b2

(* A flush, whole or in part, loses no line.                               *)
LEMMA FlushKeepsLines ==
    ASSUME FilesTyped, FlushOK \/ FlushFails \/ FlushBroken
    PROVE  liveFile' \in Seq(Byte) /\ lineBuf' \in Seq(Byte) /\ Lines' = Lines
<1>1. liveFile \in Seq(Byte) /\ lineBuf \in Seq(Byte) /\ Len(lineBuf) \in Nat
    BY LenProperties DEF FilesTyped
<1>2. ASSUME NEW k \in 0..Len(lineBuf), Reached(k)
      PROVE  liveFile' \in Seq(Byte) /\ lineBuf' \in Seq(Byte) /\ Lines' = Lines
    BY <1>1, <1>2, CutAndJoined DEF Reached, Lines
<1>3. CASE FlushBroken
    BY <1>1, <1>3 DEF FlushBroken, Lines
<1>4. CASE FlushOK
    BY <1>1, <1>2, <1>4 DEF FlushOK
<1>5. CASE FlushFails /\ ~FlushBroken
    <2>1. PICK k \in 0..Len(lineBuf) - 1 : Reached(k)
        BY <1>5 DEF FlushFails
    <2>2. k \in 0..Len(lineBuf)
        BY <1>1, <2>1
    <2> QED BY <1>2, <2>1, <2>2
<1> QED BY <1>3, <1>4, <1>5

(* What is buffered, or written through, comes last.                       *)
LEMMA TakesAppends ==
    ASSUME NEW e \in Event, NEW n \in 0..LineSize(e), NEW buf \in Seq(Byte),
           NEW bytes \in Seq(Byte), Takes(e, n, buf, bytes)
    PROVE  /\ liveFile' \in Seq(Byte) /\ lineBuf' \in Seq(Byte)
           /\ Lines' = (bytes \o buf) \o SubSeq(Line(e), 1, n)
<1> DEFINE p == SubSeq(Line(e), 1, n)
           all == buf \o p
<1>1. p \in Seq(Byte)
    BY LinePart
<1>2. PICK k \in 0..Len(all) : /\ liveFile' = bytes \o SubSeq(all, 1, k)
                               /\ lineBuf' = SubSeq(all, k + 1, Len(all))
    BY DEF Takes
<1> HIDE DEF p
<1>3. all \in Seq(Byte) /\ (bytes \o buf) \o p = bytes \o all
    <2>1. all \in Seq(Byte)
        BY <1>1, ConcatProperties
    <2>2. (bytes \o buf) \o p = bytes \o (buf \o p)
        BY <1>1, Joined, Zenon
    <2> QED BY <2>1, <2>2
<1> HIDE DEF all
<1>4. liveFile' \in Seq(Byte) /\ lineBuf' \in Seq(Byte) /\ liveFile' \o lineBuf' = bytes \o all
    BY <1>2, <1>3, CutAndJoined
<1>5. Lines' = (bytes \o buf) \o p
    BY <1>3, <1>4 DEF Lines
<1> QED BY <1>4, <1>5 DEF p

-----------------------------------------------------------------------------
(* What an operation of the Sink leaves: its files sound, and no event it  *)
(* was not given.                                                          *)
SinkKept(given) ==
    /\ SinkInv' /\ Seen' \subseteq Seen \cup given
    /\ liveFile' \in Seq(Byte) /\ lineBuf' \in Seq(Byte)
    /\ rotated' \in Seq(Seq(Byte)) /\ size' \in Nat

(* An operation that moves no byte and takes no event.                     *)
LEMMA SameLines ==
    ASSUME FilesTyped, SinkInv, liveFile' \in Seq(Byte), lineBuf' \in Seq(Byte), bufErr => bufErr',
           Lines' = Lines, UNCHANGED <<rotated, pruned, accepted, fresh, firsts, size, disk>>
    PROVE  SinkKept({})
<1>1. SinkInv'
    BY SinkStays
<1> QED BY <1>1 DEF SinkKept, Seen, FilesTyped

(* A flush does not repair the buffer.                                     *)
LEMMA FlushErr ==
    ASSUME FlushOK \/ FlushFails \/ FlushBroken PROVE bufErr => bufErr'
BY DEF FlushOK, FlushFails, FlushBroken

(* s.w.Write takes the line, or some of its bytes.                         *)
LEMMA WriteLineTakes ==
    ASSUME NEW e \in Event, NEW buf \in Seq(Byte), NEW bytes \in Seq(Byte), NEW count \in Nat,
           WriteLine(e, buf, bytes, count)
    PROVE  \E n \in 0..LineSize(e) :
              /\ Answered(e, n) /\ size' = count + n /\ size' \in Nat
              /\ liveFile' \in Seq(Byte) /\ lineBuf' \in Seq(Byte)
              /\ Lines' = (bytes \o buf) \o SubSeq(Line(e), 1, n)
<1>0. LineSize(e) \in Nat /\ LineSize(e) >= 1
    BY CaptureAssumption DEF LineSize
<1>1. PICK n \in 0..LineSize(e) : Answered(e, n) /\ Takes(e, n, buf, bytes) /\ size' = count + n
    <2>1. CASE /\ Accepts(e) /\ Takes(e, LineSize(e), buf, bytes)
               /\ size' = count + LineSize(e) /\ UNCHANGED bufErr
        <3>1. LineSize(e) \in 0..LineSize(e)
            BY <1>0
        <3> QED BY <2>1, <3>1 DEF Answered
    <2>2. CASE /\ Refuses(e) /\ bufErr' = TRUE
               /\ \E n \in 0..LineSize(e) - 1 : Takes(e, n, buf, bytes) /\ size' = count + n
        <3>1. PICK n \in 0..LineSize(e) - 1 : Takes(e, n, buf, bytes) /\ size' = count + n
            BY <2>2
        <3>2. n \in 0..LineSize(e)
            BY <1>0, <3>1
        <3> QED BY <2>2, <3>1, <3>2 DEF Answered
    <2> QED BY <2>1, <2>2 DEF WriteLine
<1>2. /\ liveFile' \in Seq(Byte) /\ lineBuf' \in Seq(Byte)
      /\ Lines' = (bytes \o buf) \o SubSeq(Line(e), 1, n)
    BY <1>1, TakesAppends
<1>3. size' \in Nat
    BY <1>0, <1>1
<1> QED BY <1>1, <1>2, <1>3

(* Write of a line for which the file has room.                            *)
LEMMA WriteFittingKeeps ==
    ASSUME FilesTyped, SinkInv, NEW e \in Event, Below(Seen, {e}), ~NeedsRotation(e),
           WriteFitting(e), UNCHANGED disk
    PROVE  SinkKept({e})
<1>0. /\ liveFile \in Seq(Byte) /\ lineBuf \in Seq(Byte) /\ size \in Nat
      /\ rotated \in Seq(Seq(Byte))
    BY DEF FilesTyped
<1>1. CASE Refuses(e) /\ UNCHANGED sinkVars
    <2>1. SinkKept({})
        BY <1>0, <1>1, SameLines DEF Refuses, Lines, sinkVars
    <2> QED BY <2>1 DEF SinkKept
<1>2. CASE /\ ~bufErr /\ WriteLine(e, lineBuf, liveFile, size)
           /\ UNCHANGED <<file, rotated, pruned>>
    <2>1. PICK n \in 0..LineSize(e) :
              /\ Answered(e, n) /\ size' = size + n /\ size' \in Nat
              /\ liveFile' \in Seq(Byte) /\ lineBuf' \in Seq(Byte)
              /\ Lines' = (liveFile \o lineBuf) \o SubSeq(Line(e), 1, n)
        BY <1>0, <1>2, WriteLineTakes
    <2>2. Lines' = Lines \o SubSeq(Line(e), 1, n)
        BY <2>1 DEF Lines
    <2>3. SinkInv' /\ Seen' \subseteq Seen \cup {e}
        BY <1>2, <2>1, <2>2, SinkTakes
    <2> QED BY <1>0, <1>2, <2>1, <2>3 DEF SinkKept
<1> QED BY <1>1, <1>2 DEF WriteFitting

(* Write of a line that needs another file.                                *)
LEMMA WriteRotatingKeeps ==
    ASSUME FilesTyped, SinkInv, NEW e \in Event, Below(Seen, {e}),
           WriteRotating(e), UNCHANGED disk
    PROVE  SinkKept({e})
<1>0. /\ liveFile \in Seq(Byte) /\ lineBuf \in Seq(Byte) /\ size \in Nat
      /\ rotated \in Seq(Seq(Byte)) /\ Lines \in Seq(Byte) /\ <<>> \in Seq(Byte)
    BY LinesTyped DEF FilesTyped
<1>1. CASE /\ FlushFails \/ FlushOK
           /\ Refuses(e) /\ UNCHANGED <<size, rotated, pruned>>
    <2>1. SinkKept({})
        BY <1>1, FlushKeepsLines, FlushErr, SameLines DEF Refuses
    <2> QED BY <2>1 DEF SinkKept
<1>2. CASE /\ Refuses(e) /\ lineBuf' = <<>> /\ UNCHANGED <<bufErr, size, pruned>>
           /\ liveFile' = liveFile \o lineBuf /\ UNCHANGED rotated
    <2>1. liveFile' \in Seq(Byte) /\ lineBuf' \in Seq(Byte) /\ Lines' = Lines
        BY <1>0, <1>2, ConcatEmptySeq DEF Lines
    <2>2. SinkKept({})
        BY <1>2, <2>1, SameLines DEF Refuses
    <2> QED BY <2>2 DEF SinkKept
<1>3. CASE /\ Refuses(e) /\ lineBuf' = <<>> /\ UNCHANGED <<bufErr, size, pruned>>
           /\ liveFile' = <<>> /\ rotated' = Append(rotated, liveFile \o lineBuf)
    <2>1. Lines' = <<>> /\ rotated' = Append(rotated, Lines)
        BY <1>0, <1>3, ConcatEmptySeq DEF Lines
    <2>2. SinkInv' /\ rotated' \in Seq(Seq(Byte)) /\ Seen' \subseteq Seen
        BY <1>3, <2>1, SinkSetsAside DEF Refuses
    <2> QED BY <1>0, <1>3, <2>2 DEF SinkKept
<1>4. CASE /\ Prunes(Append(rotated, liveFile \o lineBuf))
           /\ WriteLine(e, <<>>, <<>>, OpenSize(<<>>))
    <2>1. OpenSize(<<>>) = 0
        BY DEF OpenSize
    <2>2. PICK n \in 0..LineSize(e) :
              /\ Answered(e, n) /\ size' = 0 + n /\ size' \in Nat
              /\ liveFile' \in Seq(Byte) /\ lineBuf' \in Seq(Byte)
              /\ Lines' = (<<>> \o <<>>) \o SubSeq(Line(e), 1, n)
        <3>1. ASSUME NEW o, o = <<>>, WriteLine(e, o, o, 0)
              PROVE  \E n \in 0..LineSize(e) :
                        /\ Answered(e, n) /\ size' = 0 + n /\ size' \in Nat
                        /\ liveFile' \in Seq(Byte) /\ lineBuf' \in Seq(Byte)
                        /\ Lines' = (o \o o) \o SubSeq(Line(e), 1, n)
            <4>1. o \in Seq(Byte) /\ 0 \in Nat
                BY <1>0, <3>1
            <4> QED BY <3>1, <4>1, WriteLineTakes
        <3>2. WriteLine(e, <<>>, <<>>, 0)
            BY <1>4, <2>1
        <3> QED BY <3>1, <3>2
    <2>3. <<>> \o <<>> = <<>>
        BY <1>0, ConcatEmptySeq
    <2>4. Lines' = <<>> \o SubSeq(Line(e), 1, n) /\ size' = n
        BY <2>2, <2>3
    <2>5. SinkInv' /\ rotated' \in Seq(Seq(Byte)) /\ Seen' \subseteq Seen \cup {e}
        BY <1>4, <2>2, <2>4, SinkRotates DEF Lines
    <2> QED BY <2>2, <2>5 DEF SinkKept
<1> QED BY <1>1, <1>2, <1>3, <1>4 DEF WriteRotating

(* Write, for an event newer than all the Sink has seen.                   *)
LEMMA WriteKeepsFiles ==
    ASSUME FilesTyped, SinkInv, NEW e \in Event, Below(Seen, {e}), Write(e), UNCHANGED disk
    PROVE  SinkKept({e})
<1>1. CASE Refuses(e) /\ UNCHANGED sinkVars
    <2>1. SinkKept({})
        BY <1>1, SameLines DEF Refuses, sinkVars, Lines, FilesTyped
    <2> QED BY <2>1 DEF SinkKept
<1>2. CASE ~NeedsRotation(e) /\ WriteFitting(e)
    BY <1>2, WriteFittingKeeps
<1>3. CASE NeedsRotation(e) /\ WriteRotating(e)
    BY <1>3, WriteRotatingKeeps
<1> QED BY <1>1, <1>2, <1>3 DEF Write

(* Flush and Close.                                                        *)
LEMMA FlushKeepsSink ==
    ASSUME FilesTyped, SinkInv, Flush \/ SinkCloses, UNCHANGED <<outcomeVars, disk>>
    PROVE  SinkKept({})
<1>1. CASE UNCHANGED sinkVars
    BY <1>1, SameLines DEF sinkVars, outcomeVars, Lines, FilesTyped
<1>2. CASE (FlushOK \/ FlushFails \/ FlushBroken) /\ UNCHANGED <<size, rotated, pruned>>
    BY <1>2, FlushKeepsLines, FlushErr, SameLines DEF outcomeVars
<1> QED BY <1>1, <1>2 DEF Flush, SinkCloses

-----------------------------------------------------------------------------
(* A step that leaves the recorder's channel alone.                        *)
LEMMA QueueStays ==
    ASSUME FileInv, SinkKept({}), UNCHANGED <<recorded, events>>
    PROVE  FileInv'
<1>1. FilesTyped'
    BY DEF FileInv, FilesTyped, SinkKept
<1>2. QueueInv'
    BY DEF FileInv, QueueInv, SinkKept, Below
<1> QED BY <1>1, <1>2 DEF FileInv, SinkKept

(* Record puts the newest event last, or drops it.                         *)
LEMMA RecordKeeps ==
    ASSUME FileInv, RecordEvent PROVE FileInv'
<1> DEFINE e == recorded + 1
<1>0. /\ recorded \in Nat /\ recorded < MaxEvents /\ recorded' = e /\ e \in Event
      /\ MaxEvents \in Nat /\ events \in Seq(Event) /\ Len(events) \in Nat
    BY CaptureAssumption, LenProperties DEF FileInv, FilesTyped, RecordEvent, Event
<1>1. UNCHANGED <<rotated, pruned, accepted, fresh, firsts, bufErr, size, disk, Lines, liveFile,
                  lineBuf, Seen>>
    BY DEF RecordEvent, sinkVars, outcomeVars, Lines, Seen
<1>2. SinkInv'
    BY <1>1, SinkStays DEF FileInv
<1>3. /\ Increasing(events) /\ Below(Seen, ToSet(events))
      /\ Seen \cup ToSet(events) \subseteq 1..recorded
    BY DEF FileInv, QueueInv
<1>4. CASE events' = events
    <2>1. FilesTyped'
        BY <1>0, <1>1, <1>4 DEF FileInv, FilesTyped, Event
    <2>2. 1..recorded \subseteq 1..recorded'
        BY <1>0
    <2>3. QueueInv'
        BY <1>1, <1>3, <1>4, <2>2 DEF QueueInv
    <2> QED BY <1>2, <2>1, <2>3 DEF FileInv
<1>5. CASE events' = Append(events, e)
    <2> DEFINE n == Len(events)
    <2>1. /\ events' \in Seq(Event) /\ Len(events') = n + 1 /\ events'[n + 1] = e
          /\ \A i \in 1..n : events'[i] = events[i] /\ events[i] \in ToSet(events)
          /\ ToSet(events') = ToSet(events) \cup {e}
        BY <1>0, <1>5, AppendProperties, SetOfAppend, Members
    <2>2. FilesTyped'
        BY <1>0, <1>1, <2>1 DEF FileInv, FilesTyped, Event
    <2>3. \A x \in Seen \cup ToSet(events) : x < e /\ x \in 1..recorded'
        BY <1>0, <1>3
    <2>4. ASSUME NEW i \in 1..Len(events'), NEW j \in 1..Len(events'), i < j
          PROVE  events'[i] < events'[j]
        <3>1. i \in 1..n
            BY <1>0, <2>1, <2>4
        <3>2. CASE j \in 1..n
            BY <1>3, <2>1, <2>4, <3>1, <3>2 DEF Increasing
        <3>3. CASE j = n + 1
            BY <2>1, <2>3, <3>1, <3>3
        <3> QED BY <1>0, <2>1, <3>2, <3>3
    <2>5. Increasing(events)'
        BY <2>4 DEF Increasing
    <2>6. Below(Seen, ToSet(events))'
        BY <1>1, <1>3, <2>1, <2>3 DEF Below
    <2>7. Seen' \cup ToSet(events') \subseteq 1..recorded'
        BY <1>0, <1>1, <2>1, <2>3
    <2> QED BY <1>2, <2>2, <2>5, <2>6, <2>7 DEF FileInv, QueueInv
<1> QED BY <1>4, <1>5 DEF RecordEvent

(* The flusher writes the oldest event of the channel.                     *)
LEMMA ConsumeKeeps ==
    ASSUME FileInv, Consume PROVE FileInv'
<1> DEFINE e == Head(events)
           n == Len(events)
<1>0. /\ recorded \in Nat /\ events \in Seq(Event) /\ events # <<>> /\ n \in Nat
      /\ events' = Tail(events) /\ Write(e) /\ UNCHANGED <<recorded, disk>>
    BY LenProperties DEF FileInv, FilesTyped, Consume
<1>1. /\ events' \in Seq(Event) /\ e \in Event /\ Len(events') = n - 1 /\ n >= 1
      /\ \A i \in 1..n - 1 : events'[i] = events[i + 1]
    BY <1>0, HeadTailProperties, LenProperties, EmptySeq
<1>2. e = events[1]
    BY <1>0
<1>3. /\ Increasing(events) /\ Below(Seen, ToSet(events))
      /\ Seen \cup ToSet(events) \subseteq 1..recorded
    BY DEF FileInv, QueueInv
<1>4. /\ \A x : x \in ToSet(events) <=> \E i \in 1..n : events[i] = x
      /\ \A x : x \in ToSet(events') <=> \E i \in 1..Len(events') : events'[i] = x
    <2>1. \A s \in Seq(Event) : \A x : x \in ToSet(s) <=> \E i \in 1..Len(s) : s[i] = x
        BY Members
    <2> QED BY <1>0, <1>1, <2>1
<1>5. e \in ToSet(events)
    BY <1>1, <1>2, <1>4
<1>6. ASSUME NEW x \in ToSet(events') PROVE e < x /\ x \in ToSet(events)
    <2>1. PICK i \in 1..n - 1 : events[i + 1] = x
        BY <1>1, <1>4, <1>6
    <2>2. i + 1 \in 1..n /\ 1 < i + 1 /\ 1 \in 1..n
        BY <1>0, <1>1, <2>1
    <2> QED BY <1>2, <1>3, <1>4, <2>1, <2>2 DEF Increasing
<1>7. Below(Seen, {e})
    BY <1>3, <1>5 DEF Below
<1> HIDE DEF e
<1>8. SinkKept({e})
    BY <1>0, <1>1, <1>7, WriteKeepsFiles DEF FileInv
<1>9. Increasing(events)'
    <2> SUFFICES ASSUME NEW i \in 1..Len(events'), NEW j \in 1..Len(events'), i < j
                 PROVE  events'[i] < events'[j]
        BY DEF Increasing
    <2>1. /\ i \in 1..n - 1 /\ j \in 1..n - 1 /\ i + 1 \in 1..n /\ j + 1 \in 1..n
          /\ i + 1 < j + 1
        BY <1>0, <1>1
    <2> QED BY <1>1, <1>3, <2>1 DEF Increasing
<1>10. Below(Seen, ToSet(events))'
    BY <1>3, <1>6, <1>8 DEF Below, SinkKept
<1>11. Seen' \cup ToSet(events') \subseteq 1..recorded'
    BY <1>0, <1>3, <1>5, <1>6, <1>8 DEF SinkKept
<1>12. FilesTyped'
    BY <1>0, <1>1, <1>8 DEF FilesTyped, SinkKept
<1> QED BY <1>8, <1>9, <1>10, <1>11, <1>12 DEF FileInv, QueueInv, SinkKept

(* A crash loses the channel and the buffer, and nothing of the files.     *)
LEMMA CrashKeeps ==
    ASSUME FileInv, CrashAndReopen PROVE FileInv'
<1>0. /\ liveFile \in Seq(Byte) /\ rotated \in Seq(Seq(Byte)) /\ recorded \in Nat
      /\ <<>> \in Seq(Byte) /\ <<>> \in Seq(Event) /\ Len(liveFile) \in Nat
    BY LenProperties DEF FileInv, FilesTyped
<1>1. /\ lineBuf' = <<>> /\ events' = <<>> /\ size' = Len(liveFile) /\ fresh' = TRUE
      /\ accepted' = accepted \ EventsIn(lineBuf)
      /\ UNCHANGED <<recorded, disk, liveFile, rotated, pruned, firsts>>
    BY DEF CrashAndReopen, OpenSize
<1>2. Lines' = liveFile
    BY <1>0, <1>1, ConcatEmptySeq DEF Lines
<1>3. SinkInv' /\ Seen' \subseteq Seen
    BY <1>1, <1>2, SinkReopens DEF FileInv
<1>4. FilesTyped'
    BY <1>0, <1>1 DEF FilesTyped
<1>5. Len(events') = 0 /\ ToSet(events') = {}
    BY <1>1 DEF ToSet
<1>6. QueueInv'
    BY <1>1, <1>3, <1>5 DEF FileInv, QueueInv, Increasing, Below
<1> QED BY <1>3, <1>4, <1>6 DEF FileInv

(* Every step of the recorder keeps the files in order.                    *)
LEMMA FilesStep ==
    ASSUME FileInv, [CaptureNext]_captureVars PROVE FileInv'
<1>0. FilesTyped /\ SinkInv
    BY DEF FileInv
<1>1. ASSUME UNCHANGED <<sinkVars, outcomeVars, disk, recorded, events>> PROVE FileInv'
    <2>1. SinkKept({})
        BY <1>0, <1>1, SameLines DEF sinkVars, outcomeVars, Lines, FilesTyped
    <2> QED BY <1>1, <2>1, QueueStays
<1>2. ASSUME Flush \/ SinkCloses, UNCHANGED <<outcomeVars, disk, recorded, events>> PROVE FileInv'
    BY <1>0, <1>2, FlushKeepsSink, QueueStays
<1>3. CASE UNCHANGED captureVars
    BY <1>1, <1>3 DEF captureVars, recorderVars
<1>4. CASE RecordEvent
    BY <1>4, RecordKeeps
<1>5. CASE Consume
    BY <1>5, ConsumeKeeps
<1>6. CASE TickFlush
    BY <1>2, <1>6 DEF TickFlush, recorderVars
<1>7. CASE StopSeen
    BY <1>1, <1>7 DEF StopSeen
<1>8. CASE FinalSweep
    BY <1>2, <1>8 DEF FinalSweep
<1>9. CASE RunDone
    BY <1>2, <1>9 DEF RunDone
<1>10. CASE CrashAndReopen
    BY <1>10, CrashKeeps
<1>11. ASSUME NEW k \in Closer, CloseRecorder(k) PROVE FileInv'
    BY <1>1, <1>11 DEF CloseRecorder
<1>12. ASSUME NEW k \in Closer, CloseRecorderReturns(k) PROVE FileInv'
    BY <1>1, <1>12 DEF CloseRecorderReturns
<1> QED BY <1>3, <1>4, <1>5, <1>6, <1>7, <1>8, <1>9, <1>10, <1>11, <1>12 DEF CaptureNext

LEMMA FilesStart ==
    ASSUME CaptureInit PROVE FileInv
<1>1. /\ recorded = 0 /\ events = <<>> /\ lineBuf = <<>> /\ liveFile = <<>>
      /\ rotated = <<>> /\ pruned = {} /\ accepted = {} /\ size = 0
    BY DEF CaptureInit
<1>2. FilesTyped
    BY <1>1 DEF FilesTyped
<1>3. Lines = <<>>
    BY <1>1 DEF Lines
<1>4. EventsIn(Lines) = {} /\ Len(Lines) = 0 /\ Sound(Lines, firsts) /\ Ended(Lines)
    BY <1>3, EmptyIsSound
<1>5. ToSet(events) = {} /\ Len(events) = 0 /\ EventsOf(rotated) = {} /\ Len(rotated) = 0
    BY <1>1 DEF ToSet, EventsOf
<1>6. SinkInv
    BY <1>1, <1>4, <1>5 DEF SinkInv, InLine, Below
<1>7. QueueInv
    BY <1>1, <1>4, <1>5 DEF QueueInv, Increasing, Below, Seen
<1> QED BY <1>2, <1>6, <1>7 DEF FileInv

(* Crashes that cut a line in two, failed writes, flushes, renames and     *)
(* removals included, the files the Sink leaves are sound; only the first  *)
(* event accepted after a restart can have lost its line to a cut one.     *)
THEOREM FilesStaySound == CaptureSpec => []FilesAreSound
<1>1. CaptureInit => FileInv
    BY FilesStart
<1>2. FileInv /\ [CaptureNext]_captureVars => FileInv'
    BY FilesStep
<1>3. FileInv => FilesAreSound
    BY FilesFollow DEF FileInv
<1> QED BY <1>1, <1>2, <1>3, PTL DEF CaptureSpec

(* When a Close has returned nil, every event recorded before the first    *)
(* Close was dropped, accepted or refused, and counted; on a sound disk    *)
(* each one that was not dropped, and could be encoded, is in the files,   *)
(* unless its file was pruned (recorder.go, Close and drain; jsonl.go,     *)
(* Write, Flush and Close).                                                *)
THEOREM ClosedRecorderAccounts == CaptureSpec => []CloseMeansOnDisk
<1> DEFINE Inv == AccountInv /\ SoundInv /\ FileInv
<1>1. CaptureInit => Inv
    BY CaptureStarts, FilesStart
<1>2. Inv /\ [CaptureNext]_captureVars => Inv'
    <2>1. Inv => lineBuf \in Seq(Byte)
        BY DEF FileInv, FilesTyped
    <2> QED BY <2>1, AccountStep, SoundStep, FilesStep
<1>3. Inv => CloseMeansOnDisk
    <2> SUFFICES ASSUME Inv, crashes = 0, NEW k \in Closer, closerPc[k] = "nil"
                 PROVE  /\ 1..stopSaw \subseteq Counted
                        /\ disk = "sound" =>
                              1..stopSaw \subseteq droppedEvs \cup Unencodable \cup Stored \cup pruned
        BY DEF CloseMeansOnDisk, Counted
    <2>1. flusher = "done" /\ 1..stopSaw \subseteq Counted /\ firsts = {}
        BY DEF AccountInv
    <2>2. ASSUME disk = "sound"
          PROVE  refused \subseteq Unencodable /\ accepted \subseteq Stored \cup pruned
        <3>1. lineBuf = <<>> /\ refused \subseteq Unencodable
            BY <2>1, <2>2 DEF SoundInv
        <3> QED BY <2>1, <3>1, FlushedIsStored DEF FileInv
    <2> QED BY <2>1, <2>2 DEF Counted
<1> HIDE DEF Inv
<1> QED BY <1>1, <1>2, <1>3, PTL DEF CaptureSpec
=============================================================================
