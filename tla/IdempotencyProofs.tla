------------------------- MODULE IdempotencyProofs -------------------------
(***************************************************************************)
(* idempotency.Manager, for any number of concurrent calls, any            *)
(* fingerprints and any durations.                                         *)
(***************************************************************************)
EXTENDS Idempotency, LockerProofs

(* Every step keeps the types.                                             *)
LEMMA IdemTyped == IdemTypeOK /\ [IdemNext]_idemVars => IdemTypeOK'
<1> SUFFICES ASSUME IdemTypeOK, [IdemNext]_idemVars PROVE IdemTypeOK'
    OBVIOUS
<1> USE LockerAssumption, IdempotencyAssumption
         DEF IdemTypeOK, ghosts, callVars
<1>1. /\ NoRecord \in Record
      /\ \A c \in Client : Claimed(c) \in Record /\ Completed(c) \in Record
    BY DEF NoRecord, Claimed, Completed, Record, State
<1>2. /\ Failure \in Outcome
      /\ \A c \in Client : [kind |-> "executed", by |-> c] \in Outcome
      /\ \A c \in Client, r \in Record : Answer(c, r) \in Outcome
    BY DEF Failure, Answer, Record, Outcome, Counted
<1>a. ASSUME NEW c \in Client, NEW w \in Place, Leave(c, w), UNCHANGED out
      PROVE  CallTypeOK'
    BY <1>1, <1>a DEF Leave, Goto, Plan, CallTypeOK, Verdict
<1>b. ASSUME NEW c \in Client, NEW o \in Outcome, Return(c, o) PROVE CallTypeOK'
    BY <1>1, <1>b DEF Return, Leave, Goto, Plan, CallTypeOK, Verdict, Place
<1>c. ASSUME NEW c \in Client, NEW w \in Place, Goto(c, w),
             UNCHANGED <<plan, got, out>>
      PROVE  CallTypeOK'
    BY <1>c DEF Goto, CallTypeOK
<1>d. ASSUME NEW c \in Client, NEW w \in Place, NEW v \in Verdict, Goto(c, w),
             Plan(c, v), got' = got \/ got' = [got EXCEPT ![c] = rec],
             UNCHANGED out
      PROVE  CallTypeOK'
    BY <1>d DEF Goto, Plan, CallTypeOK
<1>e. ASSUME NEW c \in Client PROVE got[c] \in Record
    BY DEF CallTypeOK
<1> USE <1>1, <1>2 DEF Place, Section, ClaimSection, FinSection, Verdict
<1>3. ASSUME NEW c \in Client, Acquire(c, LockKey, LockTTL) PROVE LockTypeOK'
    <2>1. LockTTL \in Nat /\ LockTTL \in Int
        OBVIOUS
    <2> QED BY <1>3, <2>1 DEF LockTypeOK, Acquire, Sweep, Absent, Lapsed
<1>4. ASSUME NEW c \in Client, Release(c) PROVE LockTypeOK'
    BY <1>4 DEF LockTypeOK, Release, Holds, Absent, Lapsed
<1>5. ASSUME NEW c \in Client, LoseLock(c) \/ UNCHANGED lockVars PROVE LockTypeOK'
    BY <1>5 DEF LockTypeOK, LoseLock, NotHeld, lockVars
<1>6. ASSUME NEW c \in Client, Start(c) PROVE IdemTypeOK'
    BY <1>b, <1>c, <1>5, <1>6 DEF Start
<1>7. ASSUME NEW c \in Client, ClaimLock(c) \/ FinLock(c) PROVE IdemTypeOK'
    BY <1>c, <1>3, <1>7 DEF ClaimLock, FinLock, TakeLock
<1>8. ASSUME NEW c \in Client, ClaimLockFails(c) PROVE IdemTypeOK'
    BY <1>b, <1>5, <1>8 DEF ClaimLockFails
<1>9. ASSUME NEW c \in Client, ClaimRead(c) PROVE IdemTypeOK'
    BY <1>c, <1>d, <1>5, <1>9 DEF ClaimRead
<1>10. ASSUME NEW c \in Client, ClaimWrite(c) PROVE IdemTypeOK'
    BY <1>d, <1>5, <1>10 DEF ClaimWrite
<1>11. ASSUME NEW c \in Client, ClaimUnlock(c) PROVE IdemTypeOK'
    BY <1>b, <1>c, <1>e, <1>4, <1>11 DEF ClaimUnlock
<1>12. ASSUME NEW c \in Client, ClaimUnlockFails(c) PROVE IdemTypeOK'
    BY <1>b, <1>5, <1>12 DEF ClaimUnlockFails
<1>13. ASSUME NEW c \in Client, FnReturns(c) PROVE IdemTypeOK'
    BY <1>d, <1>5, <1>13 DEF FnReturns
<1>14. ASSUME NEW c \in Client, FinLockFails(c) PROVE IdemTypeOK'
    BY <1>b, <1>5, <1>14 DEF FinLockFails, Settle, NotKept
<1>15. ASSUME NEW c \in Client, FinRead(c) PROVE IdemTypeOK'
    BY <1>c, <1>5, <1>15 DEF FinRead
<1>16. ASSUME NEW c \in Client, FinWrite(c) PROVE IdemTypeOK'
    <2>1. CallTypeOK' /\ LockTypeOK'
        BY <1>c, <1>5, <1>16 DEF FinWrite
    <2>2. rec' \in Record /\ unkept' \subseteq Client
        BY <1>16 DEF FinWrite, NotKept
    <2>3. mine' \in [Client -> Nat]
        BY <1>16 DEF FinWrite
    <2> QED BY <1>16, <2>1, <2>2, <2>3 DEF FinWrite
<1>17. ASSUME NEW c \in Client, FinUnlock(c) PROVE IdemTypeOK'
    BY <1>b, <1>4, <1>5, <1>17 DEF FinUnlock, Settle, NotKept
<1>18. ASSUME NEW c \in Client, Die(c) PROVE IdemTypeOK'
    BY <1>a, <1>5, <1>18 DEF Die
<1>19. CASE ClockTick
    <2>1. LockTypeOK'
        <3>1. \A k \in Key : Older(held[k].left) \in Int
            BY DEF Older, LockTypeOK
        <3>2. held' \in [Key -> [owner : Client \cup {NoOne}, left : Int]]
            BY <1>19, <3>1 DEF ClockTick, Tick, LockTypeOK
        <3>3. \A c \in Client : (IF sure[c] = 0 THEN 0 ELSE sure[c] - 1) \in Nat
            BY DEF LockTypeOK
        <3>4. sure' \in [Client -> Nat]
            BY <1>19, <3>3 DEF ClockTick, Tick
        <3> QED BY <1>19, <3>2, <3>4 DEF ClockTick, Tick, LockTypeOK
    <2>2. rec' \in Record
        BY <1>19 DEF ClockTick, Record, Sooner
    <2>3. mine' \in [Client -> Nat]
        BY <1>19 DEF ClockTick, Sooner
    <2> QED BY <1>19, <2>1, <2>2, <2>3 DEF ClockTick, CallTypeOK
<1>20. CASE CloseLocker
    BY <1>20 DEF CloseLocker, Close, LockTypeOK, CallTypeOK, Absent, Lapsed
<1>21. CASE UNCHANGED idemVars
    BY <1>21 DEF idemVars, LockTypeOK, CallTypeOK
<1> QED BY <1>6, <1>7, <1>8, <1>9, <1>10, <1>11, <1>12, <1>13, <1>14, <1>15,
           <1>16, <1>17, <1>18, <1>19, <1>20, <1>21 DEF IdemNext, Work

-----------------------------------------------------------------------------
(* ReplayFaithful, strengthened: whatever is or will be replayed is the    *)
(* recorded effect of a call with the record's own fingerprint.            *)
Genuine(r) == r.state = "completed" => r.claim \in effects /\ r.fp = Fp[r.claim]

ValueInv ==
    /\ Genuine(rec)
    /\ \A c \in Client : Genuine(got[c])
    /\ \A c \in Client : plan[c] = "commit" => c \in effects
    /\ ReplayFaithful

(* Every step keeps completed records genuine, whatever fails.             *)
LEMMA ValueInvIsKept ==
    IdemTypeOK /\ ValueInv /\ [IdemNext]_idemVars => ValueInv'
<1> SUFFICES ASSUME IdemTypeOK, ValueInv, [IdemNext]_idemVars PROVE ValueInv'
    OBVIOUS
<1> USE LockerAssumption, IdempotencyAssumption
    DEF IdemTypeOK, CallTypeOK, ValueInv, ReplayFaithful, Genuine, ghosts,
        callVars
<1>1. effects \subseteq effects'
    BY DEF IdemNext, Work, Start, ClaimLock, FinLock, TakeLock, ClaimLockFails,
           ClaimRead, ClaimWrite, ClaimUnlock, ClaimUnlockFails, FnReturns,
           FinLockFails, FinRead, FinWrite, FinUnlock, Die, ClockTick,
           CloseLocker, idemVars
<1>2. \A c \in Client :
          /\ ~(NoRecord.state = "completed") /\ ~(Claimed(c).state = "completed")
          /\ Completed(c).claim = c /\ Completed(c).fp = Fp[c]
    BY DEF NoRecord, Claimed, Completed
<1>3. \A c \in Client, r \in Record :
          Genuine(r) /\ Answer(c, r).kind = "replayed" =>
              Answer(c, r).by \in effects /\ Fp[Answer(c, r).by] = Fp[c]
    BY DEF Answer
<1>4. ASSUME NEW c \in Client, NEW o \in Outcome, Return(c, o),
             o.kind = "replayed" => o.by \in effects /\ Fp[o.by] = Fp[c],
             rec' = rec
      PROVE  ValueInv'
    BY <1>1, <1>2, <1>4 DEF Return, Leave, Goto, Plan
<1>5. /\ Failure \in Outcome /\ Failure.kind # "replayed"
      /\ \A c \in Client : [kind |-> "executed", by |-> c] \in Outcome
      /\ \A c \in Client, r \in Record : Answer(c, r) \in Outcome
    BY DEF Failure, Answer, Record, Outcome, Counted
<1>6. ASSUME NEW c \in Client, Start(c) PROVE ValueInv'
    BY <1>1, <1>3, <1>4, <1>5, <1>6 DEF Start
<1>7. ASSUME NEW c \in Client,
             \/ ClaimLock(c) \/ FinLock(c) \/ FinRead(c)
      PROVE ValueInv'
    BY <1>1, <1>7 DEF ClaimLock, FinLock, TakeLock, FinRead
<1>8. ASSUME NEW c \in Client, ClaimLockFails(c) \/ ClaimUnlockFails(c)
      PROVE ValueInv'
    BY <1>4, <1>5, <1>8 DEF ClaimLockFails, ClaimUnlockFails
<1>9. ASSUME NEW c \in Client, ClaimRead(c) PROVE ValueInv'
    BY <1>1, <1>9 DEF ClaimRead, Plan
<1>10. ASSUME NEW c \in Client, ClaimWrite(c) PROVE ValueInv'
    BY <1>1, <1>2, <1>10 DEF ClaimWrite, Plan
<1>11. ASSUME NEW c \in Client, ClaimUnlock(c) PROVE ValueInv'
    BY <1>1, <1>3, <1>4, <1>5, <1>11 DEF ClaimUnlock
<1>12. ASSUME NEW c \in Client, FnReturns(c) PROVE ValueInv'
    BY <1>1, <1>12 DEF FnReturns, Plan
<1>13. ASSUME NEW c \in Client, FinLockFails(c) \/ FinUnlock(c) PROVE ValueInv'
    BY <1>4, <1>5, <1>13 DEF FinLockFails, FinUnlock, Settle
<1>14. ASSUME NEW c \in Client, FinWrite(c) PROVE ValueInv'
    BY <1>1, <1>2, <1>14 DEF FinWrite
<1>15. ASSUME NEW c \in Client, Die(c) PROVE ValueInv'
    BY <1>1, <1>2, <1>15 DEF Die, Leave, Plan
<1>16. CASE ClockTick
    BY <1>1, <1>16 DEF ClockTick
<1>17. CASE CloseLocker \/ UNCHANGED idemVars
    BY <1>1, <1>17 DEF CloseLocker, idemVars
<1> QED BY <1>6, <1>7, <1>8, <1>9, <1>10, <1>11, <1>12, <1>13, <1>14, <1>15,
           <1>16, <1>17 DEF IdemNext, Work

(* The store is empty, or holds a record this code cannot read.            *)
LEMMA IdemStarts == IdemInit => IdemTypeOK /\ ValueInv
<1> SUFFICES ASSUME IdemInit PROVE IdemTypeOK /\ ValueInv
    OBVIOUS
<1> USE LockerAssumption, IdempotencyAssumption DEF IdemInit
<1>1. /\ NoRecord \in Record /\ Foreign \in Record /\ Nothing \in Outcome
      /\ \A c \in Client : Unknown(c) \in Record
    BY DEF NoRecord, Foreign, Unknown, Record, State, Nothing, Outcome
<1>2. LockTypeOK
    BY DEF LockInit, LockTypeOK, Absent, Lapsed
<1>3. CallTypeOK
    BY <1>1 DEF CallTypeOK, Place, Verdict
<1>4. ValueInv
    BY DEF ValueInv, Genuine, ReplayFaithful, NoRecord, Foreign, Unknown, Nothing
<1> QED BY <1>1, <1>2, <1>3, <1>4 DEF IdemTypeOK

(* Whatever fails, lapses or dies, a replayed value is the recorded effect *)
(* of a call with the same fingerprint (manager.go, replay and commit).    *)
THEOREM ReplaysAreFaithful == IdemSpec => []ReplayFaithful
<1>1. ValueInv => ReplayFaithful
    BY DEF ValueInv
<1> QED BY <1>1, IdemStarts, IdemTyped, ValueInvIsKept, PTL DEF IdemSpec

-----------------------------------------------------------------------------
(* A call uses the locker through Acquire and Release only.                *)
LEMMA IdemIsALockerClient == IdemSpec => LockSpec
<1>1. IdemInit => LockInit
    BY DEF IdemInit
<1>2. [IdemNext]_idemVars => [LockNext]_lockVars
    <2> SUFFICES ASSUME [IdemNext]_idemVars PROVE [LockNext]_lockVars
        OBVIOUS
    <2>1. ASSUME NEW c \in Client, Acquire(c, LockKey, LockTTL) PROVE LockNext
        BY <2>1, IdempotencyAssumption DEF LockNext
    <2>2. ASSUME NEW c \in Client, Release(c) \/ NotHeld(c) PROVE LockNext
        BY <2>2 DEF LockNext
    <2>3. ASSUME NEW c \in Client, Work(c) PROVE [LockNext]_lockVars
        BY <2>1, <2>2, <2>3
           DEF Work, Start, ClaimLock, ClaimLockFails, ClaimRead, ClaimWrite,
               ClaimUnlock, ClaimUnlockFails, LoseLock, FinLock, FinLockFails,
               FinRead, FinWrite, FinUnlock, TakeLock
    <2>4. ASSUME NEW c \in Client, FnReturns(c) \/ Die(c) PROVE UNCHANGED lockVars
        BY <2>4 DEF FnReturns, Die
    <2>5. CASE ClockTick \/ CloseLocker
        BY <2>5 DEF ClockTick, CloseLocker, LockNext
    <2>6. CASE UNCHANGED idemVars
        BY <2>6 DEF idemVars, lockVars
    <2> QED BY <2>3, <2>4, <2>5, <2>6 DEF IdemNext
<1> QED BY <1>1, <1>2, PTL DEF IdemSpec, LockSpec

(* Whoever is in a critical section holds the lock, for no longer than its *)
(* lease. This is where the hypothesis LeasesHold is used.                 *)
SectionInv ==
    \A c \in Client :
        pc[c] \in Section =>
            handle[c] = LockKey /\ sure[c] > 0 /\ sure[c] <= LockTTL

(* Every step keeps that a call in its section has the lock.               *)
LEMMA SectionInvIsKept ==
    ASSUME LeasesHold, "close" \notin Faults, IdemTypeOK, SectionInv,
           [IdemNext]_idemVars
    PROVE  SectionInv'
<1> USE LockerAssumption, IdempotencyAssumption
    DEF IdemTypeOK, CallTypeOK, LockTypeOK, SectionInv
<1>0. LockTTL \in Nat /\ LockTTL > 0
    OBVIOUS
<1>1. ASSUME NEW c \in Client, ClaimLock(c) \/ FinLock(c) PROVE SectionInv'
    BY <1>0, <1>1 DEF ClaimLock, FinLock, TakeLock, Acquire, Goto
<1>2. ASSUME NEW c \in Client, UNCHANGED lockVars,
             \A d \in Client : pc'[d] \in Section => pc[d] \in Section
      PROVE SectionInv'
    BY <1>2 DEF lockVars
<1>3. ASSUME NEW c \in Client, Release(c), pc'[c] \notin Section,
             \A d \in Client : pc'[d] \in Section => pc[d] \in Section
      PROVE SectionInv'
    BY <1>3 DEF Release
<1>4. ASSUME NEW c \in Client, ClaimUnlock(c) PROVE SectionInv'
    BY <1>3, <1>4 DEF ClaimUnlock, Goto, Return, Leave, Section, ClaimSection,
                      FinSection
<1>5. ASSUME NEW c \in Client, FinUnlock(c) PROVE SectionInv'
    BY <1>2, <1>3, <1>5 DEF FinUnlock, Settle, Goto, Return, Leave, Section,
                      ClaimSection, FinSection, LoseLock, NotHeld, lockVars
<1>6. ASSUME NEW c \in Client,
             \/ Start(c) \/ ClaimLockFails(c) \/ ClaimRead(c) \/ ClaimWrite(c)
             \/ ClaimUnlockFails(c) \/ FnReturns(c) \/ FinLockFails(c)
             \/ FinRead(c) \/ FinWrite(c) \/ Die(c)
      PROVE SectionInv'
    <2>1. UNCHANGED lockVars
        BY <1>6 DEF Start, ClaimLockFails, ClaimRead, ClaimWrite, FnReturns,
                    ClaimUnlockFails, FinLockFails, FinRead, FinWrite, Die,
                    LoseLock, NotHeld
    <2>2. \A d \in Client : pc'[d] \in Section => pc[d] \in Section
        BY <1>6 DEF Start, ClaimLockFails, ClaimRead, ClaimWrite, FnReturns,
                    ClaimUnlockFails, FinLockFails, FinRead, FinWrite, Die,
                    Settle, Return, Leave, Goto, Section, ClaimSection, FinSection
    <2> QED BY <1>2, <1>6, <2>1, <2>2
<1>7. CASE ClockTick
    <2>1. \A c \in Client : pc[c] \in Section => sure[c] > 1
        BY <1>7 DEF ClockTick
    <2>2. \A c \in Client : sure'[c] = IF sure[c] = 0 THEN 0 ELSE sure[c] - 1
        BY <1>7 DEF ClockTick, Tick
    <2> QED BY <1>0, <1>7, <2>1, <2>2 DEF ClockTick, Tick, callVars
<1>8. CASE CloseLocker
    BY <1>8 DEF CloseLocker
<1>9. CASE UNCHANGED idemVars
    BY <1>9 DEF idemVars
<1> QED BY <1>1, <1>4, <1>5, <1>6, <1>7, <1>8, <1>9 DEF IdemNext, Work

-----------------------------------------------------------------------------
(* ClaimHonoured, strengthened by what a call knows of the record between  *)
(* its read and its write, by who may have written what is there, and by   *)
(* how long a fresh claim outlives the lock it was taken under.            *)
Written == {"inflight", "completed"}

ClaimInv ==
    /\ ClaimHonoured
    /\ \A c \in Client : pc[c] = "claimWrite" => ~Found(rec)
    /\ \A c \in Client : pc[c] = "finWrite" => ~Found(rec) \/ rec.claim = c
    /\ IF rec.state \in Written THEN rec.claim \in Client ELSE rec.claim = NoOne
    /\ \A c \in Client :
          rec.state = "completed" /\ rec.claim = c =>
              pc[c] \in {"finUnlock", "done", "dead"}
    /\ LockTTL <= InFlightTTL =>
          \A c \in Client :
              pc[c] = "claimUnlock" /\ plan[c] = "took" => mine[c] >= sure[c]

(* While leases hold, one call at a time is in its section.                *)
LEMMA AloneInSection ==
    ASSUME SectionInv, Exclusive, NEW c \in Client, NEW d \in Client,
           pc[c] \in Section, pc[d] \in Section
    PROVE  c = d
BY DEF SectionInv, Exclusive

(* A step that writes no record, and moves no call into a section's write, *)
(* keeps the invariant.                                                    *)
LEMMA QuietStepKeepsClaimInv ==
    ASSUME IdemTypeOK, ClaimInv, UNCHANGED <<rec, mine>>,
           \A c \in Client : pc'[c] = "claimWrite" => pc[c] = "claimWrite" \/ ~Found(rec),
           \A c \in Client : pc'[c] = "finWrite" =>
                             pc[c] = "finWrite" \/ (Found(rec) /\ rec.claim = c),
           \A c \in Client : pc[c] \in {"finUnlock", "done", "dead"} =>
                             pc'[c] \in {"finUnlock", "done", "dead"},
           \A c \in Client : pc'[c] = "claimUnlock" /\ plan'[c] = "took" =>
                             pc[c] = "claimUnlock" /\ plan[c] = "took" /\ sure'[c] = sure[c]
    PROVE  ClaimInv'
BY DEF ClaimInv, ClaimHonoured, Found, Written

(* Every step keeps what a call knows between its read and its write.      *)
LEMMA ClaimInvIsKept ==
    ASSUME LeasesHold, ~FailOpen, "close" \notin Faults, IdemTypeOK, SectionInv,
           Exclusive, ClaimInv, [IdemNext]_idemVars
    PROVE  ClaimInv'
<1> USE LockerAssumption, IdempotencyAssumption DEF IdemTypeOK, CallTypeOK
<1>0. rec.left \in Nat /\ \A c \in Client : mine[c] \in Nat /\ sure[c] \in Nat
    BY DEF Record, LockTypeOK
<1>1. LoadMisses <=> ~Found(rec)
    BY DEF LoadMisses
<1>2. ASSUME NEW c \in Client, ClaimLock(c) \/ FinLock(c) PROVE ClaimInv'
    BY <1>2, QuietStepKeepsClaimInv
       DEF ClaimLock, FinLock, TakeLock, Acquire, Goto, ghosts, LockTypeOK
<1>3. ASSUME NEW c \in Client,
             \/ Start(c) \/ ClaimLockFails(c) \/ ClaimUnlockFails(c)
             \/ FnReturns(c) \/ FinLockFails(c) \/ Die(c)
      PROVE ClaimInv'
    <2>1. UNCHANGED <<rec, mine, sure>>
        BY <1>3 DEF Start, ClaimLockFails, ClaimUnlockFails, FnReturns,
                    FinLockFails, Die, ghosts, lockVars, LoseLock, NotHeld
    <2>2. /\ \A d \in Client \ {c} : pc'[d] = pc[d] /\ plan'[d] = plan[d]
          /\ pc'[c] \in {"claimLock", "finLock", "done", "dead"}
          /\ pc[c] \in {"finUnlock", "done", "dead"} => pc'[c] \in {"done", "dead"}
        BY <1>3 DEF Start, ClaimLockFails, ClaimUnlockFails, FnReturns,
                    FinLockFails, Die, Settle, Return, Leave, Goto, Plan
    <2> QED BY <1>3, <2>1, <2>2, QuietStepKeepsClaimInv
<1>4. ASSUME NEW c \in Client, ClaimRead(c) PROVE ClaimInv'
    BY <1>1, <1>4, QuietStepKeepsClaimInv
       DEF ClaimRead, Goto, Plan, ghosts, lockVars
<1>5. ASSUME NEW c \in Client, FinRead(c) PROVE ClaimInv'
    BY <1>1, <1>5, QuietStepKeepsClaimInv
       DEF FinRead, LoadHits, Goto, ghosts, lockVars
<1>6. ASSUME NEW c \in Client, ClaimUnlock(c) \/ FinUnlock(c) PROVE ClaimInv'
    <2>1. UNCHANGED <<rec, mine>> /\ \A d \in Client \ {c} : sure'[d] = sure[d]
        BY <1>6 DEF ClaimUnlock, FinUnlock, Release, LoseLock, NotHeld, ghosts,
                    lockVars, LockTypeOK
    <2>2. /\ \A d \in Client \ {c} : pc'[d] = pc[d] /\ plan'[d] = plan[d]
          /\ pc'[c] = "done" \/ (pc[c] = "claimUnlock" /\ pc'[c] = "running")
        BY <1>6 DEF ClaimUnlock, FinUnlock, Settle, Return, Leave, Goto, Plan
    <2> QED BY <1>6, <2>1, <2>2, QuietStepKeepsClaimInv
<1>7. ASSUME NEW c \in Client, ClaimWrite(c) PROVE ClaimInv'
    <2>1. \A d \in Client : mine[d] = 0
        BY <1>0, <1>7 DEF ClaimWrite, ClaimInv, ClaimHonoured, Found
    <2>2. \A d \in Client \ {c} : pc[d] \notin Section /\ pc'[d] = pc[d]
        BY <1>7, AloneInSection
           DEF ClaimWrite, Goto, Section, ClaimSection, FinSection
    <2>3. pc'[c] = "claimUnlock" /\ sure[c] <= LockTTL /\ sure' = sure
        BY <1>7 DEF ClaimWrite, Goto, SectionInv, Section, ClaimSection, lockVars
    <2>4. CASE rec' = Claimed(c)
        <3>1. /\ rec'.state = "inflight" /\ rec'.claim = c
              /\ rec'.left = InFlightTTL
            BY <2>4 DEF Claimed
        <3>2. mine'[c] \in {0, InFlightTTL} /\ \A d \in Client \ {c} : mine'[d] = 0
            BY <1>7, <2>1 DEF ClaimWrite
        <3>3. plan'[c] = "took" => mine'[c] = InFlightTTL
            BY <1>7 DEF ClaimWrite, Plan, Verdict
        <3>4. LockTTL <= InFlightTTL => (plan'[c] = "took" => mine'[c] >= sure'[c])
            BY <1>0, <2>3, <3>3
        <3>5. ClaimHonoured'
            BY <3>1, <3>2 DEF ClaimHonoured
        <3> QED BY <2>2, <2>3, <3>1, <3>4, <3>5
                DEF ClaimInv, Written, Section, ClaimSection, FinSection
    <2>5. CASE rec' # Claimed(c)
        <3>1. rec' = rec /\ mine' = mine /\ plan'[c] = "error"
            BY <1>7, <2>5 DEF ClaimWrite, Plan
        <3>2. \A d \in Client : pc'[d] = "claimUnlock" => d = c
            BY <2>2 DEF Section, ClaimSection
        <3>3. pc[c] = "claimWrite" /\ \A d \in Client : d # c => pc'[d] = pc[d]
            BY <1>7, <2>2 DEF ClaimWrite
        <3> QED BY <2>3, <3>1, <3>2, <3>3, QuietStepKeepsClaimInv
    <2> QED BY <2>4, <2>5
<1>8. ASSUME NEW c \in Client, FinWrite(c) PROVE ClaimInv'
    <2>1. \A d \in Client \ {c} : mine[d] = 0
        BY <1>0, <1>8 DEF FinWrite, ClaimInv, ClaimHonoured, Found
    <2>2. \A d \in Client \ {c} : pc[d] \notin Section /\ pc'[d] = pc[d]
        BY <1>8, AloneInSection
           DEF FinWrite, Goto, Section, ClaimSection, FinSection
    <2>3. pc'[c] = "finUnlock"
        BY <1>8 DEF FinWrite, Goto
    <2>4. \A d \in Client \ {c} : mine'[d] = 0
        BY <1>8, <2>1 DEF FinWrite
    <2>5. CASE rec' = Completed(c) /\ mine'[c] \in {0, RecordTTL}
        <3>1. /\ rec'.state = "completed" /\ rec'.claim = c
              /\ rec'.left = RecordTTL
            BY <2>5 DEF Completed
        <3> QED BY <2>2, <2>3, <2>4, <2>5, <3>1
                DEF ClaimInv, ClaimHonoured, Written, Section, ClaimSection,
                    FinSection
    <2>6. CASE rec' \in {rec, NoRecord} /\ mine'[c] = 0
        <3>1. \A d \in Client : mine'[d] = 0
            BY <2>4, <2>6
        <3>2. NoRecord.state = "none" /\ NoRecord.claim = NoOne
            BY DEF NoRecord
        <3>3. rec' = NoRecord => ClaimInv'
            BY <2>2, <2>3, <3>1, <3>2
               DEF ClaimInv, ClaimHonoured, Written, Section, ClaimSection,
                   FinSection
        <3>4. rec' = rec => ClaimInv'
            BY <2>2, <2>3, <3>1
               DEF ClaimInv, ClaimHonoured, Written, Section, ClaimSection,
                   FinSection
        <3> QED BY <2>6, <3>3, <3>4
    <2> QED BY <1>8, <2>5, <2>6 DEF FinWrite
<1>9. CASE ClockTick
    <2>1. /\ rec'.state = rec.state /\ rec'.claim = rec.claim
          /\ rec'.left = Sooner(rec.left) /\ rec.left \in Nat
        BY <1>9 DEF ClockTick, Record
    <2>2. \A c \in Client : mine'[c] = Sooner(mine[c]) /\ mine[c] \in Nat
        BY <1>9 DEF ClockTick
    <2>3. Found(rec') => Found(rec)
        BY <2>1 DEF Found, Sooner
    <2>4. \A c \in Client : /\ sure[c] \in Nat
                            /\ sure'[c] = IF sure[c] = 0 THEN 0 ELSE sure[c] - 1
        BY <1>9 DEF ClockTick, Tick, LockTypeOK
    <2>5. ClaimHonoured'
        BY <2>1, <2>2 DEF ClaimInv, ClaimHonoured, Sooner
    <2>6. LockTTL <= InFlightTTL =>
              \A c \in Client :
                  pc'[c] = "claimUnlock" /\ plan'[c] = "took" => mine'[c] >= sure'[c]
        BY <1>9, <2>2, <2>4 DEF ClaimInv, ClockTick, callVars, Sooner
    <2> QED BY <1>9, <2>1, <2>3, <2>5, <2>6
            DEF ClaimInv, ClockTick, callVars
<1>10. CASE CloseLocker
    BY <1>10 DEF CloseLocker
<1>11. CASE UNCHANGED idemVars
    BY <1>11, QuietStepKeepsClaimInv DEF idemVars
<1> QED BY <1>2, <1>3, <1>4, <1>5, <1>6, <1>7, <1>8, <1>9, <1>10, <1>11
        DEF IdemNext, Work

-----------------------------------------------------------------------------
IdemInv == IdemTypeOK /\ SectionInv /\ ClaimInv

(* Nobody has called, and nobody has the lock.                             *)
LEMMA IdemInvStarts == IdemInit => IdemInv
<1> SUFFICES ASSUME IdemInit PROVE IdemInv
    OBVIOUS
<1>1. SectionInv
    BY DEF IdemInit, SectionInv, Section, ClaimSection, FinSection
<1>2. ClaimInv
    <2>1. rec.state \notin Written /\ rec.claim = NoOne
        BY DEF IdemInit, NoRecord, Foreign, Unknown, Written
    <2> QED BY <2>1 DEF ClaimInv, ClaimHonoured, IdemInit, Written
<1> QED BY <1>1, <1>2, IdemStarts DEF IdemInv

(* The invariants hold together, since each step of one uses the others.   *)
LEMMA IdemInvHolds ==
    ASSUME LeasesHold, ~FailOpen, "close" \notin Faults
    PROVE  IdemSpec => [](IdemInv /\ Exclusive)
<1>1. IdemInv /\ Exclusive /\ [IdemNext]_idemVars => IdemInv'
    BY IdemTyped, SectionInvIsKept, ClaimInvIsKept DEF IdemInv
<1> QED BY <1>1, IdemInvStarts, IdemIsALockerClient, MutualExclusion, PTL
        DEF IdemSpec

(* Only the owner of a claim completes or releases it, and nobody else can *)
(* claim the key while the claim, or the recorded result, has time left    *)
(* (doc.go, "Two records, one owner"): as long as the two store round trips*)
(* of a critical section fit in the lock's lease and reads fail closed.    *)
THEOREM ClaimsAreHonoured ==
    ASSUME LeasesHold, ~FailOpen, "close" \notin Faults
    PROVE  IdemSpec => []ClaimHonoured
<1>1. IdemInv => ClaimHonoured
    BY DEF IdemInv, ClaimInv
<1> QED BY <1>1, IdemInvHolds, PTL

(* fn never starts while another call's claim or recorded result has time  *)
(* left (manager.go: "Do runs fn at most once for key"). It takes a claim  *)
(* that outlives the lock it is written under: nothing in the code makes   *)
(* InFlightTTL at least the ScopedLocker's lease.                          *)
THEOREM FnStartsAlone ==
    ASSUME LeasesHold, ~FailOpen, "close" \notin Faults, LockTTL <= InFlightTTL
    PROVE  IdemSpec => StartsAlone
<1> DEFINE Begins == \A c \in Client :
                        (pc[c] # "running" /\ pc'[c] = "running") =>
                            \A d \in Client \ {c} : mine[d] = 0
<1>1. IdemInv /\ Exclusive /\ [IdemNext]_idemVars => [Begins]_idemVars
    <2> SUFFICES ASSUME IdemInv, IdemNext, NEW c \in Client,
                        pc[c] # "running", pc'[c] = "running"
                 PROVE  \A d \in Client \ {c} : mine[d] = 0
        BY DEF idemVars
    <2>1. ClaimUnlock(c) /\ plan[c] = "took"
        BY DEF IdemInv, IdemTypeOK, CallTypeOK, IdemNext, Work, Start, ClaimLock,
               ClaimLockFails, ClaimRead, ClaimWrite, ClaimUnlock,
               ClaimUnlockFails, FnReturns, FinLock, FinLockFails, FinRead,
               FinWrite, FinUnlock, TakeLock, Settle, Return, Leave, Goto, Die,
               ClockTick, CloseLocker, callVars
    <2>2. mine[c] >= sure[c] /\ sure[c] > 0
        BY <2>1 DEF ClaimUnlock, IdemInv, ClaimInv, SectionInv, Section, ClaimSection
    <2>3. mine[c] > 0
        BY <2>2 DEF IdemInv, IdemTypeOK, LockTypeOK
    <2>4. rec.claim = c
        BY <2>3 DEF IdemInv, ClaimInv, ClaimHonoured
    <2> QED BY <2>4 DEF IdemInv, ClaimInv, ClaimHonoured, IdemTypeOK
<1> QED BY <1>1, IdemInvHolds, PTL DEF IdemSpec, StartsAlone

(* The record implements OneShot (manager.go, claim, commit and release).  *)
THEOREM ManagerIsOneShot ==
    ASSUME LeasesHold, ~FailOpen, "close" \notin Faults
    PROVE  IdemSpec => OneShotSpec
<1> USE LockerAssumption, IdempotencyAssumption
<1>1. IdemInit => Slot!Init
    BY DEF IdemInit, Slot!Init, SlotBar, Found, NoRecord, Foreign, Unknown,
           Slot!Free, Slot!Opaque
<1>2. IdemInv /\ Exclusive /\ [IdemNext]_idemVars => [Slot!Next]_SlotBar
    <2> SUFFICES ASSUME IdemInv, [IdemNext]_idemVars PROVE [Slot!Next]_SlotBar
        OBVIOUS
    <2>1. ASSUME rec' = rec PROVE SlotBar' = SlotBar
        BY <2>1 DEF SlotBar
    <2>2. ASSUME NEW c \in Client, ClaimWrite(c) PROVE [Slot!Next]_SlotBar
        <3>1. SlotBar = Slot!Free
            BY <2>2 DEF IdemInv, ClaimInv, ClaimWrite, SlotBar, Slot!Free
        <3>2. rec' = Claimed(c) => SlotBar' = Slot!Taken(c)
            BY DEF SlotBar, Found, Claimed, Slot!Taken
        <3> QED BY <2>1, <2>2, <3>1, <3>2 DEF ClaimWrite, Slot!Next, Slot!Take
    <2>3. ASSUME NEW c \in Client, FinWrite(c) PROVE [Slot!Next]_SlotBar
        <3>1. SlotBar \in {Slot!Free, Slot!Taken(c)}
            <4>1. ~Found(rec) \/ rec.claim = c
                BY <2>3 DEF IdemInv, ClaimInv, FinWrite
            <4>2. rec.claim = c => rec.state = "inflight"
                BY <2>3 DEF IdemInv, ClaimInv, FinWrite, Written
            <4> QED BY <4>1, <4>2 DEF SlotBar, Slot!Free, Slot!Taken
        <3>2. rec' = Completed(c) => SlotBar' = Slot!Result(c)
            BY DEF SlotBar, Found, Completed, Slot!Result
        <3>3. rec' = NoRecord => SlotBar' = Slot!Free
            BY DEF SlotBar, Found, NoRecord, Slot!Free
        <3>4. rec' \in {rec, Completed(c), NoRecord}
            BY <2>3 DEF FinWrite
        <3> QED BY <2>1, <3>1, <3>2, <3>3, <3>4
                DEF Slot!Next, Slot!Complete, Slot!GiveBack
    <2>4. CASE ClockTick
        <3>1. /\ rec'.state = rec.state /\ rec'.claim = rec.claim
              /\ rec'.left = Sooner(rec.left) /\ rec.left \in Nat
            BY <2>4 DEF ClockTick, IdemInv, IdemTypeOK, Record
        <3>2. Found(rec') => Found(rec)
            BY <3>1 DEF Found, Sooner
        <3>3. SlotBar' = SlotBar \/ SlotBar' = Slot!Free
            BY <3>1, <3>2 DEF SlotBar, Slot!Free
        <3> QED BY <3>3 DEF Slot!Next, Slot!Lapse
    <2>5. ASSUME NEW c \in Client,
                 \/ Start(c) \/ ClaimLock(c) \/ ClaimLockFails(c) \/ ClaimRead(c)
                 \/ ClaimUnlock(c) \/ ClaimUnlockFails(c) \/ FnReturns(c)
                 \/ FinLock(c) \/ FinLockFails(c) \/ FinRead(c) \/ FinUnlock(c)
                 \/ Die(c)
          PROVE rec' = rec
        BY <2>5 DEF Start, ClaimLock, ClaimLockFails, ClaimRead, ClaimUnlock,
                    ClaimUnlockFails, FnReturns, FinLock, FinLockFails, FinRead,
                    FinUnlock, TakeLock, Die
    <2>6. CASE CloseLocker \/ UNCHANGED idemVars
        BY <2>1, <2>6 DEF CloseLocker, idemVars
    <2> QED BY <2>1, <2>2, <2>3, <2>4, <2>5, <2>6 DEF IdemNext, Work
<1> QED BY <1>1, <1>2, IdemInvHolds, PTL DEF IdemSpec, OneShotSpec, Slot!Spec
-----------------------------------------------------------------------------
(* DuplicateIsVisible, strengthened: a call whose effect is neither counted*)
(* as lost nor as unkept, and which has nothing left to write, is the one  *)
(* the record names, until some record is retired. There is one record, so *)
(* there are not two such calls.                                           *)
Finishing == FinSection \cup {"finLock"}

KeptInv ==
    /\ \A c \in effects : pc[c] \in Finishing \cup {"done", "dead"}
    /\ \A c \in effects : pc[c] \in Finishing => plan[c] = "commit"
    /\ ~retired =>
          \A c \in effects \ (lost \cup unkept) :
              pc[c] \in {"finUnlock", "done"} =>
                  rec.state = "completed" /\ rec.claim = c /\ rec.left > 0

(* Every step keeps an uncounted effect on record until it runs out.       *)
LEMMA KeptInvIsKept ==
    ASSUME IdemInv, KeptInv, [IdemNext]_idemVars
    PROVE  KeptInv'
<1> USE LockerAssumption, IdempotencyAssumption
    DEF IdemInv, IdemTypeOK, CallTypeOK, KeptInv, Finishing, FinSection, ghosts, callVars
<1>1. ASSUME NEW c \in Client,
             \/ Start(c) \/ ClaimLock(c) \/ ClaimLockFails(c) \/ ClaimRead(c)
             \/ ClaimUnlock(c) \/ ClaimUnlockFails(c)
      PROVE  KeptInv'
    <2>1. c \notin effects /\ UNCHANGED <<rec, effects, lost, unkept, retired>>
        BY <1>1 DEF Start, ClaimLock, ClaimLockFails, ClaimRead, ClaimUnlock,
                    ClaimUnlockFails, TakeLock
    <2>2. \A d \in Client \ {c} : pc'[d] = pc[d] /\ plan'[d] = plan[d]
        BY <1>1 DEF Start, ClaimLock, ClaimLockFails, ClaimRead, ClaimUnlock,
                    ClaimUnlockFails, TakeLock, Return, Leave, Goto, Plan
    <2> QED BY <2>1, <2>2
<1>2. ASSUME NEW c \in Client, ClaimWrite(c) PROVE KeptInv'
    <2>1. c \notin effects /\ UNCHANGED <<effects, lost, unkept, retired>>
        BY <1>2 DEF ClaimWrite
    <2>2. \A d \in Client \ {c} : pc'[d] = pc[d] /\ plan'[d] = plan[d]
        BY <1>2 DEF ClaimWrite, Goto, Plan
    <2>3. ~Found(rec)
        BY <1>2 DEF ClaimWrite, ClaimInv
    <2> QED BY <2>1, <2>2, <2>3 DEF Found
<1>3. ASSUME NEW c \in Client, FnReturns(c) PROVE KeptInv'
    <2>1. c \notin effects /\ UNCHANGED <<rec, lost, unkept, retired>>
        BY <1>3 DEF FnReturns
    <2>2. \A d \in Client \ {c} : pc'[d] = pc[d] /\ plan'[d] = plan[d]
        BY <1>3 DEF FnReturns, Goto, Plan
    <2>3. pc'[c] = "finLock" /\ effects' \subseteq effects \cup {c}
                            /\ (c \in effects' => plan'[c] = "commit")
        BY <1>3, <2>1 DEF FnReturns, Goto, Plan
    <2> QED BY <2>1, <2>2, <2>3
<1>4. ASSUME NEW c \in Client, FinLock(c) \/ FinLockFails(c) \/ FinRead(c) PROVE KeptInv'
    <2>1. UNCHANGED <<rec, effects, retired>> /\ lost \subseteq lost' /\ unkept \subseteq unkept'
        BY <1>4 DEF FinLock, FinLockFails, FinRead, TakeLock, NotKept
    <2>2. \A d \in Client \ {c} : pc'[d] = pc[d] /\ plan'[d] = plan[d]
        BY <1>4 DEF FinLock, FinLockFails, FinRead, TakeLock, Settle, Return, Leave, Goto, Plan
    <2>3. /\ pc'[c] \in Finishing \cup {"done"}
          /\ pc'[c] \in Finishing => plan'[c] = plan[c] /\ pc[c] \in Finishing
          /\ pc'[c] \in {"finUnlock", "done"} /\ c \in effects => c \in lost' \cup unkept'
        BY <1>4 DEF FinLock, FinLockFails, FinRead, TakeLock, NotKept, Settle, Return, Leave,
                    Goto, Plan
    <2> QED BY <2>1, <2>2, <2>3
<1>5. ASSUME NEW c \in Client, FinWrite(c) PROVE KeptInv'
    <2>1. UNCHANGED <<plan, effects, lost, retired>> /\ unkept \subseteq unkept'
        BY <1>5 DEF FinWrite, NotKept
    <2>2. pc'[c] = "finUnlock" /\ \A d \in Client \ {c} : pc'[d] = pc[d]
        BY <1>5 DEF FinWrite, Goto
    <2>3. pc[c] = "finWrite"
        BY <1>5 DEF FinWrite
    <2>4. rec.state = "completed" => ~Found(rec)
        BY <2>3 DEF ClaimInv
    <2>5. c \in effects => c \in unkept' \/ rec' = Completed(c)
        BY <1>5, <2>3 DEF FinWrite, NotKept
    <2>6. /\ Completed(c).state = "completed" /\ Completed(c).claim = c
          /\ Completed(c).left = RecordTTL /\ RecordTTL > 0
        BY DEF Completed
    <2> QED BY <2>1, <2>2, <2>3, <2>4, <2>5, <2>6 DEF Found
<1>6. ASSUME NEW c \in Client, FinUnlock(c) \/ Die(c) PROVE KeptInv'
    <2>1. UNCHANGED <<rec, effects, lost, retired>> /\ unkept \subseteq unkept'
        BY <1>6 DEF FinUnlock, Die, NotKept
    <2>2. \A d \in Client \ {c} : pc'[d] = pc[d] /\ plan'[d] = plan[d]
        BY <1>6 DEF FinUnlock, Die, Settle, Return, Leave, Goto, Plan
    <2>3. pc'[c] = "dead" \/ (pc[c] = "finUnlock" /\ pc'[c] = "done")
        BY <1>6 DEF FinUnlock, Die, Settle, Return, Leave, Goto
    <2> QED BY <2>1, <2>2, <2>3
<1>7. CASE ClockTick
    <2>1. /\ rec'.state = rec.state /\ rec'.claim = rec.claim
          /\ rec'.left = Sooner(rec.left) /\ rec.left \in Nat
        BY <1>7 DEF ClockTick, Record
    <2>2. ~retired' => ~retired /\ ~(rec.state = "completed" /\ rec.left = 1)
        BY <1>7 DEF ClockTick
    <2> QED BY <1>7, <2>1, <2>2 DEF ClockTick, Sooner
<1>8. CASE CloseLocker \/ UNCHANGED idemVars
    BY <1>8 DEF CloseLocker, idemVars
<1> QED BY <1>1, <1>2, <1>3, <1>4, <1>5, <1>6, <1>7, <1>8 DEF IdemNext, Work

(* A duplicate that nobody counted takes a record that ran out first       *)
(* (doc.go, "Watching it"), under the same hypotheses as ClaimsAreHonoured.*)
THEOREM DuplicatesAreVisible ==
    ASSUME LeasesHold, ~FailOpen, "close" \notin Faults
    PROVE  IdemSpec => []DuplicateIsVisible
<1>1. IdemInit => KeptInv
    BY DEF IdemInit, KeptInv
<1>2. IdemInv /\ Exclusive /\ KeptInv /\ [IdemNext]_idemVars => KeptInv'
    BY KeptInvIsKept
<1>3. KeptInv => DuplicateIsVisible
    BY DEF KeptInv, DuplicateIsVisible
<1> QED BY <1>1, <1>2, <1>3, IdemInvHolds, PTL DEF IdemSpec
=============================================================================
