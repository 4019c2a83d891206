---------------------------- MODULE Idempotency ----------------------------
(***************************************************************************)
(* idempotency.Manager: Do runs fn at most once for one key, with a record *)
(* in a cache.Cache and a short critical section under a ScopedLocker.     *)
(*                                                                         *)
(* A Client is one call of Do for the one key modelled; its name also      *)
(* stands for the ClaimID it mints and for the value its fn returns. Keys  *)
(* do not interact, so one is enough. The lock is the memory Locker, and   *)
(* WithLock's wait is the guard of its Acquire (ScopedLock has the wait).  *)
(* Every store call is a step of its own, so a call may lose the lock, its *)
(* claim or its process between any two of them. A store call that fails   *)
(* may have been applied.                                                  *)
(***************************************************************************)
EXTENDS Locker

CONSTANTS LockKey,      \* lockKey(key)
          LockTTL,      \* the ScopedLocker's lease
          InFlightTTL,  \* how long a claim is retained
          RecordTTL,    \* how long a completed record is retained
          Fp,           \* Fp[c]: the fingerprint c calls Do with
          FailOpen,     \* StoreFailurePolicy = FailOpen
          Faults,       \* the failures that may happen:
                        \* "store", "lock", "death" of a call, "close" of the locker
          LeasesHold    \* critical sections fit in LockTTL

ASSUME IdempotencyAssumption ==
    /\ LockKey \in Key
    /\ LockTTL \in TTL
    /\ InFlightTTL \in Nat \ {0}
    /\ RecordTTL \in Nat \ {0}
    /\ Fp \in [Client -> {Fp[c] : c \in Client}]
    /\ FailOpen \in BOOLEAN
    /\ LeasesHold \in BOOLEAN

VARIABLES rec,     \* the store's entry for the key; live while rec.left > 0
          pc,      \* where each call is
          plan,    \* what its critical section, or its fn, came to
          got,     \* the record its claim found
          out,     \* what Do returned
          mine,    \* how long it may still count on the record being its own
          effects, \* calls whose fn returned a recordable result
          lost,    \* calls counted in idempotency_claims_lost
          unkept,  \* calls counted in idempotency_record_failures
          retired  \* some completed record has reached the end of its TTL

callVars == <<pc, plan, got, out>>
ghosts   == <<mine, effects, lost, unkept, retired>>
idemVars == <<held, handle, sure, rec, pc, plan, got, out, mine, effects, lost,
              unkept, retired>>

-----------------------------------------------------------------------------
NoRecord == [state |-> "none", fp |-> NoOne, claim |-> NoOne, left |-> 0]
Claimed(c) == [state |-> "inflight", fp |-> Fp[c], claim |-> c,
               left |-> InFlightTTL]
Completed(c) == [state |-> "completed", fp |-> Fp[c], claim |-> c,
                 left |-> RecordTTL]
\* Left by another binary: of a state, or of a record version, unknown to us.
Unknown(c) == [state |-> "unknown", fp |-> Fp[c], claim |-> NoOne,
               left |-> RecordTTL]
Foreign == [state |-> "foreign", fp |-> NoOne, claim |-> NoOne,
            left |-> RecordTTL]

State == {"none", "inflight", "completed", "unknown", "foreign"}
Record == [state : State, fp : {Fp[c] : c \in Client} \cup {NoOne},
           claim : Client \cup {NoOne}, left : Nat]

ClaimSection == {"claimRead", "claimWrite", "claimUnlock"}
FinSection   == {"finRead", "finWrite", "finUnlock"}
Section      == ClaimSection \cup FinSection
Counted      == {"executed", "replayed", "in_flight", "mismatch"}

Place   == Section \cup {"start", "claimLock", "running", "finLock", "done", "dead"}
Verdict == {"none", "took", "existing", "error", "commit", "unrecordable", "failed"}
Outcome == [kind : Counted \cup {"none", "stale", "error"},
            by : Client \cup {NoOne}]

CallTypeOK ==
    /\ pc \in [Client -> Place]
    /\ plan \in [Client -> Verdict]
    /\ got \in [Client -> Record]
    /\ out \in [Client -> Outcome]

IdemTypeOK ==
    /\ LockTypeOK
    /\ CallTypeOK
    /\ rec \in Record
    /\ mine \in [Client -> Nat]
    /\ effects \subseteq Client /\ lost \subseteq Client
    /\ unkept \subseteq Client
    /\ retired \in BOOLEAN

Nothing == [kind |-> "none", by |-> NoOne]
Failure == [kind |-> "error", by |-> NoOne]

IdemInit ==
    /\ LockInit
    /\ rec \in {NoRecord, Foreign} \cup {Unknown(c) : c \in Client}
    /\ pc = [c \in Client |-> "start"]
    /\ plan = [c \in Client |-> "none"]
    /\ got = [c \in Client |-> NoRecord]
    /\ out = [c \in Client |-> Nothing]
    /\ mine = [c \in Client |-> 0]
    /\ effects = {} /\ lost = {} /\ unkept = {}
    /\ retired = FALSE

-----------------------------------------------------------------------------
Goto(c, where) == pc' = [pc EXCEPT ![c] = where]
Plan(c, what) == plan' = [plan EXCEPT ![c] = what]
\* The call is over, and its locals with it.
Leave(c, how) ==
    /\ Goto(c, how)
    /\ Plan(c, "none")
    /\ got' = [got EXCEPT ![c] = NoRecord]
Return(c, result) ==
    /\ Leave(c, "done")
    /\ out' = [out EXCEPT ![c] = result]

(* load. A live record of this record version is found; a miss is also what*)
(* FailOpen makes of an error.                                             *)
(* Variant: an expired entry is still served.                              *)
FoundStale(r) == r.state \notin {"none", "foreign"}
Found(r) == r.left > 0 /\ r.state \notin {"none", "foreign"}

StoreFault == "store" \in Faults
LoadHits   == Found(rec)
LoadMisses == ~Found(rec) \/ (StoreFault /\ FailOpen)
LoadFails  == StoreFault /\ ~FailOpen

(* replay: the fingerprint is compared before the state.                   *)
(* Variant: the fingerprint is not compared.                               *)
AnswerAnyFingerprint(c, r) ==
    IF r.state = "completed" THEN [kind |-> "replayed", by |-> r.claim]
    ELSE [kind |-> "in_flight", by |-> NoOne]

Answer(c, r) ==
    CASE r.fp # Fp[c]                              -> [kind |-> "mismatch", by |-> NoOne]
      [] r.fp = Fp[c] /\ r.state = "completed"     -> [kind |-> "replayed", by |-> r.claim]
      [] r.fp = Fp[c] /\ r.state = "inflight"      -> [kind |-> "in_flight", by |-> NoOne]
      [] OTHER                                     -> [kind |-> "stale", by |-> NoOne]

(* Do, up to the claim: the read that needs no lock.                       *)
Start(c) ==
    /\ pc[c] = "start"
    /\ \/ LoadHits /\ Return(c, Answer(c, rec))
       \/ LoadMisses /\ Goto(c, "claimLock") /\ UNCHANGED <<plan, got, out>>
       \/ LoadFails /\ Return(c, Failure)
    /\ UNCHANGED <<lockVars, rec, ghosts>>

-----------------------------------------------------------------------------
(* claim: lock, read again, write, unlock.                                 *)
TakeLock(c, from, to) ==
    /\ pc[c] = from
    /\ Acquire(c, LockKey, LockTTL)
    /\ Goto(c, to)
    /\ UNCHANGED <<rec, plan, got, out, ghosts>>

ClaimLock(c) == TakeLock(c, "claimLock", "claimRead")

(* WithLock returns without calling fn: the locker failed, or ctx ended.   *)
ClaimLockFails(c) ==
    /\ pc[c] = "claimLock"
    /\ "lock" \in Faults
    /\ Return(c, Failure)
    /\ UNCHANGED <<lockVars, rec, ghosts>>

ClaimRead(c) ==
    /\ pc[c] = "claimRead"
    /\ \/ /\ LoadHits
          /\ Goto(c, "claimUnlock")
          /\ got' = [got EXCEPT ![c] = rec]
          /\ Plan(c, "existing")
       \/ LoadMisses /\ Goto(c, "claimWrite") /\ UNCHANGED <<got, plan>>
       \/ LoadFails /\ Goto(c, "claimUnlock") /\ Plan(c, "error") /\ UNCHANGED got
    /\ UNCHANGED <<lockVars, rec, out, ghosts>>

ClaimWrite(c) ==
    /\ pc[c] = "claimWrite"
    /\ Goto(c, "claimUnlock")
    /\ \/ /\ rec' = Claimed(c)
          /\ mine' = [mine EXCEPT ![c] = InFlightTTL]
          /\ Plan(c, "took")
       \/ /\ StoreFault
          /\ rec' \in {rec, Claimed(c)}
          /\ Plan(c, "error")
          /\ UNCHANGED mine
    /\ UNCHANGED <<lockVars, got, out, effects, lost, unkept, retired>>

(* Only a release the locker accepts lets the claim count.                 *)
ClaimUnlock(c) ==
    /\ pc[c] = "claimUnlock"
    /\ Release(c)
    /\ \/ plan[c] = "took" /\ Goto(c, "running") /\ UNCHANGED <<plan, got, out>>
       \/ plan[c] = "existing" /\ Return(c, Answer(c, got[c]))
       \/ plan[c] = "error" /\ Return(c, Failure)
    /\ UNCHANGED <<rec, ghosts>>

\* A release that reports the lock lost, or that fails and leaves it to lapse.
LoseLock(c) ==
    \/ NotHeld(c)
    \/ "lock" \in Faults /\ UNCHANGED lockVars

ClaimUnlockFails(c) ==
    /\ pc[c] = "claimUnlock"
    /\ LoseLock(c)
    /\ Return(c, Failure)
    /\ UNCHANGED <<rec, ghosts>>

-----------------------------------------------------------------------------
(* fn is over: a result worth recording, one that is not, or an error or a *)
(* panic. The first has had the effect the key guards.                     *)
FnReturns(c) ==
    /\ pc[c] = "running"
    /\ Goto(c, "finLock")
    /\ \/ Plan(c, "commit") /\ effects' = effects \cup {c}
       \/ Plan(c, "unrecordable") /\ UNCHANGED effects
       \/ Plan(c, "failed") /\ UNCHANGED effects
    /\ UNCHANGED <<lockVars, rec, got, out, mine, lost, unkept, retired>>

Settle(c) == Return(c, IF plan[c] = "failed" THEN Failure
                       ELSE [kind |-> "executed", by |-> c])

\* recordFailureCounter: only commit has a result to lose.
NotKept(c) == unkept' = IF plan[c] = "commit" THEN unkept \cup {c} ELSE unkept

(* commit and release: lock, check the claim, write or delete, unlock.     *)
FinLock(c) == TakeLock(c, "finLock", "finRead")

(* Variant: commit swallows the lock's error without counting it.          *)
FinLockFailsQuietly(c) ==
    /\ pc[c] = "finLock"
    /\ "lock" \in Faults
    /\ Settle(c)
    /\ UNCHANGED <<lockVars, rec, ghosts>>

FinLockFails(c) ==
    /\ pc[c] = "finLock"
    /\ "lock" \in Faults
    /\ NotKept(c)
    /\ Settle(c)
    /\ UNCHANGED <<lockVars, rec, mine, effects, lost, retired>>

(* stillOurs. A read that fails counts as a record failure for release too.*)
(* Variant: whoever holds the record, it is written through.               *)
FinReadTrusting(c) ==
    /\ pc[c] = "finRead"
    /\ Goto(c, "finWrite")
    /\ UNCHANGED <<lockVars, rec, plan, got, out, ghosts>>

FinRead(c) ==
    /\ pc[c] = "finRead"
    /\ \/ /\ LoadHits /\ rec.claim = c
          /\ Goto(c, "finWrite")
          /\ UNCHANGED <<lost, unkept>>
       \/ /\ LoadMisses \/ (LoadHits /\ rec.claim # c)
          /\ Goto(c, "finUnlock")
          /\ lost' = lost \cup {c}
          /\ UNCHANGED unkept
       \/ /\ LoadFails
          /\ Goto(c, "finUnlock")
          /\ unkept' = unkept \cup {c}
          /\ UNCHANGED lost
    /\ UNCHANGED <<lockVars, rec, plan, got, out, mine, effects, retired>>

FinWrite(c) ==
    /\ pc[c] = "finWrite"
    /\ Goto(c, "finUnlock")
    /\ \/ /\ plan[c] = "commit"
          /\ rec' = Completed(c)
          /\ mine' = [mine EXCEPT ![c] = RecordTTL]
          /\ UNCHANGED unkept
       \/ /\ plan[c] = "commit" /\ StoreFault
          /\ rec' \in {rec, Completed(c)}
          /\ NotKept(c)
          /\ mine' = [mine EXCEPT ![c] = 0]
       \/ /\ plan[c] # "commit"
          /\ rec' \in {NoRecord} \cup (IF StoreFault THEN {rec} ELSE {})
          /\ mine' = [mine EXCEPT ![c] = 0]
          /\ UNCHANGED unkept
    /\ UNCHANGED <<lockVars, plan, got, out, effects, lost, retired>>

FinUnlock(c) ==
    /\ pc[c] = "finUnlock"
    /\ \/ Release(c) /\ UNCHANGED unkept
       \/ LoseLock(c) /\ NotKept(c)
    /\ Settle(c)
    /\ UNCHANGED <<rec, mine, effects, lost, retired>>

-----------------------------------------------------------------------------
Die(c) ==
    /\ "death" \in Faults
    /\ pc[c] \notin {"start", "done", "dead"}
    /\ Leave(c, "dead")
    /\ UNCHANGED <<lockVars, rec, out, ghosts>>

Sooner(n) == IF n = 0 THEN 0 ELSE n - 1
ClockTick ==
    /\ LeasesHold => \A c \in Client : pc[c] \in Section => sure[c] > 1
    /\ Tick
    /\ rec' = [state |-> rec.state, fp |-> rec.fp, claim |-> rec.claim,
               left |-> Sooner(rec.left)]
    /\ mine' = [c \in Client |-> Sooner(mine[c])]
    /\ retired' = (retired \/ (rec.state = "completed" /\ rec.left = 1))
    /\ UNCHANGED <<callVars, effects, lost, unkept>>

CloseLocker ==
    /\ "close" \in Faults
    /\ Close
    /\ UNCHANGED <<rec, callVars, ghosts>>

Work(c) ==
    \/ Start(c)
    \/ ClaimLock(c) \/ ClaimLockFails(c) \/ ClaimRead(c) \/ ClaimWrite(c)
    \/ ClaimUnlock(c) \/ ClaimUnlockFails(c)
    \/ FinLock(c) \/ FinLockFails(c) \/ FinRead(c) \/ FinWrite(c) \/ FinUnlock(c)

IdemNext ==
    \/ \E c \in Client : Work(c) \/ FnReturns(c) \/ Die(c)
    \/ ClockTick
    \/ CloseLocker

IdemSpec == IdemInit /\ [][IdemNext]_idemVars

(* A call that can take a step is scheduled, and time passes. fn itself may*)
(* never return.                                                           *)
FairIdemSpec ==
    /\ IdemSpec
    /\ \A c \in Client : WF_idemVars(Work(c))
    /\ WF_idemVars(ClockTick)

-----------------------------------------------------------------------------
(* A call may rely on its claim for InFlightTTL, and on its result being   *)
(* kept for the record TTL: while that time runs, the record in the store  *)
(* is the one it wrote (doc.go, "Two records, one owner").                 *)
(* Holds when critical sections fit their lease and reads fail closed.     *)
ClaimHonoured ==
    \A c \in Client :
        mine[c] > 0 => /\ rec.claim = c
                       /\ rec.left >= mine[c]
                       /\ rec.state \in {"inflight", "completed"}

(* fn starts only when no other call's claim or recorded result has time   *)
(* left (manager.go: "Do runs fn at most once for key").                   *)
StartsAlone ==
    [][\A c \in Client :
          (pc[c] # "running" /\ pc'[c] = "running") =>
              \A d \in Client \ {c} : mine[d] = 0]_idemVars

(* A replayed value was returned by an fn that finished with a recordable  *)
(* result, for a request with the very fingerprint being answered: no      *)
(* crash, lost lock or failed write makes a half-done or a different       *)
(* request's value replayable (manager.go, replay).                        *)
ReplayFaithful ==
    \A c \in Client :
        out[c].kind = "replayed" => /\ out[c].by \in effects
                                    /\ Fp[out[c].by] = Fp[c]

(* When two calls both had the effect, and both returned, an operator can  *)
(* see why: one of them is in claims_lost or record_failures, or a record  *)
(* had reached the end of its TTL (doc.go, "Watching it").                 *)
DuplicateIsVisible ==
    \A c, d \in effects :
        c # d /\ pc[c] = "done" /\ pc[d] = "done" =>
            retired \/ {c, d} \cap (lost \cup unkept) # {}

(* A claim never blocks its key for good: whatever became of its call, a   *)
(* read stops finding it (doc.go: a record with its own TTL survives, "and *)
(* the retry is correctly refused until it expires").                      *)
Blocked == Found(rec) /\ rec.state = "inflight"
NotWedged == Blocked ~> ~Blocked

(* The record is the slot of a OneShot: it changes hands only through a    *)
(* lapse or a release, and a completed result is never replaced.           *)
SlotBar == IF Found(rec) THEN [is |-> rec.state, by |-> rec.claim]
                         ELSE [is |-> "free", by |-> NoOne]
Slot == INSTANCE OneShot WITH slot <- SlotBar
OneShotSpec == Slot!Spec

-----------------------------------------------------------------------------
(* doc.go:87-88 on idempotency_claims_lost: "It is the only remaining path *)
(* to a duplicate effect".                                                 *)
DuplicateOnlyIfClaimLost ==
    \A c, d \in effects :
        c # d /\ pc[c] = "done" /\ pc[d] = "done" =>
            retired \/ {c, d} \cap lost # {}
=============================================================================
