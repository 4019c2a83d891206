----------------------------- MODULE ScopedLock -----------------------------
(***************************************************************************)
(* distributedlock.PollingScopedLocker over the memory Locker: WithLock    *)
(* and TryWithLock acquire, run fn, and release when fn returns or panics. *)
(*                                                                         *)
(* A client makes one call; a goroutine that makes several is several      *)
(* clients. The wrapped Locker may also fail outright, and a client may    *)
(* die at any point, leaving its lease to lapse.                           *)
(***************************************************************************)
EXTENDS Locker

CONSTANT ScopedTTL   \* the one TTL the adapter passes to Acquire

ASSUME ScopedAssumption == ScopedTTL \in TTL

VARIABLES pc,     \* where each call is
          want,   \* the key each call is for
          peers   \* the calls whose fn overlapped this call's fn, on one key

scopedVars == <<held, handle, sure, pc, want, peers>>

Waiting  == {"acquiring", "sleeping"}
\* clean: WithLock returned fn's own result; dirty: it reported that the lock
\* was lost, or could not be released.
Returned == {"clean", "dirty", "busy", "gaveUp", "failed"}

ScopedTypeOK ==
    /\ LockTypeOK
    /\ pc \in [Client -> {"idle", "inside", "dead"} \cup Waiting \cup Returned]
    /\ want \in [Client -> Key]
    /\ peers \in [Client -> SUBSET Client]

ScopedInit ==
    /\ LockInit
    /\ pc = [c \in Client |-> "idle"]
    /\ want \in [Client -> Key]
    /\ peers = [c \in Client |-> {}]

Goto(c, where) == pc' = [pc EXCEPT ![c] = where]

-----------------------------------------------------------------------------
WithLock(c) ==
    /\ pc[c] = "idle"
    /\ Goto(c, "acquiring")
    /\ UNCHANGED <<lockVars, want, peers>>

(* fn starts. Whoever is inside fn for the same key now overlaps with c.   *)
Inside(k) == {d \in Client : pc[d] = "inside" /\ want[d] = k}

Enter(c) ==
    /\ Acquire(c, want[c], ScopedTTL)
    /\ Goto(c, "inside")
    /\ peers' = [d \in Client |->
                    IF d = c THEN Inside(want[c])
                    ELSE IF d \in Inside(want[c]) THEN peers[d] \cup {c}
                    ELSE peers[d]]
    /\ UNCHANGED want

Poll(c) == pc[c] = "acquiring" /\ Enter(c)

PollContended(c) ==
    /\ pc[c] = "acquiring"
    /\ AcquireContended(want[c])
    /\ Goto(c, "sleeping")
    /\ UNCHANGED <<want, peers>>

(* clock.Sleep ends: with the jittered interval over, or with ctx.         *)
Wake(c) ==
    /\ pc[c] = "sleeping"
    /\ Goto(c, "acquiring")
    /\ UNCHANGED <<lockVars, want, peers>>

GiveUp(c) ==
    /\ pc[c] = "sleeping"
    /\ Goto(c, "gaveUp")
    /\ UNCHANGED <<lockVars, want, peers>>

TryWithLock(c) ==
    /\ pc[c] = "idle"
    /\ \/ Enter(c)
       \/ /\ AcquireContended(want[c])
          /\ Goto(c, "busy")
          /\ UNCHANGED <<want, peers>>

(* Acquire fails for a reason other than contention.                       *)
AcquireError(c) ==
    /\ pc[c] \in {"idle", "acquiring"}
    /\ Goto(c, "failed")
    /\ UNCHANGED <<lockVars, want, peers>>

-----------------------------------------------------------------------------
(* fn is over: returned nil, returned an error or panicked, the deferred   *)
(* release runs. Only a release the Locker accepted leaves fn's own result *)
(* as the result of the call.                                              *)
Finish(c) ==
    /\ pc[c] = "inside"
    /\ Release(c)
    /\ Goto(c, "clean")
    /\ UNCHANGED <<want, peers>>

(* Variant: run drops the release error instead of joining it.             *)
FinishLostSilently(c) ==
    /\ pc[c] = "inside"
    /\ NotHeld(c)
    /\ Goto(c, "clean")
    /\ UNCHANGED <<want, peers>>

FinishLost(c) ==
    /\ pc[c] = "inside"
    /\ NotHeld(c)
    /\ Goto(c, "dirty")
    /\ UNCHANGED <<want, peers>>

(* The release itself fails: the entry stays until it lapses.              *)
ReleaseError(c) ==
    /\ pc[c] = "inside"
    /\ Goto(c, "dirty")
    /\ UNCHANGED <<lockVars, want, peers>>

Die(c) ==
    /\ pc[c] \in {"acquiring", "sleeping", "inside"}
    /\ Goto(c, "dead")
    /\ UNCHANGED <<lockVars, want, peers>>

LockerStep == (Tick \/ Close) /\ UNCHANGED <<pc, want, peers>>

Waits(c) == Poll(c) \/ PollContended(c) \/ Wake(c)

ScopedNext ==
    \/ \E c \in Client :
          \/ WithLock(c) \/ TryWithLock(c)
          \/ Waits(c) \/ GiveUp(c) \/ AcquireError(c)
          \/ Finish(c) \/ FinishLost(c) \/ ReleaseError(c)
          \/ Die(c)
    \/ LockerStep

ScopedSpec == ScopedInit /\ [][ScopedNext]_scopedVars

-----------------------------------------------------------------------------
(* If fn ran concurrently for two callers of one key, at least one of them *)
(* is told: WithLock and TryWithLock cannot both return as if they had been*)
(* alone (scoped.go: ErrLockNotHeld "means the TTL elapsed while fn was    *)
(* still running, so mutual exclusion was not actually held").             *)
OverlapIsReported ==
    \A c \in Client : \A d \in peers[c] : ~(pc[c] = "clean" /\ pc[d] = "clean")

(* fn bodies overlap only when an earlier holder's lease is spent: as long *)
(* as fn fits in the TTL nobody else is inside.                            *)
OverlapOnlyAfterLapse ==
    \A c, d \in Client :
        /\ pc[c] = "inside" /\ pc[d] = "inside"
        /\ want[c] = want[d] /\ sure[c] > 0 /\ sure[d] > 0
        => c = d

(* A call that waits is not stranded by a holder that died, hung, or could *)
(* not release: the lease lapses and the poll gets through.                *)
WaiterReturns ==
    \A c \in Client : pc[c] \in Waiting ~> pc[c] \notin Waiting
=============================================================================
