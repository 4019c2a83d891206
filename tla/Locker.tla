------------------------------- MODULE Locker -------------------------------
(***************************************************************************)
(* distributedlock/memory: the in-process Locker, the reference            *)
(* implementation of the lease semantics every provider is held to.        *)
(*                                                                         *)
(* Each operation runs under Locker.mu, so each is one action. Time is     *)
(* kept as what is left of every deadline rather than as a clock:          *)
(* left > 0 is now.Before(expires), left = 0 is now = expires, and         *)
(* left = -1 is now.After(expires), which is as late as the code can tell. *)
(* A Client is one holder of one Lock handle; the ownership token          *)
(* identifiers.New mints per Acquire is the client itself, which is exact  *)
(* because a client that acquires again discards its previous handle.      *)
(***************************************************************************)
EXTENDS Integers

CONSTANTS Key,      \* lock names
          Client,   \* goroutines, each owning at most one Lock handle
          TTL,      \* the positive lease durations callers ask for
          NoOne,    \* no owner: the key is absent from Locker.held
          NoKey     \* no handle

ASSUME LockerAssumption ==
    /\ TTL \subseteq Nat \ {0}
    /\ NoOne \notin Client
    /\ NoKey \notin Key

VARIABLES held,    \* held[k]: the map entry of k
          handle,  \* handle[c]: the key c's Lock handle names
          sure     \* sure[c]: how long c may still count on its lease

lockVars == <<held, handle, sure>>

Lapsed == -1
Absent == [owner |-> NoOne, left |-> Lapsed]

LockTypeOK ==
    /\ held \in [Key -> [owner : Client \cup {NoOne}, left : Int]]
    /\ handle \in [Client -> Key \cup {NoKey}]
    /\ sure \in [Client -> Nat]

LockInit ==
    /\ held = [k \in Key |-> Absent]
    /\ handle = [c \in Client |-> NoKey]
    /\ sure = [c \in Client |-> 0]

-----------------------------------------------------------------------------
(* Acquire sweeps every entry that is past its deadline before it looks at *)
(* the key it was asked for.                                               *)
Sweep == [k \in Key |-> IF held[k].left < 0 THEN Absent ELSE held[k]]

Contended(k) == held[k].owner # NoOne /\ held[k].left > 0

(* Variant: an acquire that finds the key taken extends the holder's lease.*)
AcquireTouches(k) ==
    /\ Contended(k)
    /\ \E ttl \in TTL : held' = [Sweep EXCEPT ![k].left = ttl]
    /\ UNCHANGED <<handle, sure>>

AcquireContended(k) ==
    /\ Contended(k)
    /\ held' = Sweep
    /\ UNCHANGED <<handle, sure>>

Acquire(c, k, ttl) ==
    /\ ~Contended(k)
    /\ held' = [Sweep EXCEPT ![k] = [owner |-> c, left |-> ttl]]
    /\ handle' = [handle EXCEPT ![c] = k]
    /\ sure' = [sure EXCEPT ![c] = ttl]

(* The check release and refresh share: the entry is still c's, and its    *)
(* deadline is not behind us.                                              *)
Holds(c) ==
    /\ handle[c] # NoKey
    /\ held[handle[c]].owner = c
    /\ held[handle[c]].left >= 0

(* Variant: release deletes the entry without comparing tokens.            *)
ReleaseUnchecked(c) ==
    /\ handle[c] # NoKey
    /\ held' = [held EXCEPT ![handle[c]] = Absent]
    /\ sure' = [sure EXCEPT ![c] = 0]
    /\ UNCHANGED handle

Release(c) ==
    /\ Holds(c)
    /\ held' = [held EXCEPT ![handle[c]] = Absent]
    /\ sure' = [sure EXCEPT ![c] = 0]
    /\ UNCHANGED handle

(* Variant: refresh writes the entry back instead of extending it.         *)
RefreshBlindly(c, ttl) ==
    /\ handle[c] # NoKey
    /\ held' = [held EXCEPT ![handle[c]] = [owner |-> c, left |-> ttl]]
    /\ sure' = [sure EXCEPT ![c] = ttl]
    /\ UNCHANGED handle

Refresh(c, ttl) ==
    /\ Holds(c)
    /\ held' = [held EXCEPT ![handle[c]].left = ttl]
    /\ sure' = [sure EXCEPT ![c] = ttl]
    /\ UNCHANGED handle

(* ErrLockNotHeld: the handle is stale, and using it changes nothing.      *)
NotHeld(c) ==
    /\ handle[c] # NoKey
    /\ ~Holds(c)
    /\ UNCHANGED lockVars

(* Close drops every lock; outstanding handles then see ErrLockNotHeld.    *)
Close ==
    /\ held' = [k \in Key |-> Absent]
    /\ sure' = [c \in Client |-> 0]
    /\ UNCHANGED handle

(* One unit of clock time: every deadline comes one closer.                *)
Older(left) == IF left < 0 THEN left ELSE left - 1
Tick ==
    /\ held' = [k \in Key |-> [owner |-> held[k].owner,
                             left  |-> Older(held[k].left)]]
    /\ sure' = [c \in Client |-> IF sure[c] = 0 THEN 0 ELSE sure[c] - 1]
    /\ UNCHANGED handle

LockNext ==
    \/ \E c \in Client, k \in Key, ttl \in TTL : Acquire(c, k, ttl)
    \/ \E k \in Key : AcquireContended(k)
    \/ \E c \in Client : Release(c) \/ NotHeld(c)
    \/ \E c \in Client, ttl \in TTL : Refresh(c, ttl)
    \/ Close
    \/ Tick

LockSpec == LockInit /\ [][LockNext]_lockVars
-----------------------------------------------------------------------------
(* A client that still has time on the lease it was granted really is the  *)
(* one the store holds the key for, with at least that much time: neither  *)
(* another client's acquire, nor a stale handle's release or refresh, nor  *)
(* the sweep can take a lease away early (memory.go, the token check in    *)
(* release and refresh). Close is the one exception, and voids every lease.*)
SureIsHeld ==
    \A c \in Client :
        sure[c] > 0 => /\ handle[c] \in Key
                       /\ held[handle[c]].owner = c
                       /\ held[handle[c]].left >= sure[c]

(* No two clients are ever both entitled to believe they hold one key:     *)
(* distributedlock's mutual exclusion, for as long as the lease lasts.     *)
Exclusive ==
    \A c, d \in Client :
        /\ handle[c] = handle[d]
        /\ sure[c] > 0
        /\ sure[d] > 0
        => c = d

(* The memory Locker keeps the promise of every Locker: an entry with time *)
(* left is an owner, one without is only a memory of its latest grantee.   *)
Lease == INSTANCE LeaseLock WITH
            owner  <- [k \in Key |-> IF held[k].left > 0 THEN held[k].owner
                                                         ELSE NoOne],
            latest <- [k \in Key |-> held[k].owner]
LeaseSpec == Lease!Spec
=============================================================================
