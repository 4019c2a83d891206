---------------------------- MODULE LockerProofs ----------------------------
(***************************************************************************)
(* For any set of keys, clients and lease durations: the memory Locker is  *)
(* mutually exclusive for the length of a lease, and implements LeaseLock. *)
(***************************************************************************)
EXTENDS Locker, TLAPS

(* Absent entries are past their deadline: what makes the sweep and the    *)
(* ownership check agree about a key that is not in the map.               *)
AbsentIsLapsed == \A k \in Key : held[k].owner = NoOne => held[k].left < 0

LockInv == LockTypeOK /\ AbsentIsLapsed /\ SureIsHeld

(* No key is held.                                                         *)
LEMMA InitLockInv == LockInit => LockInv
  BY LockerAssumption
     DEF LockInit, LockInv, LockTypeOK, AbsentIsLapsed, SureIsHeld, Absent, Lapsed

(* The sweep leaves the entries well typed.                                *)
LEMMA SweepType ==
  LockTypeOK => Sweep \in [Key -> [owner : Client \cup {NoOne}, left : Int]]
  BY DEF LockTypeOK, Sweep, Absent, Lapsed

(* Every step of the Locker preserves the inductive invariant.             *)
LEMMA LockInvStep == LockInv /\ [LockNext]_lockVars => LockInv'
  <1> SUFFICES ASSUME LockInv, [LockNext]_lockVars
               PROVE  LockInv'
    OBVIOUS
  <1> USE LockerAssumption DEF LockInv, LockTypeOK, AbsentIsLapsed, SureIsHeld, Absent, Lapsed
  <1>1. ASSUME NEW c \in Client, NEW k \in Key, NEW ttl \in TTL, Acquire(c, k, ttl)
        PROVE  LockInv'
    <2>1. LockTypeOK'
      BY <1>1, SweepType DEF Acquire
    <2>2. AbsentIsLapsed'
      BY <1>1 DEF Acquire, Sweep
    <2>3. SureIsHeld'
      <3> SUFFICES ASSUME NEW d \in Client, sure'[d] > 0
                   PROVE  /\ handle'[d] \in Key
                          /\ held'[handle'[d]].owner = d
                          /\ held'[handle'[d]].left >= sure'[d]
        OBVIOUS
      <3>1. CASE d = c
        BY <1>1, <3>1 DEF Acquire, Sweep
      <3>2. CASE d # c
        <4>1. /\ handle'[d] = handle[d] /\ sure'[d] = sure[d] /\ handle[d] \in Key
              /\ held[handle[d]].owner = d /\ held[handle[d]].left >= sure[d]
          BY <1>1, <3>2 DEF Acquire
        <4>2. handle[d] # k
          BY <1>1, <4>1 DEF Acquire, Contended
        <4> QED
          BY <1>1, <3>2, <4>1, <4>2 DEF Acquire, Sweep
      <3> QED
        BY <3>1, <3>2
    <2> QED
      BY <2>1, <2>2, <2>3
  <1>2. ASSUME NEW k \in Key, AcquireContended(k)
        PROVE  LockInv'
    <2>1. LockTypeOK'
      BY <1>2, SweepType DEF AcquireContended
    <2>2. AbsentIsLapsed' /\ SureIsHeld'
      BY <1>2 DEF AcquireContended, Sweep
    <2> QED
      BY <2>1, <2>2
  <1>3. ASSUME NEW c \in Client, Release(c)
        PROVE  LockInv'
    BY <1>3 DEF Release, Holds
  <1>4. ASSUME NEW c \in Client, NEW ttl \in TTL, Refresh(c, ttl)
        PROVE  LockInv'
    BY <1>4 DEF Refresh, Holds
  <1>5. CASE Close
    BY <1>5 DEF Close
  <1>6. CASE Tick
    <2>1. \A k \in Key : /\ held'[k].owner = held[k].owner
                         /\ held'[k].left = Older(held[k].left)
      BY <1>6 DEF Tick
    <2>2. \A k \in Key : Older(held[k].left) \in Int /\ Older(held[k].left) <= held[k].left
      BY DEF Older
    <2>3. LockTypeOK'
      BY <1>6, <2>2 DEF Tick
    <2>4. AbsentIsLapsed'
      BY <2>1, <2>2
    <2>5. SureIsHeld'
      <3> SUFFICES ASSUME NEW c \in Client, sure'[c] > 0
                   PROVE  /\ handle'[c] \in Key
                          /\ held'[handle'[c]].owner = c
                          /\ held'[handle'[c]].left >= sure'[c]
        OBVIOUS
      <3>1. handle'[c] = handle[c] /\ sure[c] > 0 /\ sure'[c] = sure[c] - 1
        BY <1>6 DEF Tick
      <3>2. /\ handle[c] \in Key
            /\ held[handle[c]].owner = c
            /\ held[handle[c]].left >= sure[c]
        BY <3>1
      <3> QED
        BY <2>1, <3>1, <3>2 DEF Older
    <2> QED
      BY <2>3, <2>4, <2>5
  <1>7. CASE UNCHANGED lockVars
    BY <1>7 DEF lockVars
  <1>8. ASSUME NEW c \in Client, NotHeld(c)
        PROVE  LockInv'
    BY <1>8, <1>7 DEF NotHeld
  <1> QED
    BY <1>1, <1>2, <1>3, <1>4, <1>5, <1>6, <1>7, <1>8 DEF LockNext

(* The lock's state is always well typed, and a client with time left on   *)
(* its lease is the one the store holds the key for (memory.go's release   *)
(* and refresh, whose token check a stale handle cannot pass).             *)
THEOREM LeaseIsHonoured == LockSpec => [](LockTypeOK /\ SureIsHeld)
  <1>1. LockInv => LockTypeOK /\ SureIsHeld
    BY DEF LockInv
  <1> QED
    BY InitLockInv, LockInvStep, <1>1, PTL DEF LockSpec

(* Mutual exclusion of distributedlock/memory, for every number of keys,   *)
(* clients and lease durations.                                            *)
THEOREM MutualExclusion == LockSpec => []Exclusive
  <1>1. LockInv => Exclusive
    <2> SUFFICES ASSUME LockInv, NEW c \in Client, NEW d \in Client,
                        handle[c] = handle[d], sure[c] > 0, sure[d] > 0
                 PROVE  c = d
      BY DEF Exclusive
    <2>1. /\ held[handle[c]].owner = c
          /\ held[handle[d]].owner = d
      BY DEF LockInv, LockTypeOK, SureIsHeld
    <2> QED
      BY <2>1
  <1> QED
    BY InitLockInv, LockInvStep, <1>1, PTL DEF LockSpec

-----------------------------------------------------------------------------
(* The refinement mapping, named so that steps can be stated about it.     *)
OwnerBar == [k \in Key |-> IF held[k].left > 0 THEN held[k].owner ELSE NoOne]
LatestBar == [k \in Key |-> held[k].owner]

(* A Locker without entries is a lease lock without grants.                *)
LEMMA InitRefines == LockInit => Lease!Init
  BY DEF LockInit, Lease!Init, Absent, Lapsed

(* Each action of the Locker is one of the lease lock's, or a stutter.     *)
LEMMA StepRefines == LockInv /\ [LockNext]_lockVars => [Lease!Next]_(Lease!leaseVars)
  <1> SUFFICES ASSUME LockInv, [LockNext]_lockVars
               PROVE  Lease!Next \/ UNCHANGED Lease!leaseVars
    OBVIOUS
  <1> USE LockerAssumption DEF LockInv, LockTypeOK, AbsentIsLapsed, Absent, Lapsed
  <1>1. ASSUME NEW c \in Client, NEW k \in Key, NEW ttl \in TTL, Acquire(c, k, ttl)
        PROVE  Lease!Grant(c, k)
    <2> DEFINE gone == {x \in Key : held[x].left < 0}
    <2>1. \A x \in Key : x \in Lease!Unowned <=> (held[x].left <= 0 \/ held[x].owner = NoOne)
      BY DEF Lease!Unowned
    <2>2. k \in Lease!Unowned
      BY <1>1, <2>1 DEF Acquire, Contended
    <2>3. gone \in SUBSET Lease!Unowned
      BY <2>1
    <2>4. \A x \in Key : /\ held'[x].owner = IF x = k THEN c ELSE IF x \in gone THEN NoOne ELSE held[x].owner
                         /\ held'[x].left = IF x = k THEN ttl ELSE IF x \in gone THEN -1 ELSE held[x].left
      BY <1>1 DEF Acquire, Sweep
    <2>5. OwnerBar' = [OwnerBar EXCEPT ![k] = c]
      <3>1. ttl > 0
        OBVIOUS
      <3>2. \A x \in Key : x # k => OwnerBar'[x] = OwnerBar[x]
        BY <2>4 DEF OwnerBar
      <3>3. OwnerBar'[k] = c
        BY <2>4, <3>1 DEF OwnerBar
      <3> QED
        BY <3>2, <3>3 DEF OwnerBar
    <2>6. LatestBar' = [Lease!Forgetting(gone) EXCEPT ![k] = c]
      BY <2>4 DEF LatestBar, Lease!Forgetting
    <2> QED
      BY <2>2, <2>3, <2>5, <2>6 DEF Lease!Grant, OwnerBar, LatestBar
  <1>2. ASSUME NEW k \in Key, AcquireContended(k)
        PROVE  Lease!Forget
    <2> DEFINE gone == {x \in Key : held[x].left < 0}
    <2>1. gone \in SUBSET Lease!Unowned
      BY DEF Lease!Unowned
    <2>2. \A x \in Key : /\ held'[x].owner = IF x \in gone THEN NoOne ELSE held[x].owner
                         /\ held'[x].left = IF x \in gone THEN -1 ELSE held[x].left
      BY <1>2 DEF AcquireContended, Sweep
    <2>3. OwnerBar' = OwnerBar /\ LatestBar' = Lease!Forgetting(gone)
      BY <2>2 DEF OwnerBar, LatestBar, Lease!Forgetting
    <2> QED
      BY <2>1, <2>3 DEF Lease!Forget, OwnerBar, LatestBar
  <1>3. ASSUME NEW c \in Client, Release(c)
        PROVE  Lease!Next
    <2>1. PICK k \in Key : k = handle[c]
      BY <1>3 DEF Release, Holds
    <2>2. Lease!Yield({k})
      BY <1>3, <2>1 DEF Release, Holds, Lease!Yield, Lease!Forgetting
    <2> QED
      BY <2>2 DEF Lease!Next
  <1>4. ASSUME NEW c \in Client, NEW ttl \in TTL, Refresh(c, ttl)
        PROVE  Lease!Next
    <2>1. PICK k \in Key : k = handle[c]
      BY <1>4 DEF Refresh, Holds
    <2>2. Lease!Renew(k)
      <3>1. held[k].owner = c /\ held[k].left >= 0 /\ c # NoOne /\ ttl > 0
        BY <1>4, <2>1 DEF Refresh, Holds
      <3>2. \A x \in Key : /\ held'[x].owner = held[x].owner
                           /\ held'[x].left = IF x = k THEN ttl ELSE held[x].left
        BY <1>4, <2>1 DEF Refresh
      <3>3. LatestBar' = LatestBar /\ LatestBar[k] = c
        BY <3>1, <3>2 DEF LatestBar
      <3>4. OwnerBar[k] \in {NoOne, c}
        BY <3>1 DEF OwnerBar
      <3>5. OwnerBar' = [OwnerBar EXCEPT ![k] = c]
        BY <3>1, <3>2 DEF OwnerBar
      <3> QED
        BY <3>1, <3>3, <3>4, <3>5 DEF Lease!Renew, OwnerBar, LatestBar
    <2> QED
      BY <2>2 DEF Lease!Next
  <1>5. CASE Close
    BY <1>5 DEF Close, Lease!Next, Lease!Yield, Lease!Forgetting
  <1>6. CASE Tick
    <2> DEFINE lapsed == {k \in Key : held[k].left <= 1}
    <2>1. \A k \in Key : /\ held'[k].owner = held[k].owner
                         /\ held'[k].left > 0 <=> k \notin lapsed
      BY <1>6 DEF Tick, Older
    <2>2. OwnerBar' = [k \in Key |-> IF k \in lapsed THEN NoOne ELSE OwnerBar[k]]
      BY <2>1 DEF OwnerBar
    <2>3. LatestBar' = LatestBar
      BY <2>1 DEF LatestBar
    <2> QED
      BY <2>2, <2>3 DEF Lease!Next, Lease!Lapse, OwnerBar, LatestBar
  <1>7. CASE UNCHANGED lockVars
    BY <1>7 DEF lockVars, Lease!leaseVars
  <1>8. ASSUME NEW c \in Client, NotHeld(c)
        PROVE  UNCHANGED Lease!leaseVars
    BY <1>8, <1>7 DEF NotHeld, lockVars, Lease!leaseVars
  <1> QED
    BY <1>1, <1>2, <1>3, <1>4, <1>5, <1>6, <1>7, <1>8 DEF LockNext, Lease!Next

(* distributedlock/memory implements the promise every Locker makes: a key *)
(* is granted only while no lease on it is in force, and a lapsed lease is *)
(* revived only for the latest grantee.                                    *)
THEOREM MemoryLockerIsALeaseLock == LockSpec => LeaseSpec
  BY InitLockInv, LockInvStep, InitRefines, StepRefines, PTL
     DEF LockSpec, LeaseSpec, Lease!Spec
=============================================================================
