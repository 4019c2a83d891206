--------------------------- MODULE LockingProofs ----------------------------
(***************************************************************************)
(* What a scoped call may conclude from its return value, over the memory  *)
(* Locker, and what the caller of a redis or a postgres Lock may count on: *)
(* for every set of keys, clients, tickets, handles and lease durations.   *)
(***************************************************************************)
EXTENDS ScopedLock, RedisLocker, PostgresLocker, LockerProofs

-----------------------------------------------------------------------------
(* The scoped adapter.                                                     *)

\* c's deferred release can still succeed, or has.
Unreported(c) ==
    \/ pc[c] = "clean"
    \/ pc[c] = "inside" /\ held[want[c]].owner = c

NotYetIn == {"idle", "acquiring", "sleeping"}

(* The strengthening of OverlapIsReported: of two calls that overlapped, at*)
(* most one is still the owner the locker knows, and ownership never comes *)
(* back, because a call acquires once.                                     *)
OverlapInv ==
    /\ \A c \in Client : pc[c] = "inside" => handle[c] = want[c]
    /\ \A c \in Client, k \in Key : pc[c] \in NotYetIn => held[k].owner # c
    /\ \A c \in Client : pc[c] \in NotYetIn => peers[c] = {}
    /\ \A c \in Client : \A d \in peers[c] :
          /\ d # c
          /\ pc[d] \notin NotYetIn
          /\ want[c] = want[d]
          /\ ~(Unreported(c) /\ Unreported(d))

-----------------------------------------------------------------------------
(* Only an Acquire makes anyone an owner: whoever owns a key after any     *)
(* other step of the locker owned it before.                               *)
NoNewOwner == \A k \in Key : held'[k].owner \in {held[k].owner, NoOne}

(* Every step keeps the types.                                             *)
LEMMA ScopedTyped == ScopedTypeOK /\ [ScopedNext]_scopedVars => ScopedTypeOK'
<1> SUFFICES ASSUME ScopedTypeOK, [ScopedNext]_scopedVars PROVE ScopedTypeOK'
    OBVIOUS
<1> USE LockerAssumption, ScopedAssumption
         DEF ScopedTypeOK, LockTypeOK, Waiting, Returned, Goto
<1>1. ASSUME NEW c \in Client, Enter(c) PROVE ScopedTypeOK'
    <2>1. ScopedTTL \in Nat /\ ScopedTTL \in Int
        OBVIOUS
    <2>2. Absent \in [owner : Client \cup {NoOne}, left : Int]
        BY DEF Absent, Lapsed
    <2>3. want[c] \in Key
        OBVIOUS
    <2>4. held' \in [Key -> [owner : Client \cup {NoOne}, left : Int]]
        BY <1>1, <2>1, <2>2, <2>3 DEF Enter, Acquire, Sweep
    <2>5. /\ handle' \in [Client -> Key \cup {NoKey}]
          /\ sure' \in [Client -> Nat]
        BY <1>1, <2>1, <2>3 DEF Enter, Acquire
    <2>6. peers' \in [Client -> SUBSET Client]
        BY <1>1 DEF Enter, Inside
    <2>7. pc' \in [Client -> {"idle", "inside", "dead"} \cup Waiting \cup Returned]
        BY <1>1 DEF Enter
    <2> QED BY <1>1, <2>4, <2>5, <2>6, <2>7 DEF Enter
<1>2. ASSUME NEW c \in Client, AcquireContended(want[c]) PROVE LockTypeOK'
    BY <1>2 DEF AcquireContended, Sweep, Absent, Lapsed
<1>3. ASSUME NEW c \in Client, Release(c) PROVE LockTypeOK'
    BY <1>3 DEF Release, Holds, Absent, Lapsed
<1>4. ASSUME Tick PROVE LockTypeOK'
    <2>1. \A k \in Key : Older(held[k].left) \in Int
        BY DEF Older
    <2>2. held' \in [Key -> [owner : Client \cup {NoOne}, left : Int]]
        BY <1>4, <2>1 DEF Tick
    <2> QED BY <1>4, <2>2 DEF Tick
<1>5. ASSUME Close PROVE LockTypeOK'
    BY <1>5 DEF Close, Absent, Lapsed
<1>6. ASSUME NEW c \in Client,
             \/ WithLock(c) \/ Wake(c) \/ GiveUp(c) \/ AcquireError(c)
             \/ ReleaseError(c) \/ Die(c) \/ FinishLost(c)
      PROVE ScopedTypeOK'
    BY <1>6 DEF WithLock, Wake, GiveUp, AcquireError, ReleaseError, Die,
                FinishLost, NotHeld, lockVars
<1>7. ASSUME NEW c \in Client, PollContended(c) \/ TryWithLock(c) \/ Poll(c)
      PROVE ScopedTypeOK'
    BY <1>1, <1>2, <1>7 DEF PollContended, TryWithLock, Poll
<1>8. ASSUME NEW c \in Client, Finish(c) PROVE ScopedTypeOK'
    BY <1>3, <1>8 DEF Finish
<1>9. CASE LockerStep
    BY <1>4, <1>5, <1>9 DEF LockerStep
<1>10. CASE UNCHANGED scopedVars
    BY <1>10 DEF scopedVars
<1> QED BY <1>6, <1>7, <1>8, <1>9, <1>10 DEF ScopedNext, Waits

-----------------------------------------------------------------------------
(* Every step but the start of some fn moves one call along and creates no *)
(* owner; a call that comes out clean was the owner until then.            *)
LEMMA QuietStepKeepsOverlapInv ==
    ASSUME ScopedTypeOK, OverlapInv, NoNewOwner,
           UNCHANGED <<handle, want, peers>>,
           \A c \in Client : pc[c] \notin NotYetIn => pc'[c] \notin NotYetIn,
           \A c \in Client : pc'[c] = "inside" => pc[c] = "inside",
           \A c \in Client : pc'[c] = "clean" => Unreported(c)
    PROVE  OverlapInv'
<1> USE LockerAssumption DEF ScopedTypeOK, LockTypeOK, NoNewOwner
<1>1. \A c \in Client : Unreported(c)' => Unreported(c)
    BY DEF Unreported
<1>2. \A c \in Client : pc'[c] = "inside" => handle'[c] = want'[c]
    BY DEF OverlapInv
<1>3. \A c \in Client, k \in Key : pc'[c] \in NotYetIn => held'[k].owner # c
    BY DEF OverlapInv
<1>4. \A c \in Client : pc'[c] \in NotYetIn => peers'[c] = {}
    BY DEF OverlapInv
<1>5. \A c \in Client : \A d \in peers'[c] :
          /\ d # c
          /\ pc'[d] \notin NotYetIn
          /\ want'[c] = want'[d]
          /\ ~(Unreported(c)' /\ Unreported(d)')
    BY <1>1 DEF OverlapInv
<1> QED BY <1>2, <1>3, <1>4, <1>5 DEF OverlapInv

(* Whoever enters took the key from all who are inside.                    *)
LEMMA EnterKeepsOverlapInv ==
    ASSUME ScopedTypeOK, OverlapInv, NEW c \in Client, Enter(c),
           pc[c] \in NotYetIn
    PROVE  OverlapInv'
<1> USE LockerAssumption DEF ScopedTypeOK, LockTypeOK, NotYetIn
<1>1. want[c] \in Key /\ want' = want
    BY DEF Enter
<1>2. /\ held'[want[c]].owner = c
      /\ \A k \in Key : k # want[c] => held'[k].owner \in {held[k].owner, NoOne}
    BY <1>1 DEF Enter, Acquire, Sweep, Absent
<1>3. \A d \in Client : handle'[d] = IF d = c THEN want[c] ELSE handle[d]
    BY <1>1 DEF Enter, Acquire
<1>4. \A d \in Client : pc'[d] = IF d = c THEN "inside" ELSE pc[d]
    BY DEF Enter, Goto
<1>5. /\ peers'[c] = Inside(want[c])
      /\ \A d \in Inside(want[c]) : d # c => peers'[d] = peers[d] \cup {c}
      /\ \A d \in Client \ Inside(want[c]) : d # c => peers'[d] = peers[d]
    BY DEF Enter, Inside
<1>6. \A d \in Client : c \notin peers[d]
    BY DEF OverlapInv
<1>7. \A d \in Inside(want[c]) : /\ d # c /\ d \in Client
                                 /\ pc'[d] = "inside" /\ want[d] = want[c]
                                 /\ ~Unreported(d)'
    BY <1>1, <1>2, <1>4 DEF Inside, Unreported
<1>8. \A d \in Client : d # c /\ Unreported(d)' => Unreported(d)
    BY <1>1, <1>2, <1>4 DEF Unreported
<1>9. \A d \in Client : pc'[d] = "inside" => handle'[d] = want'[d]
    BY <1>1, <1>3, <1>4 DEF OverlapInv
<1>10. \A d \in Client, k \in Key : pc'[d] \in NotYetIn => held'[k].owner # d
    BY <1>1, <1>2, <1>4 DEF OverlapInv
<1>11. \A d \in Client : pc'[d] \in NotYetIn => peers'[d] = {}
    BY <1>4, <1>5 DEF OverlapInv, Inside
<1>12. ASSUME NEW d \in Client, NEW e \in peers'[d]
       PROVE  /\ e # d
              /\ pc'[e] \notin NotYetIn
              /\ want'[d] = want'[e]
              /\ ~(Unreported(d)' /\ Unreported(e)')
    <2>1. CASE d = c
        BY <1>1, <1>5, <1>7, <1>12, <2>1
    <2>2. CASE d # c /\ e = c
        BY <1>1, <1>4, <1>5, <1>6, <1>7, <1>12, <2>2
    <2>3. CASE d # c /\ e # c
        <3>1. e \in peers[d] /\ e \in Client
            BY <1>5, <1>12, <2>3
        <3> QED BY <1>1, <1>4, <1>8, <2>3, <3>1 DEF OverlapInv
    <2> QED BY <2>1, <2>2, <2>3
<1> QED BY <1>9, <1>10, <1>11, <1>12 DEF OverlapInv

(* Every step keeps the strengthened invariant.                            *)
LEMMA OverlapInvIsKept ==
    ScopedTypeOK /\ OverlapInv /\ [ScopedNext]_scopedVars => OverlapInv'
<1> SUFFICES ASSUME ScopedTypeOK, OverlapInv, [ScopedNext]_scopedVars
             PROVE  OverlapInv'
    OBVIOUS
<1> USE LockerAssumption
<1>1. ASSUME NEW c \in Client, AcquireContended(want[c]) PROVE NoNewOwner
    BY <1>1 DEF AcquireContended, NoNewOwner, Sweep, Absent, ScopedTypeOK, LockTypeOK
<1>2. ASSUME NEW c \in Client, Release(c) PROVE NoNewOwner
    BY <1>2 DEF Release, Holds, NoNewOwner, Absent, ScopedTypeOK, LockTypeOK
<1>3. ASSUME Tick \/ Close PROVE NoNewOwner
    BY <1>3 DEF Tick, Close, NoNewOwner, Absent, ScopedTypeOK, LockTypeOK
<1>4. ASSUME UNCHANGED held PROVE NoNewOwner
    BY <1>4 DEF NoNewOwner
<1>5. ASSUME NEW c \in Client, Poll(c) \/ (pc[c] = "idle" /\ Enter(c))
      PROVE OverlapInv'
    BY <1>5, EnterKeepsOverlapInv DEF Poll, NotYetIn
<1>6. ASSUME NEW c \in Client,
             \/ WithLock(c) \/ Wake(c) \/ GiveUp(c) \/ AcquireError(c)
             \/ ReleaseError(c) \/ Die(c) \/ FinishLost(c)
      PROVE OverlapInv'
    BY <1>4, <1>6, QuietStepKeepsOverlapInv
       DEF WithLock, Wake, GiveUp, AcquireError, ReleaseError, Die, FinishLost,
           NotHeld, lockVars, Goto, NotYetIn, ScopedTypeOK, Unreported
<1>7. ASSUME NEW c \in Client, AcquireContended(want[c]),
             pc[c] \in NotYetIn,
             Goto(c, "sleeping") \/ Goto(c, "busy"),
             UNCHANGED <<want, peers>>
      PROVE OverlapInv'
    BY <1>1, <1>7, QuietStepKeepsOverlapInv
       DEF AcquireContended, Goto, NotYetIn, ScopedTypeOK, Unreported
<1>8. ASSUME NEW c \in Client, Finish(c) PROVE OverlapInv'
    <2>1. Unreported(c)
        BY <1>8 DEF Finish, Release, Holds, Unreported, OverlapInv
    <2> QED BY <1>2, <1>8, <2>1, QuietStepKeepsOverlapInv
            DEF Finish, Release, Goto, NotYetIn, ScopedTypeOK, Unreported
<1>9. CASE LockerStep
    BY <1>3, <1>9, QuietStepKeepsOverlapInv
       DEF LockerStep, Tick, Close, Unreported
<1>10. CASE UNCHANGED scopedVars
    BY <1>4, <1>10, QuietStepKeepsOverlapInv DEF scopedVars, Unreported
<1>11. ASSUME NEW c \in Client, PollContended(c) \/ TryWithLock(c)
       PROVE OverlapInv'
    BY <1>5, <1>7, <1>11 DEF PollContended, TryWithLock, NotYetIn
<1> QED BY <1>5, <1>6, <1>8, <1>9, <1>10, <1>11 DEF ScopedNext, Waits

-----------------------------------------------------------------------------
(* Two WithLock or TryWithLock calls whose fn overlapped on one key never  *)
(* both return as if they had been alone (scoped.go, run: the release error*)
(* is joined to fn's result).                                              *)
THEOREM OverlapNeverGoesUnreported == ScopedSpec => []OverlapIsReported
<1>1. ScopedInit => ScopedTypeOK /\ OverlapInv
    BY LockerAssumption
       DEF ScopedInit, LockInit, ScopedTypeOK, LockTypeOK, OverlapInv, Absent,
           Lapsed, Waiting, Returned, Unreported
<1>2. ScopedTypeOK /\ OverlapInv => OverlapIsReported
    BY DEF OverlapInv, OverlapIsReported, Unreported
<1> QED BY <1>1, <1>2, ScopedTyped, OverlapInvIsKept, PTL DEF ScopedSpec

-----------------------------------------------------------------------------
(* Scoped calls use the Locker through its own operations alone, so all    *)
(* that is proved of the Locker holds under them.                          *)
LEMMA ScopedIsALockerClient == ScopedSpec => LockSpec
<1>1. ScopedInit => LockInit
    BY DEF ScopedInit
<1>2. ScopedTypeOK /\ [ScopedNext]_scopedVars => [LockNext]_lockVars
    <2> SUFFICES ASSUME ScopedTypeOK, [ScopedNext]_scopedVars
                 PROVE  [LockNext]_lockVars
        OBVIOUS
    <2>1. \A c \in Client : want[c] \in Key
        BY DEF ScopedTypeOK
    <2>2. ASSUME NEW c \in Client, Enter(c) PROVE LockNext
        BY <2>1, <2>2, ScopedAssumption DEF Enter, LockNext
    <2>3. ASSUME NEW c \in Client, AcquireContended(want[c]) PROVE LockNext
        BY <2>1, <2>3 DEF LockNext
    <2>4. ASSUME NEW c \in Client, Finish(c) \/ FinishLost(c) PROVE LockNext
        BY <2>4 DEF Finish, FinishLost, LockNext
    <2>5. CASE LockerStep
        BY <2>5 DEF LockerStep, LockNext
    <2>6. ASSUME NEW c \in Client,
                 \/ WithLock(c) \/ Wake(c) \/ GiveUp(c) \/ AcquireError(c)
                 \/ ReleaseError(c) \/ Die(c)
          PROVE UNCHANGED lockVars
        BY <2>6 DEF WithLock, Wake, GiveUp, AcquireError, ReleaseError, Die
    <2>7. CASE UNCHANGED scopedVars
        BY <2>7 DEF scopedVars, lockVars
    <2> QED BY <2>2, <2>3, <2>4, <2>5, <2>6, <2>7
            DEF ScopedNext, Waits, Poll, PollContended, TryWithLock
<1>3. ScopedInit => ScopedTypeOK
    BY LockerAssumption
       DEF ScopedInit, LockInit, ScopedTypeOK, LockTypeOK, Absent, Lapsed, Waiting,
           Returned
<1> QED BY <1>1, <1>2, <1>3, ScopedTyped, PTL DEF ScopedSpec, LockSpec

(* As long as each fn fits in the lease its call was granted, no two fn    *)
(* bodies run for one key at a time (scoped.go, WithLock).                 *)
THEOREM FnBodiesExclude == ScopedSpec => []OverlapOnlyAfterLapse
<1>1. ScopedInit => ScopedTypeOK /\ OverlapInv
    BY LockerAssumption
       DEF ScopedInit, LockInit, ScopedTypeOK, LockTypeOK, OverlapInv, Absent,
           Lapsed, Waiting, Returned, Unreported
<1>2. Exclusive /\ OverlapInv => OverlapOnlyAfterLapse
    BY DEF OverlapInv, OverlapOnlyAfterLapse, Exclusive
<1> QED BY <1>1, <1>2, ScopedIsALockerClient, MutualExclusion, ScopedTyped,
           OverlapInvIsKept, PTL DEF ScopedSpec

-----------------------------------------------------------------------------
(* The redis Locker.                                                       *)

(* What makes TrustedIsHeld inductive: a call that was answered "yes" and  *)
(* has not returned may already count on what is left since it was sent;   *)
(* only callers who have not begun to release count on anything, and none  *)
(* whose refresh was answered "no"; nobody counts on more than the refresh *)
(* it waits for, or one it left behind, asked for; and a delete that was   *)
(* left behind belongs to one who has begun to release.                    *)
AnsweredIsHeld(t) ==
    reply[t] = "yes" /\ doing[t] # "releasing" /\ pend[t] > 0 => token = t /\ ttl >= pend[t]
CountsOnNoMore(t) ==
    /\ trust[t] <= cap[t] /\ pend[t] <= cap[t]
    /\ doing[t] \in {"acquiring", "refreshing"} => pend[t] <= Millis(asked[t])
    /\ doing[t] \in Awaiting => trust[t] <= Millis(asked[t])
    /\ \A d \in Asked : <<t, "pexpire", d>> \in leftover => cap[t] <= Millis(d)
CallerInOrder(t) ==
    /\ trust[t] > 0 => doing[t] \in {"holding", "refreshing"}
    /\ \A d \in Asked : <<t, "del", d>> \in leftover =>
                            doing[t] \in {"releasing", "leaving", "over"}
    /\ reply[t] # "none" => doing[t] \in Awaiting
    /\ reply[t] = "no" => trust[t] = 0
    /\ doing[t] = "acquiring" => asked[t] # 0
    /\ \A d \in Asked : <<t, "set", d>> \in leftover => d # 0

LeftBehindInv ==
    /\ TrustedIsHeld
    /\ \A t \in Ticket : AnsweredIsHeld(t) /\ CountsOnNoMore(t) /\ CallerInOrder(t)

RedisInv == RedisTypeOK /\ LeftBehindInv

(* A ttl in whole milliseconds is a duration no longer than it.            *)
LEMMA MillisTyped ==
    ASSUME NEW d \in Asked
    PROVE  /\ d \in 0..LongestTTL
           /\ Millis(d) \in 0..LongestTTL
           /\ d \in RedisTTL => SetMillis(d) \in 0..LongestTTL /\ SetMillis(d) > 0
           /\ d \in RedisTTL => SetMillis(d) >= Millis(d)
BY RedisAssumption DEF Asked, Millis, SetMillis

(* There is no key and nobody has called.                                  *)
LEMMA RedisStarts == RedisInit => RedisInv
BY RedisAssumption, MillisTyped
   DEF RedisInit, RedisInv, RedisTypeOK, LeftBehindInv, TrustedIsHeld, Awaiting, Op,
       Asked, AnsweredIsHeld, CountsOnNoMore, CallerInOrder

(* What the server does with one command, late or in time.                 *)
LEMMA ExecuteTyped ==
    ASSUME RedisTypeOK, NEW t \in Ticket, NEW op \in Op, NEW d \in Asked, Execute(t, op, d),
           op = "set" => d \in RedisTTL
    PROVE  token' \in Ticket \cup {NoTicket} /\ ttl' \in 0..LongestTTL
BY RedisAssumption, MillisTyped
   DEF RedisTypeOK, Execute, SetNX, RefreshScript, ReleaseScript, Op

(* A command touches a key only for its own token: SETNX meets a key that  *)
(* is there, the scripts compare first. A refresh sets its own lease.      *)
LEMMA ExecuteSparesOthers ==
    ASSUME RedisTypeOK, NEW t \in Ticket, NEW op \in Op, NEW d \in Asked, Execute(t, op, d),
           NEW u \in Ticket, token = u
    PROVE  /\ u # t \/ op = "set" => token' = u /\ ttl' = ttl
           /\ u = t /\ op = "pexpire" => /\ ttl' = Millis(d)
                                         /\ Millis(d) > 0 => token' = u
BY RedisAssumption, MillisTyped
   DEF RedisTypeOK, Execute, SetNX, RefreshScript, ReleaseScript, Op

(* Callers, the server, go-redis and time keep the invariant.              *)
LEMMA RedisInvStep == RedisInv /\ [RedisNext]_redisVars => RedisInv'
<1> SUFFICES ASSUME RedisInv, [RedisNext]_redisVars PROVE RedisInv'
  OBVIOUS
<1> USE RedisAssumption DEF RedisInv, LeftBehindInv, TrustedIsHeld
<1>1. CASE UNCHANGED redisVars
  BY <1>1 DEF redisVars, RedisTypeOK, AnsweredIsHeld, CountsOnNoMore, CallerInOrder
<1>2. ASSUME NEW t \in Ticket, NEW d \in Asked, NEW what \in Awaiting,
             NEW from, Call(t, from, what, d), what = "releasing" <=> d = 0,
             \/ what = "acquiring" /\ from = {"new"}
             \/ what = "refreshing" /\ from = {"holding"}
             \/ what = "releasing" /\ from = {"holding", "leaving"}
      PROVE RedisInv'
  <2>1. Millis(d) \in 0..LongestTTL /\ (d = 0 => Millis(d) = 0)
    BY MillisTyped DEF Millis
  <2>2. RedisTypeOK'
    BY <1>2, <2>1 DEF Call, RedisTypeOK, Shorter, Awaiting
  <2>3. ASSUME NEW u \in Ticket
        PROVE  /\ (trust[u] > 0 => token = u /\ ttl >= trust[u])'
               /\ AnsweredIsHeld(u)' /\ CountsOnNoMore(u)' /\ CallerInOrder(u)'
    <3>1. CASE u # t
      BY <1>2, <2>2, <2>3, <3>1
         DEF Call, RedisTypeOK, AnsweredIsHeld, CountsOnNoMore, CallerInOrder
    <3>2. CASE u = t
      BY <1>2, <2>1, <2>2, <2>3, <3>2
         DEF Call, RedisTypeOK, Shorter, AnsweredIsHeld, CountsOnNoMore, CallerInOrder, Awaiting
    <3> QED BY <3>1, <3>2
  <2> QED BY <2>2, <2>3
<1>3. ASSUME NEW t \in Ticket, NEW d \in RedisTTL, RedisAcquire(t, d) \/ RedisRefresh(t, d)
      PROVE RedisInv'
  <2>1. d \in Asked /\ d # 0
    BY DEF Asked
  <2> QED BY <1>2, <1>3, <2>1 DEF RedisAcquire, RedisRefresh, Awaiting
<1>4. ASSUME NEW t \in Ticket, RedisRelease(t) PROVE RedisInv'
  <2>1. 0 \in Asked
    BY DEF Asked
  <2> QED BY <1>2, <1>4, <2>1 DEF RedisRelease, Awaiting
<1>5. ASSUME NEW t \in Ticket, Answered(t) PROVE RedisInv'
  <2>1. doing[t] \in Awaiting
    BY <1>5 DEF Answered, CallerInOrder
  <2>2. doing' = [doing EXCEPT ![t] = IF doing[t] = "releasing" \/ reply[t] = "no"
                                      THEN "over" ELSE "holding"]
    <3>1. AfterNo[doing[t]] = "over"
      BY <2>1 DEF AfterNo, Awaiting
    <3>2. AfterYes[doing[t]] = IF doing[t] = "releasing" THEN "over" ELSE "holding"
      BY <2>1 DEF AfterYes, Awaiting
    <3> QED BY <1>5, <3>1, <3>2 DEF Answered, Leaves
  <2>3. RedisTypeOK'
    BY <1>5, <2>2 DEF Answered, Leaves, RedisTypeOK, Asked
  <2>4. ASSUME NEW u \in Ticket
        PROVE  /\ (trust[u] > 0 => token = u /\ ttl >= trust[u])'
               /\ AnsweredIsHeld(u)' /\ CountsOnNoMore(u)' /\ CallerInOrder(u)'
    <3>1. CASE u # t
      BY <1>5, <2>2, <2>3, <2>4, <3>1
         DEF Answered, Leaves, RedisTypeOK, AnsweredIsHeld, CountsOnNoMore, CallerInOrder
    <3>2. CASE u = t
      <4>1. trust[t] > 0 => doing[t] = "refreshing"
        BY <2>1 DEF CallerInOrder, Awaiting
      <4> QED BY <1>5, <2>1, <2>2, <2>3, <2>4, <3>2, <4>1
         DEF Answered, Leaves, RedisTypeOK, AnsweredIsHeld, CountsOnNoMore, CallerInOrder,
             Awaiting
    <3> QED BY <3>1, <3>2
  <2> QED BY <2>3, <2>4
<1>6. ASSUME NEW t \in Ticket, GivesUp(t) PROVE RedisInv'
  <2>1. asked[t] \in Asked /\ Millis(asked[t]) \in 0..LongestTTL
    BY MillisTyped DEF RedisTypeOK
  <2>2. /\ Sends[doing[t]] \in Op
        /\ doing' = [doing EXCEPT ![t] = AfterError[doing[t]]]
        /\ AfterError[doing[t]] = CASE doing[t] = "acquiring" -> "over"
                                    [] doing[t] = "refreshing" -> "holding"
                                    [] doing[t] = "releasing" -> "leaving"
        /\ Sends[doing[t]] = "del" => doing[t] = "releasing"
        /\ Sends[doing[t]] = "set" => doing[t] = "acquiring"
    BY <1>6 DEF GivesUp, Leaves, AfterError, Awaiting, Sends, Op
  <2>3. leftover' \in {leftover, leftover \cup {<<t, Sends[doing[t]], asked[t]>>}}
    BY <1>6 DEF GivesUp
  <2>4. RedisTypeOK'
    BY <1>6, <2>1, <2>2, <2>3 DEF GivesUp, Leaves, RedisTypeOK, Asked, Shorter, Awaiting
  <2>5. ASSUME NEW u \in Ticket
        PROVE  /\ (trust[u] > 0 => token = u /\ ttl >= trust[u])'
               /\ AnsweredIsHeld(u)' /\ CountsOnNoMore(u)' /\ CallerInOrder(u)'
    <3>1. CASE u # t
      BY <1>6, <2>3, <2>4, <2>5, <3>1
         DEF GivesUp, Leaves, RedisTypeOK, AnsweredIsHeld, CountsOnNoMore, CallerInOrder
    <3>2. CASE u = t
      <4>1. CallerInOrder(u)'
        BY <1>6, <2>2, <2>3, <2>4, <3>2
           DEF GivesUp, Leaves, RedisTypeOK, CallerInOrder, Awaiting
      <4>2. trust'[t] <= cap'[t] /\ pend'[t] = 0 /\ cap'[t] \in 0..LongestTTL
        BY <1>6, <2>1, <2>4 DEF GivesUp, Leaves, RedisTypeOK, Shorter, CountsOnNoMore
      <4>3. \A d \in Asked : <<t, "pexpire", d>> \in leftover' => cap'[t] <= Millis(d)
        <5>1. cap'[t] <= cap[t] /\ cap'[t] <= Millis(asked[t])
              /\ cap[t] \in Nat /\ cap'[t] \in Nat
          BY <1>6, <2>1, <2>4 DEF GivesUp, RedisTypeOK, Shorter
        <5>2. \A d \in Asked : Millis(d) \in Nat
          BY MillisTyped
        <5> QED BY <2>1, <2>3, <5>1, <5>2 DEF CountsOnNoMore
      <4>4. doing'[t] \notin Awaiting /\ reply'[t] = "none"
        BY <1>6, <2>2 DEF GivesUp, Leaves, RedisTypeOK, Awaiting
      <4> QED BY <1>6, <2>5, <3>2, <4>1, <4>2, <4>3, <4>4
              DEF GivesUp, Leaves, RedisTypeOK, AnsweredIsHeld, CountsOnNoMore, Awaiting
    <3> QED BY <3>1, <3>2
  <2> QED BY <2>4, <2>5
<1>7. ASSUME NEW t \in Ticket, Refused(t) PROVE RedisInv'
  <2>1. RedisTypeOK'
    BY <1>7 DEF Refused, Leaves, RedisTypeOK, Asked, Awaiting
  <2> QED BY <1>7, <2>1 DEF Refused, Leaves, RedisTypeOK, AnsweredIsHeld, CountsOnNoMore,
                            CallerInOrder, Awaiting
<1>8. ASSUME NEW t \in Ticket, Resend(t) PROVE RedisInv'
  BY <1>8 DEF Resend, RedisTypeOK, AnsweredIsHeld, CountsOnNoMore, CallerInOrder
<1>9. ASSUME NEW t \in Ticket, NEW op \in Op, NEW d \in Asked, Execute(t, op, d),
             op = "set" => d \in RedisTTL,
             op = "del" => trust[t] = 0 /\ (reply[t] = "yes" => doing[t] = "releasing" \/ pend[t] = 0),
             op = "pexpire" => trust[t] <= Millis(d),
             op = "pexpire" /\ doing[t] # "releasing" /\ reply[t] = "yes" => pend[t] <= Millis(d)
      PROVE /\ token' \in Ticket \cup {NoTicket} /\ ttl' \in 0..LongestTTL
            /\ \A u \in Ticket :
                  /\ trust[u] > 0 => token' = u /\ ttl' >= trust[u]
                  /\ reply[u] = "yes" /\ doing[u] # "releasing" /\ pend[u] > 0 =>
                        token' = u /\ ttl' >= pend[u]
  <2>1. token' \in Ticket \cup {NoTicket} /\ ttl' \in 0..LongestTTL
    BY <1>9, ExecuteTyped
  <2>2. Millis(d) \in 0..LongestTTL
    BY MillisTyped
  <2>3. ASSUME NEW u \in Ticket, token = u
        PROVE  /\ u # t \/ op = "set" => token' = u /\ ttl' = ttl
               /\ u = t /\ op = "pexpire" => /\ ttl' = Millis(d)
                                             /\ Millis(d) > 0 => token' = u
    BY <1>9, <2>3, ExecuteSparesOthers
  <2>4. ASSUME NEW u \in Ticket, trust[u] > 0 PROVE token' = u /\ ttl' >= trust[u]
    <3>1. token = u /\ ttl >= trust[u]
      BY <2>4
    <3> QED BY <1>9, <2>1, <2>2, <2>3, <2>4, <3>1 DEF RedisTypeOK, Op
  <2>5. ASSUME NEW u \in Ticket, reply[u] = "yes", doing[u] # "releasing", pend[u] > 0
        PROVE  token' = u /\ ttl' >= pend[u]
    <3>1. token = u /\ ttl >= pend[u]
      BY <2>5 DEF AnsweredIsHeld
    <3> QED BY <1>9, <2>1, <2>2, <2>3, <2>5, <3>1 DEF RedisTypeOK, Op
  <2> QED BY <2>1, <2>4, <2>5
<1>10. ASSUME NEW t \in Ticket, CarriesOut(t) PROVE RedisInv'
  <2> DEFINE op == Sends[doing[t]]
  <2>1. doing[t] \in Awaiting /\ asked[t] \in Asked
    BY <1>10 DEF CarriesOut, CallerInOrder, RedisTypeOK
  <2>2. /\ op \in Op
        /\ op = "del" <=> doing[t] = "releasing"
        /\ op = "pexpire" <=> doing[t] = "refreshing"
        /\ op = "set" <=> doing[t] = "acquiring"
    BY <2>1 DEF Sends, Op, Awaiting
  <2>3. Execute(t, op, asked[t]) /\ reply[t] = "sent"
        /\ reply' = [reply EXCEPT ![t] = Says(t, op)]
        /\ UNCHANGED <<doing, asked, pend, trust, cap, leftover>>
    BY <1>10 DEF CarriesOut
  <2> HIDE DEF op
  <2>4. op = "set" => asked[t] \in RedisTTL
    BY <2>1, <2>2 DEF CallerInOrder, Asked
  <2>5. op = "del" => trust[t] = 0
    BY <2>2 DEF CallerInOrder, RedisTypeOK
  <2>6. trust[t] <= Millis(asked[t])
    BY <2>1 DEF CountsOnNoMore
  <2>7. /\ token' \in Ticket \cup {NoTicket} /\ ttl' \in 0..LongestTTL
        /\ \A u \in Ticket :
              /\ trust[u] > 0 => token' = u /\ ttl' >= trust[u]
              /\ reply[u] = "yes" /\ doing[u] # "releasing" /\ pend[u] > 0 =>
                    token' = u /\ ttl' >= pend[u]
    BY <1>9, <2>1, <2>2, <2>3, <2>4, <2>5, <2>6
  <2>8. RedisTypeOK'
    BY <2>3, <2>7 DEF RedisTypeOK, Says
  <2>9. reply'[t] = "yes" /\ doing[t] # "releasing" /\ pend[t] > 0 =>
            token' = t /\ ttl' >= pend[t]
    <3>1. /\ Millis(asked[t]) \in 0..LongestTTL
          /\ op = "set" => SetMillis(asked[t]) \in 0..LongestTTL
                           /\ SetMillis(asked[t]) >= Millis(asked[t])
      BY <2>1, <2>4, MillisTyped
    <3>2. doing[t] # "releasing" => pend[t] <= Millis(asked[t]) /\ pend[t] \in Nat
      BY <2>1 DEF CountsOnNoMore, RedisTypeOK, Awaiting
    <3>3. reply'[t] = "yes" /\ op = "set" => token' = t /\ ttl' = SetMillis(asked[t])
      BY <2>2, <2>3 DEF Says, Execute, SetNX, RefreshScript, ReleaseScript, RedisTypeOK
    <3>4. reply'[t] = "yes" /\ op = "pexpire" =>
              ttl' = Millis(asked[t]) /\ (Millis(asked[t]) > 0 => token' = t)
      BY <2>2, <2>3, <3>1 DEF Says, Execute, SetNX, RefreshScript, ReleaseScript, RedisTypeOK
    <3> QED BY <2>1, <2>2, <3>1, <3>2, <3>3, <3>4 DEF Op
  <2>10. reply'[t] = "no" => trust[t] = 0
    <3>1. trust[t] > 0 => token = t /\ op = "pexpire"
      BY <2>1, <2>2 DEF CallerInOrder, Awaiting
    <3>2. reply'[t] = "no" => op = "set" \/ token # t
      BY <2>2, <2>3 DEF Says, RedisTypeOK, Op
    <3> QED BY <3>1, <3>2 DEF RedisTypeOK
  <2>11. ASSUME NEW u \in Ticket PROVE AnsweredIsHeld(u)' /\ CallerInOrder(u)'
    BY <2>1, <2>3, <2>7, <2>9, <2>10, <2>11 DEF AnsweredIsHeld, CallerInOrder, RedisTypeOK
  <2>12. ASSUME NEW u \in Ticket PROVE CountsOnNoMore(u)'
    BY <2>3, <2>12 DEF CountsOnNoMore
  <2> QED BY <2>3, <2>7, <2>8, <2>11, <2>12
<1>11. ASSUME NEW t \in Ticket, NEW op \in Op, NEW d \in Asked, CarriesOutLate(t, op, d)
       PROVE RedisInv'
  <2>1. /\ op = "set" => d \in RedisTTL
        /\ op = "pexpire" => cap[t] <= Millis(d)
        /\ op = "del" => doing[t] \in {"releasing", "leaving", "over"}
    BY <1>11 DEF CarriesOutLate, CountsOnNoMore, CallerInOrder, Asked
  <2>2. Millis(d) \in 0..LongestTTL
    BY MillisTyped
  <2>3. op = "pexpire" => trust[t] <= Millis(d) /\ pend[t] <= Millis(d)
    BY <2>1, <2>2 DEF CountsOnNoMore, RedisTypeOK
  <2>4. op = "del" => trust[t] = 0 /\ (reply[t] = "yes" => doing[t] = "releasing" \/ pend[t] = 0)
    BY <2>1 DEF CallerInOrder, RedisTypeOK, Awaiting
  <2>5. /\ token' \in Ticket \cup {NoTicket} /\ ttl' \in 0..LongestTTL
        /\ \A u \in Ticket :
              /\ trust[u] > 0 => token' = u /\ ttl' >= trust[u]
              /\ reply[u] = "yes" /\ doing[u] # "releasing" /\ pend[u] > 0 =>
                    token' = u /\ ttl' >= pend[u]
    BY <1>9, <1>11, <2>1, <2>3, <2>4 DEF CarriesOutLate
  <2>6. leftover' \subseteq leftover /\ UNCHANGED <<doing, asked, reply, pend, trust, cap>>
    BY <1>11 DEF CarriesOutLate
  <2> QED BY <2>5, <2>6 DEF RedisTypeOK, AnsweredIsHeld, CountsOnNoMore, CallerInOrder
<1>12. CASE RedisTick
  <2>1. \A t \in Ticket : /\ Less(pend[t]) \in 0..LongestTTL /\ Less(pend[t]) <= pend[t]
                          /\ Less(trust[t]) \in 0..LongestTTL /\ Less(trust[t]) <= trust[t]
                          /\ pend[t] \in Nat /\ trust[t] \in Nat /\ cap[t] \in Nat
                          /\ Millis(asked[t]) \in Nat
    BY MillisTyped DEF RedisTypeOK, Less
  <2>2. RedisTypeOK'
    BY <1>12, <2>1 DEF RedisTick, RedisTypeOK, Less
  <2>3. ASSUME NEW u \in Ticket
        PROVE  (trust[u] > 0 => token = u /\ ttl >= trust[u])' /\ AnsweredIsHeld(u)'
    BY <1>12, <2>3 DEF RedisTick, Less, RedisTypeOK, AnsweredIsHeld
  <2>4. ASSUME NEW u \in Ticket PROVE CountsOnNoMore(u)' /\ CallerInOrder(u)'
    BY <1>12, <2>1, <2>4 DEF RedisTick, RedisTypeOK, Less, CountsOnNoMore, CallerInOrder
  <2> QED BY <2>2, <2>3, <2>4
<1> QED
  BY <1>1, <1>3, <1>4, <1>5, <1>6, <1>7, <1>8, <1>10, <1>11, <1>12 DEF RedisNext

(* For any number of callers and any ttls, another one in every call: a    *)
(* caller whose Acquire or Refresh returned nil is the owner the server    *)
(* knows for the whole milliseconds left of that ttl since it called, but  *)
(* for no longer than it asked for in a Refresh begun since or one that    *)
(* failed, whatever is sent twice, answered late or carried out after its  *)
(* caller gave up (redis.go, releaseScript and refreshScript).             *)
THEOREM TrustIsEarned == RedisSpec => []TrustedIsHeld
<1>1. RedisInv => TrustedIsHeld
  BY DEF RedisInv, LeftBehindInv
<1> QED BY <1>1, RedisStarts, RedisInvStep, PTL DEF RedisSpec

-----------------------------------------------------------------------------
(* The postgres Locker.                                                    *)

(* What makes the two facts inductive. A handle without an Acquire has     *)
(* touched nothing, and its connection is of its own Locker; no two        *)
(* handles share a connection; a key is its session's until the server     *)
(* frees it; a session that answers has the keys of the handle on it, and  *)
(* no other but those of failed Acquires; and a handle that pins a         *)
(* connection is on somebody's list.                                       *)
FreshInv ==
    /\ \A h \in Handle : step[h] = "new" => /\ session[h] = "none" /\ conn[h] = h
                                            /\ h \notin pinned \cup outstanding \cup closing
    /\ \A h \in pinned : step[conn[h]] # "new"
    /\ \A h \in Handle : LockerOf[conn[h]] = LockerOf[h]
    /\ \A h \in pinned, g \in pinned : conn[g] = conn[h] => g = h

LockedInv ==
    /\ \A k \in PgKey : locks[k] # NoHandle => session[locks[k]] # "none"
    /\ \A h \in pinned : session[conn[h]] = "up" => locks[key[h]] = conn[h]
    /\ \A k \in PgKey : locks[k] # NoHandle /\ session[locks[k]] = "up" /\ k \notin lost
          => \E h \in pinned : conn[h] = locks[k] /\ key[h] = k

ListedInv ==
    \A h \in pinned : step[h] \in {"tracking", "unlocking"} \/ h \in outstanding \cup closing

(* With the types.                                                         *)
PgInv == PgTypeOK /\ FreshInv /\ LockedInv /\ ListedInv

(* What Acquire is given is nobody's: a new connection, or one in the      *)
(* pool of its own Locker.                                                 *)
LEMMA GetsOwn ==
    ASSUME PgInv, NEW h \in Handle, NEW c \in Handle, step[h] = "new", Gets(h, c)
    PROVE  /\ LockerOf[c] = LockerOf[h] /\ \A g \in pinned : conn[g] # c
           /\ c # h => step[c] # "new" /\ session[c] = "up"
           /\ c = h => session[c] = "none"
BY DEF PgInv, PgTypeOK, FreshInv, Gets, Stray

(* releaseLocked, whose unlock may fail, and which may come second.        *)
LEMMA ReleaseLockedKeeps ==
    ASSUME PgInv, NEW h \in Handle, ReleaseLocked(h), step[h] # "new",
           step' \in [Handle -> {"new", "tracking", "held", "refreshing", "unlocking", "over"}],
           step'[h] # "new", \A g \in Handle : g # h => step'[g] = step[g],
           closing' \in {closing, closing \ {h}}, UNCHANGED <<outstanding, key, lease>>
    PROVE  PgInv'
<1> USE PgAssumption DEF PgInv, ReleaseLocked
<1>0. conn[h] \in Handle /\ key[h] \in PgKey
    BY DEF PgTypeOK
<1>1. CASE h \notin pinned
    BY <1>1 DEF PgTypeOK, FreshInv, LockedInv, ListedInv
<1>2. CASE /\ h \in pinned /\ session[conn[h]] = "up"
           /\ locks' = [locks EXCEPT ![key[h]] = IF key[h] \in lost THEN conn[h] ELSE NoHandle]
           /\ session' = [session EXCEPT ![conn[h]] =
                            IF \E k \in PgKey : locks'[k] = conn[h] THEN "up" ELSE "none"]
    <2>1. PgTypeOK'
        BY <1>0, <1>2 DEF PgTypeOK
    <2>2. FreshInv'
        BY <1>0, <1>2 DEF PgTypeOK, FreshInv
    <2>3. LockedInv'
        BY <1>0, <1>2 DEF PgTypeOK, FreshInv, LockedInv
    <2>4. ListedInv'
        BY <1>2 DEF PgTypeOK, ListedInv
    <2> QED BY <2>1, <2>2, <2>3, <2>4
<1>3. CASE h \in pinned /\ UNCHANGED locks
             /\ session' = [session EXCEPT ![conn[h]] = IF @ = "up" THEN "dead" ELSE @]
    <2>1. PgTypeOK' /\ ListedInv'
        BY <1>0, <1>3 DEF PgTypeOK, ListedInv
    <2>2. FreshInv'
        BY <1>0, <1>3 DEF PgTypeOK, FreshInv
    <2>3. LockedInv'
        BY <1>0, <1>3 DEF PgTypeOK, FreshInv, LockedInv
    <2> QED BY <2>1, <2>2, <2>3
<1> QED BY <1>1, <1>2, <1>3

(* Every step of a caller, of Close, of the server and of time keeps it.   *)
LEMMA PgInvStep == PgInv /\ [PgNext]_pgVars => PgInv'
<1> SUFFICES ASSUME PgInv, [PgNext]_pgVars PROVE PgInv'
    OBVIOUS
<1> USE PgAssumption
<1>1. ASSUME NEW h \in Handle, NEW c \in Handle, TryLock(h, c) PROVE PgInv'
    <2> USE <1>1 DEF TryLock, To, PgInv
    <2>0. /\ LockerOf[c] = LockerOf[h] /\ \A g \in pinned : conn[g] # c
          /\ c # h => step[c] # "new" /\ session[c] = "up"
          /\ c = h => session[c] = "none"
        BY GetsOwn
    <2>1. PgTypeOK' /\ ListedInv'
        BY DEF PgTypeOK, ListedInv
    <2>2. FreshInv'
        BY <2>0 DEF PgTypeOK, FreshInv
    <2>3. LockedInv'
        BY <2>0 DEF PgTypeOK, FreshInv, LockedInv
    <2> QED BY <2>1, <2>2, <2>3
<1>2. ASSUME NEW h \in Handle, Track(h) PROVE PgInv'
    BY <1>2 DEF Track, To, PgInv, PgTypeOK, FreshInv, LockedInv, ListedInv
<1>3. ASSUME NEW h \in Handle, NEW c \in Handle, AcquireLost(h, c) PROVE PgInv'
    <2> USE <1>3 DEF AcquireLost, To, PgInv
    <2>0. /\ LockerOf[c] = LockerOf[h] /\ \A g \in pinned : conn[g] # c
          /\ c # h => step[c] # "new" /\ session[c] = "up"
          /\ c = h => session[c] = "none"
        BY GetsOwn
    <2>1. PgTypeOK' /\ ListedInv'
        BY DEF PgTypeOK, FreshInv, ListedInv
    <2>2. FreshInv'
        BY <2>0 DEF PgTypeOK, FreshInv
    <2>3. LockedInv'
        BY <2>0 DEF PgTypeOK, FreshInv, LockedInv
    <2> QED BY <2>1, <2>2, <2>3
<1>4. ASSUME NEW h \in Handle, AcquireRefused(h) PROVE PgInv'
    BY <1>4 DEF AcquireRefused, To, PgInv, PgTypeOK, FreshInv, LockedInv, ListedInv
<1>5. ASSUME NEW h \in Handle, PgRelease(h) \/ RefreshLapsed(h) PROVE PgInv'
    BY <1>5 DEF PgRelease, RefreshLapsed, To, PgInv, PgTypeOK, FreshInv, LockedInv, ListedInv
<1>6. ASSUME NEW h \in Handle, Unlock(h) PROVE PgInv'
    BY <1>6, ReleaseLockedKeeps DEF Unlock, To, PgInv, PgTypeOK
<1>7. ASSUME NEW h \in Handle, NotOutstanding(h) PROVE PgInv'
    BY <1>7 DEF NotOutstanding, To, PgInv, PgTypeOK, FreshInv, LockedInv, ListedInv
<1>8. ASSUME NEW h \in Handle, RefreshBegins(h) \/ PingAnswers(h) \/ PingFails(h) PROVE PgInv'
    BY <1>8 DEF RefreshBegins, PingAnswers, PingFails, To, PgInv, PgTypeOK, FreshInv,
                LockedInv, ListedInv
<1>9. ASSUME NEW h \in Handle, CloseReleases(h) PROVE PgInv'
    BY <1>9, ReleaseLockedKeeps DEF CloseReleases, PgInv, PgTypeOK, FreshInv
<1>10. ASSUME NEW h \in Handle, SessionDies(h) PROVE PgInv'
    BY <1>10 DEF SessionDies, PgInv, PgTypeOK, FreshInv, LockedInv, ListedInv
<1>11. ASSUME NEW h \in Handle, ServerReaps(h) PROVE PgInv'
    BY <1>11 DEF ServerReaps, PgInv, PgTypeOK, FreshInv, LockedInv, ListedInv
<1>12. ASSUME NEW l \in PgLocker, CloseLocker(l) PROVE PgInv'
    BY <1>12 DEF CloseLocker, PgInv, PgTypeOK, FreshInv, LockedInv, ListedInv
<1>13. ASSUME NEW l \in PgLocker, Crash(l) PROVE PgInv'
    <2> USE <1>13 DEF Crash, PgInv
    <2>1. PgTypeOK' /\ ListedInv'
        BY DEF PgTypeOK, ListedInv
    <2>2. FreshInv'
        BY DEF PgTypeOK, FreshInv
    <2>3. LockedInv'
        BY DEF PgTypeOK, FreshInv, LockedInv
    <2> QED BY <2>1, <2>2, <2>3
<1>14. CASE PgTick
    BY <1>14 DEF PgTick, Expired, PgInv, PgTypeOK, FreshInv, LockedInv, ListedInv
<1>15. CASE UNCHANGED pgVars
    BY <1>15 DEF pgVars, PgInv, PgTypeOK, FreshInv, LockedInv, ListedInv
<1> QED BY <1>1, <1>2, <1>3, <1>4, <1>5, <1>6, <1>7, <1>8, <1>9, <1>10, <1>11, <1>12,
           <1>13, <1>14, <1>15 DEF PgNext, PgStep

(* No key is taken and no connection is pinned.                            *)
LEMMA PgStarts == PgInit => PgInv
BY PgAssumption DEF PgInit, PgInv, PgTypeOK, FreshInv, LockedInv, ListedInv

(* For any Lockers, handles, keys and pool size, with sessions and         *)
(* processes that die at any time: a handle whose session answers has its  *)
(* key, alone.                                                             *)
THEOREM OneLiveSessionPerKey == PgSpec => []LiveSessionsExclude
<1>1. PgInv => LiveSessionsExclude
    BY DEF PgInv, FreshInv, LockedInv, LiveSessionsExclude
<1> QED BY <1>1, PgStarts, PgInvStep, PTL DEF PgSpec

(* A connection out of the pool always has somebody to give it back, and   *)
(* so has a key, whatever of Release, Refresh and Close fails or meets     *)
(* another: except the key of an Acquire whose answer could not be read,   *)
(* which stays with a connection in the pool.                              *)
THEOREM NothingIsLeaked == PgSpec => []NothingIsOrphaned
<1>1. PgInv => NothingIsOrphaned
    BY PgAssumption DEF PgInv, PgTypeOK, LockedInv, ListedInv, NothingIsOrphaned
<1> QED BY <1>1, PgStarts, PgInvStep, PTL DEF PgSpec
=============================================================================
