--------------------------- MODULE PostgresLocker ---------------------------
(***************************************************************************)
(* distributedlock/postgres: a lock is a session-level advisory lock on a  *)
(* connection pinned for as long as the handle lives.  The server knows no *)
(* TTL: the deadline is kept by the handle, and a lapsed lease still holds *)
(* its key until the handle is used, its Locker closed or its session      *)
(* ended.                                                                  *)
(*                                                                         *)
(* A Handle is one Acquire and what its caller then does with the Lock;    *)
(* a connection is named after the handle it was opened for, and is given  *)
(* to others from the pool.  Of the idle connections only those are kept   *)
(* track of whose session has an advisory lock: an Acquire that failed     *)
(* after the server had taken the lock leaves one.  Handles of several     *)
(* Lockers, in one process or in many, meet at the server.  Acquire,       *)
(* Release, Refresh and Close are one step per statement or critical       *)
(* section, with everybody else in between.                                *)
(***************************************************************************)
EXTENDS Integers, FiniteSets

CONSTANTS PgKey, Handle,
          PgLocker, LockerOf,   \* LockerOf[h]: the Locker h is acquired from
          PoolSize,             \* connections in a Locker's write pool
          PgTTL,                \* the TTL of every lease
          NoHandle

ASSUME PgAssumption ==
    /\ LockerOf \in [Handle -> PgLocker]
    /\ PoolSize \in Nat /\ PgTTL \in Nat
    /\ NoHandle \notin Handle

VARIABLES locks,        \* the server: locks[k] is the connection holding k
          lost,         \* keys that are held once more, for an Acquire that failed
          session,      \* the session behind a connection
          conn,         \* the connection of a handle
          pinned,       \* handles whose connection is out of the pool
          outstanding,  \* Locker.outstanding
          closing,      \* handles a Close has taken and not yet released
          step,         \* where the owner of a handle is
          key,          \* the key of a handle
          lease         \* time left on a handle; -1 is expired

pgVars == <<locks, lost, session, conn, pinned, outstanding, closing, step, key, lease>>

PgTypeOK ==
    /\ locks \in [PgKey -> Handle \cup {NoHandle}] /\ lost \subseteq PgKey
    /\ session \in [Handle -> {"none", "up", "dead"}] /\ conn \in [Handle -> Handle]
    /\ pinned \subseteq Handle /\ outstanding \subseteq Handle /\ closing \subseteq Handle
    /\ step \in [Handle -> {"new", "tracking", "held", "refreshing", "unlocking", "over"}]
    /\ key \in [Handle -> PgKey]
    /\ lease \in [Handle -> -1..PgTTL]

PgInit ==
    /\ locks = [k \in PgKey |-> NoHandle] /\ lost = {}
    /\ session = [h \in Handle |-> "none"] /\ conn = [h \in Handle |-> h]
    /\ pinned = {} /\ outstanding = {} /\ closing = {}
    /\ step = [h \in Handle |-> "new"]
    /\ key \in [Handle -> PgKey]
    /\ lease = [h \in Handle |-> -1]

To(h, where) == step' = [step EXCEPT ![h] = where]
Expired(h) == lease[h] < 0

\* Connections in the pool with a lock on, and what a handle may be given:
\* one of those, or another, as long as the pool may hold one more.
Stray(c) == session[c] = "up" /\ \A g \in pinned : conn[g] # c
Room(l) ==
    LET open == pinned \cup {c \in Handle : Stray(c)}
    IN  Cardinality({h \in open : LockerOf[h] = l}) < PoolSize
Gets(h, c) ==
    \/ c = h /\ Room(LockerOf[h])
    \/ c # h /\ Stray(c) /\ LockerOf[c] = LockerOf[h]

-----------------------------------------------------------------------------
(* Acquire: a connection, the try-lock on it, then the outstanding map. A  *)
(* session that has the lock is given it once more.                        *)
TryLock(h, c) ==
    /\ step[h] = "new" /\ Gets(h, c)
    /\ locks[key[h]] \in {NoHandle, c}
    /\ locks' = [locks EXCEPT ![key[h]] = c]
    /\ session' = [session EXCEPT ![c] = "up"]
    /\ conn' = [conn EXCEPT ![h] = c]
    /\ pinned' = pinned \cup {h}
    /\ To(h, "tracking")
    /\ UNCHANGED <<lost, outstanding, closing, key, lease>>

Track(h) ==
    /\ step[h] = "tracking"
    /\ outstanding' = outstanding \cup {h}
    /\ lease' = [lease EXCEPT ![h] = PgTTL]
    /\ To(h, "held")
    /\ UNCHANGED <<locks, lost, session, conn, pinned, closing, key>>

(* The server took the lock and Scan fails: the session is gone and the    *)
(* driver discards the connection, or it is well, the context having ended *)
(* after the answer, and Close puts it back in the pool with the lock on.  *)
AcquireLost(h, c) ==
    /\ step[h] = "new" /\ Gets(h, c)
    /\ locks[key[h]] \in {NoHandle, c}
    /\ locks' = [locks EXCEPT ![key[h]] = c]
    /\ \/ session' = [session EXCEPT ![c] = "dead"] /\ UNCHANGED lost
       \/ session' = [session EXCEPT ![c] = "up"] /\ lost' = lost \cup {key[h]}
    /\ To(h, "over")
    /\ UNCHANGED <<conn, pinned, outstanding, closing, key, lease>>

(* Contention, a saturated pool, an open breaker or a query that failed    *)
(* before the server: the connection goes back, and nothing was locked.    *)
AcquireRefused(h) ==
    /\ step[h] = "new"
    /\ To(h, "over")
    /\ UNCHANGED <<locks, lost, session, conn, pinned, outstanding, closing, key, lease>>

-----------------------------------------------------------------------------
(* releaseLocked: the unlock, and the connection back to the pool; when    *)
(* the unlock fails the connection is discarded, and the server frees the  *)
(* session's locks once it sees that it is gone. A key that the session    *)
(* had taken more than once stays taken. A second releaseLocked of one     *)
(* handle finds its connection closed.                                     *)
ReleaseLocked(h) ==
    LET c == conn[h]
    IN  /\ pinned' = pinned \ {h}
        /\ UNCHANGED <<lost, conn>>
        /\ IF h \notin pinned
           THEN UNCHANGED <<locks, session>>
           ELSE \/ /\ session[c] = "up"
                   /\ locks' = [locks EXCEPT ![key[h]] = IF key[h] \in lost THEN c ELSE NoHandle]
                   /\ session' = [session EXCEPT ![c] =
                                    IF \E k \in PgKey : locks'[k] = c THEN "up" ELSE "none"]
                \/ /\ session' = [session EXCEPT ![c] = IF @ = "up" THEN "dead" ELSE @]
                   /\ UNCHANGED locks

PgRelease(h) ==
    /\ step[h] = "held" /\ h \in outstanding
    /\ outstanding' = outstanding \ {h}
    /\ To(h, "unlocking")
    /\ UNCHANGED <<locks, lost, session, conn, pinned, closing, key, lease>>

Unlock(h) ==
    /\ step[h] = "unlocking"
    /\ ReleaseLocked(h)
    /\ To(h, "over")
    /\ UNCHANGED <<outstanding, closing, key, lease>>

(* Release or Refresh of a handle that Close has taken.                    *)
NotOutstanding(h) ==
    /\ step[h] = "held" /\ h \notin outstanding
    /\ To(h, "over")
    /\ UNCHANGED <<locks, lost, session, conn, pinned, outstanding, closing, key, lease>>

-----------------------------------------------------------------------------
(* Refresh: the check of the map, of the deadline, then the ping.          *)
RefreshBegins(h) ==
    /\ step[h] = "held" /\ h \in outstanding
    /\ To(h, "refreshing")
    /\ UNCHANGED <<locks, lost, session, conn, pinned, outstanding, closing, key, lease>>

(* Variant: an expired handle is dropped without unlocking its session.    *)
RefreshLapsedDrops(h) ==
    /\ step[h] = "refreshing" /\ Expired(h)
    /\ outstanding' = outstanding \ {h}
    /\ To(h, "over")
    /\ UNCHANGED <<locks, lost, session, conn, pinned, closing, key, lease>>

RefreshLapsed(h) ==
    /\ step[h] = "refreshing" /\ Expired(h)
    /\ outstanding' = outstanding \ {h}
    /\ To(h, "unlocking")
    /\ UNCHANGED <<locks, lost, session, conn, pinned, closing, key, lease>>

PingAnswers(h) ==
    /\ step[h] = "refreshing" /\ ~Expired(h)
    /\ h \in pinned /\ session[conn[h]] = "up"
    /\ lease' = [lease EXCEPT ![h] = PgTTL]
    /\ To(h, "held")
    /\ UNCHANGED <<locks, lost, session, conn, pinned, outstanding, closing, key>>

(* A failed ping reports ErrLockNotHeld and leaves the handle as it is.    *)
PingFails(h) ==
    /\ step[h] = "refreshing" /\ ~Expired(h)
    /\ To(h, "held")
    /\ UNCHANGED <<locks, lost, session, conn, pinned, outstanding, closing, key, lease>>

-----------------------------------------------------------------------------
(* Close takes the whole map, then releases its handles one by one.        *)
CloseLocker(l) ==
    /\ \E h \in outstanding : LockerOf[h] = l
    /\ outstanding' = {h \in outstanding : LockerOf[h] # l}
    /\ closing' = closing \cup (outstanding \ outstanding')
    /\ UNCHANGED <<locks, lost, session, conn, pinned, step, key, lease>>

CloseReleases(h) ==
    /\ h \in closing
    /\ closing' = closing \ {h}
    /\ ReleaseLocked(h)
    /\ UNCHANGED <<outstanding, step, key, lease>>

-----------------------------------------------------------------------------
(* The server, the network, a process that dies, and time.                 *)
SessionDies(c) ==
    /\ session[c] = "up"
    /\ session' = [session EXCEPT ![c] = "dead"]
    /\ UNCHANGED <<locks, lost, conn, pinned, outstanding, closing, step, key, lease>>

\* database/sql closes an idle connection that outlived its ConnMaxLifetime.
ConnAges(c) == Stray(c) /\ SessionDies(c)

ServerReaps(c) ==
    /\ session[c] = "dead"
    /\ locks' = [k \in PgKey |-> IF locks[k] = c THEN NoHandle ELSE locks[k]]
    /\ lost' = {k \in lost : locks[k] # c}
    /\ session' = [session EXCEPT ![c] = "none"]
    /\ UNCHANGED <<conn, pinned, outstanding, closing, step, key, lease>>

Crash(l) ==
    LET own == {h \in Handle : LockerOf[h] = l}
    IN  /\ \E h \in own : step[h] \notin {"new", "over"} \/ session[h] = "up"
        /\ step' = [h \in Handle |-> IF h \in own THEN "over" ELSE step[h]]
        /\ session' = [h \in Handle |->
                         IF h \in own /\ session[h] = "up" THEN "dead" ELSE session[h]]
        /\ pinned' = pinned \ own
        /\ outstanding' = outstanding \ own
        /\ closing' = closing \ own
        /\ UNCHANGED <<locks, lost, conn, key, lease>>

PgTick ==
    /\ lease' = [h \in Handle |-> IF Expired(h) THEN -1 ELSE lease[h] - 1]
    /\ UNCHANGED <<locks, lost, session, conn, pinned, outstanding, closing, step, key>>

PgStep(h) ==
    \/ \E c \in Handle : TryLock(h, c) \/ AcquireLost(h, c)
    \/ Track(h) \/ AcquireRefused(h)
    \/ PgRelease(h) \/ Unlock(h) \/ NotOutstanding(h)
    \/ RefreshBegins(h) \/ RefreshLapsed(h) \/ PingAnswers(h) \/ PingFails(h)
    \/ CloseReleases(h) \/ SessionDies(h) \/ ServerReaps(h)

PgNext ==
    \/ \E h \in Handle : PgStep(h)
    \/ \E l \in PgLocker : CloseLocker(l) \/ Crash(l)
    \/ PgTick

PgSpec == PgInit /\ [][PgNext]_pgVars

-----------------------------------------------------------------------------
(* A handle whose session answers has its key at the server, and no other  *)
(* handle of that key is on a session that answers, whatever a racing      *)
(* Close, a release or an Acquire that failed and sessions the server has  *)
(* not yet found dead left behind: so a Refresh whose ping was answered    *)
(* found its caller alone (postgres.go, refresh: "validates that the       *)
(* underlying conn is still alive").                                       *)
LiveSessionsExclude ==
    \A h \in pinned : session[conn[h]] = "up" =>
        /\ locks[key[h]] = conn[h]
        /\ \A g \in pinned \ {h} : key[g] = key[h] => session[conn[g]] # "up"

(* While a connection is out of the pool somebody is there to give it      *)
(* back: the caller of Acquire or of Release, Close, or the outstanding    *)
(* map. While a key is taken, the session that has it is one which the     *)
(* server will find dead, or is that of such a handle of the key; only an  *)
(* Acquire that failed leaves a key to a connection in the pool. That is   *)
(* what GivenUpIsFreed rests on.                                           *)
NothingIsOrphaned ==
    /\ \A h \in pinned :
          step[h] \in {"tracking", "unlocking"} \/ h \in outstanding \cup closing
    /\ \A k \in PgKey :
          \/ locks[k] = NoHandle \/ session[locks[k]] = "dead" \/ k \in lost
          \/ \E h \in pinned : conn[h] = locks[k] /\ key[h] = k

\* Its caller still has the handle: Acquire returns it, or the map has it.
InUse(h) == h \in pinned /\ (step[h] = "tracking" \/ h \in outstanding)

(* A handle that has left the outstanding map gives back both what it      *)
(* pinned: the connection of the pool and the key at the server. That is   *)
(* so for a release that fails, one that comes late, one that races Close, *)
(* and a process that dies ("free it so it isn't leaked"). What an Acquire *)
(* took that failed is given back too, but only when the connection ages   *)
(* out or dies, and not while another handle uses that connection          *)
(* (postgres.go, releaseLocked: "Returning the conn healthy to the pool    *)
(* would leak the lock until the conn ages out").                          *)
GivenUpIsFreed ==
    /\ \A h \in Handle : h \in pinned /\ ~InUse(h) ~> h \notin pinned
    /\ \A k \in PgKey :
          LET Used == \E h \in Handle : InUse(h) /\ conn[h] = locks[k]
          IN  locks[k] # NoHandle /\ ~Used ~> locks[k] = NoHandle \/ Used
=============================================================================
