------------------------------ MODULE MCLocks ------------------------------
(* The Lockers and the scoped adapter, which share no state here: a        *)
(* behaviour is one of the bare memory Locker, of scoped calls over it, or *)
(* of the postgres Locker.                                                 *)
(* Two keys, so that the sweep of one Acquire meets another key's entry;   *)
(* three clients, so that a stale handle meets a lease two owners younger. *)
(* Three handles of two postgres Lockers, the first of which has two       *)
(* handles and one connection; they meet on one key, and the second of     *)
(* them may want another. A lease of theirs lasts until the next tick.     *)
EXTENDS ScopedLock, PostgresLocker

CONSTANTS k1, k2, h1, h2, h3, l1, l2

MCLockerOf == [h \in Handle |-> IF h = h3 THEN l2 ELSE l1]

VARIABLE part

Init ==
    /\ part \in {"memory", "scoped", "postgres"}
    /\ ScopedInit /\ (part = "scoped" \/ want = [c \in Client |-> k1])
    /\ PgInit /\ key[h1] = k1 /\ key[h3] = k1 /\ (part = "postgres" \/ key[h2] = k1)
Next ==
    /\ UNCHANGED part
    /\ \/ part = "memory" /\ LockNext /\ UNCHANGED <<pc, want, peers, pgVars>>
       \/ part = "scoped" /\ ScopedNext /\ UNCHANGED pgVars
       \/ part = "postgres" /\ PgNext /\ UNCHANGED scopedVars

(* The runtime keeps scheduling a waiter's loop, and time passes; nothing  *)
(* is assumed of fn. A releaseLocked that has begun runs to its end, the   *)
(* server notices a session that is gone, and database/sql closes an idle  *)
(* connection that has outlived its lifetime (database/config: 30 minutes  *)
(* unless told otherwise).                                                 *)
Scoped(A) == part = "scoped" /\ A
Pg(A) == part = "postgres" /\ A

Spec ==
    /\ Init /\ [][Next]_<<part, scopedVars, pgVars>>
    /\ \A c \in Client : WF_scopedVars(Scoped(Waits(c)))
    /\ WF_scopedVars(Scoped(Tick /\ UNCHANGED <<pc, want, peers>>))
    /\ \A h \in Handle :
          /\ WF_pgVars(Pg(Unlock(h)))
          /\ WF_pgVars(Pg(CloseReleases(h)))
          /\ WF_pgVars(Pg(ServerReaps(h)))
          /\ WF_pgVars(Pg(ConnAges(h)))
=============================================================================
