----------------------------- MODULE LeaseLock -----------------------------
(***************************************************************************)
(* What a distributedlock.Locker promises, whatever backs it: a key is     *)
(* granted only while nobody's lease on it is in force; a lease lapses on  *)
(* its own; a lapsed lease can be revived, but only for the key's latest   *)
(* grantee, and only until somebody else is granted the key.               *)
(***************************************************************************)
CONSTANTS Key, Client, NoOne

VARIABLES owner,   \* owner[k]: the client whose lease on k is in force
          latest   \* latest[k]: the last grantee of k, until it gives k up

leaseVars == <<owner, latest>>

Unowned == {k \in Key : owner[k] = NoOne}

Init == /\ owner = [k \in Key |-> NoOne]
        /\ latest = [k \in Key |-> NoOne]

(* The store may forget any lapsed lease, and its chance of revival.       *)
Forgetting(gone) == [k \in Key |-> IF k \in gone THEN NoOne ELSE latest[k]]

Forget == /\ \E gone \in SUBSET Unowned : latest' = Forgetting(gone)
          /\ UNCHANGED owner

(* A free key is granted; the grant may sweep lapsed leases as it goes.    *)
Grant(c, k) ==
    /\ k \in Unowned
    /\ owner' = [owner EXCEPT ![k] = c]
    /\ \E gone \in SUBSET Unowned : 
          latest' = [Forgetting(gone) EXCEPT ![k] = c]

(* Some leases run out. Their holders are not told.                        *)
Lapse ==
    /\ \E lapsed \in SUBSET Key :
          owner' = [k \in Key |-> IF k \in lapsed THEN NoOne ELSE owner[k]]
    /\ UNCHANGED latest

(* The latest grantee renews its lease, lapsed or not.                     *)
Renew(k) ==
    /\ latest[k] # NoOne
    /\ owner[k] \in {NoOne, latest[k]}
    /\ owner' = [owner EXCEPT ![k] = latest[k]]
    /\ UNCHANGED latest

(* Keys are given up for good: one by Release, every one by Close.         *)
Yield(given) ==
    /\ owner' = [k \in Key |-> IF k \in given THEN NoOne ELSE owner[k]]
    /\ latest' = Forgetting(given)

Next == \/ \E c \in Client, k \in Key : Grant(c, k)
        \/ \E k \in Key : Renew(k)
        \/ \E given \in SUBSET Key : Yield(given)
        \/ Lapse
        \/ Forget

Spec == Init /\ [][Next]_leaseVars
=============================================================================
