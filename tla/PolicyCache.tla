---------------------------- MODULE PolicyCache ----------------------------
(***************************************************************************)
(* authorization/cached: a Resolver memoizes what roles may do in a cache  *)
(* its process has alone, or shares with others. InvalidateAll changes the *)
(* generation that its keys carry.                                         *)
(*                                                                         *)
(* One set of roles is modelled: keys of different sets share nothing but  *)
(* the generation. The policy is known by its edits, which are counted; an *)
(* entry's TTL may run out at any time.                                    *)
(***************************************************************************)
EXTENDS Naturals

CONSTANTS Proc, Ask,     \* processes, and calls of PermissionsForRoles
          Shared,        \* whether the processes share one cache
          MaxEdits,      \* bound: edits of the policy
          MaxBumps       \* bound: InvalidateAlls of one process

ASSUME PolicyAssumption ==
    /\ Shared \in BOOLEAN
    /\ MaxEdits \in Nat /\ MaxBumps \in Nat
    /\ "shared" \notin Proc

VARIABLES policy,      \* the inner resolver's answer
          generation,  \* each Resolver's counter
          cachedPerms,  \* cachedPerms[x]: (generation, answer) pairs in the cache x
          asking,      \* where each call is
          askedOf,     \* the process of each call
          keyed,       \* the generation in its key
          answer,      \* its answer
          settled,     \* the policy at a process's last InvalidateAll
          due          \* settled when the call began

policyVars == <<policy, generation, cachedPerms, asking, askedOf, keyed, answer, settled, due>>
askVars == <<asking, askedOf, keyed, answer, due>>

Cache == IF Shared THEN {"shared"} ELSE Proc
CacheOf(p) == IF Shared THEN "shared" ELSE p

PolicyTypeOK ==
    /\ policy \in 0..MaxEdits /\ settled \in [Proc -> 0..MaxEdits]
    /\ generation \in [Proc -> 0..MaxBumps]
    /\ cachedPerms \in [Cache -> SUBSET ((0..MaxBumps) \X (0..MaxEdits))]
    /\ asking \in [Ask -> {"no", "reading", "resolving", "storing", "answered"}]
    /\ askedOf \in [Ask -> Proc] /\ keyed \in [Ask -> 0..MaxBumps]
    /\ answer \in [Ask -> 0..MaxEdits] /\ due \in [Ask -> 0..MaxEdits]

PolicyInit ==
    /\ policy = 0 /\ settled = [p \in Proc |-> 0]
    /\ generation = [p \in Proc |-> 0]
    /\ cachedPerms = [x \in Cache |-> {}]
    /\ asking = [a \in Ask |-> "no"]
    /\ askedOf \in [Ask -> Proc] /\ keyed = [a \in Ask |-> 0]
    /\ answer = [a \in Ask |-> 0] /\ due = [a \in Ask |-> 0]

-----------------------------------------------------------------------------
EditPolicy ==
    /\ policy < MaxEdits
    /\ policy' = policy + 1
    /\ UNCHANGED <<generation, cachedPerms, askVars, settled>>

InvalidateAll(p) ==
    /\ generation[p] < MaxBumps
    /\ generation' = [generation EXCEPT ![p] = @ + 1]
    /\ settled' = [settled EXCEPT ![p] = policy]
    /\ UNCHANGED <<policy, cachedPerms, askVars>>

Under(x, g) == {e \in cachedPerms[x] : e[1] = g}
Drop(x, g) == cachedPerms' = [cachedPerms EXCEPT ![x] = @ \ Under(x, g)]

Invalidate(p) ==
    /\ Drop(CacheOf(p), generation[p])
    /\ UNCHANGED <<policy, generation, askVars, settled>>

Expire(x, g) ==
    /\ Under(x, g) # {} /\ Drop(x, g)
    /\ UNCHANGED <<policy, generation, askVars, settled>>

\* The counter is the process's, and so is a cache that is not shared.
Restart(p) ==
    /\ generation' = [generation EXCEPT ![p] = 0]
    /\ settled' = [settled EXCEPT ![p] = 0]
    /\ cachedPerms' = IF Shared THEN cachedPerms ELSE [cachedPerms EXCEPT ![p] = {}]
    /\ asking' = [a \in Ask |-> IF askedOf[a] = p THEN "no" ELSE asking[a]]
    /\ UNCHANGED <<policy, askedOf, keyed, answer, due>>

-----------------------------------------------------------------------------
(* PermissionsForRoles.                                                    *)
Gets(a, from, where) == asking[a] = from /\ asking' = [asking EXCEPT ![a] = where]

Asks(a, p) ==
    /\ asking[a] \in {"no", "answered"}
    /\ asking' = [asking EXCEPT ![a] = "reading"]
    /\ askedOf' = [askedOf EXCEPT ![a] = p]
    /\ keyed' = [keyed EXCEPT ![a] = generation[p]]
    /\ due' = [due EXCEPT ![a] = settled[p]]
    /\ UNCHANGED <<policy, generation, cachedPerms, answer, settled>>

CacheHits(a) ==
    /\ Gets(a, "reading", "answered")
    /\ \E e \in Under(CacheOf(askedOf[a]), keyed[a]) :
          answer' = [answer EXCEPT ![a] = e[2]]
    /\ UNCHANGED <<policy, generation, cachedPerms, askedOf, keyed, settled, due>>

\* A miss, or a fault, which is treated as one.
CacheMisses(a) ==
    /\ Gets(a, "reading", "resolving")
    /\ UNCHANGED <<policy, generation, cachedPerms, askedOf, keyed, answer, settled, due>>

Resolves(a) ==
    /\ Gets(a, "resolving", "storing")
    /\ answer' = [answer EXCEPT ![a] = policy]
    /\ UNCHANGED <<policy, generation, cachedPerms, askedOf, keyed, settled, due>>

ResolveFails(a) ==
    /\ Gets(a, "resolving", "no")
    /\ UNCHANGED <<policy, generation, cachedPerms, askedOf, keyed, answer, settled, due>>

Puts(x, g, v) == cachedPerms' = [cachedPerms EXCEPT ![x] = (@ \ Under(x, g)) \cup {<<g, v>>}]

(* Variant: the key is built anew for the write.                           *)
StoresRekeyed(a) ==
    /\ Gets(a, "storing", "answered")
    /\ Puts(CacheOf(askedOf[a]), generation[askedOf[a]], answer[a])
    /\ UNCHANGED <<policy, generation, askedOf, keyed, answer, settled, due>>

Stores(a) ==
    /\ Gets(a, "storing", "answered")
    /\ Puts(CacheOf(askedOf[a]), keyed[a], answer[a])
    /\ UNCHANGED <<policy, generation, askedOf, keyed, answer, settled, due>>

StoreFails(a) ==
    /\ Gets(a, "storing", "answered")
    /\ UNCHANGED <<policy, generation, cachedPerms, askedOf, keyed, answer, settled, due>>

PolicyNext ==
    \/ EditPolicy
    \/ \E p \in Proc : InvalidateAll(p) \/ Invalidate(p) \/ Restart(p)
    \/ \E x \in Cache, g \in 0..MaxBumps : Expire(x, g)
    \/ \E a \in Ask, p \in Proc : Asks(a, p)
    \/ \E a \in Ask : \/ CacheHits(a) \/ CacheMisses(a) \/ Resolves(a)
                      \/ ResolveFails(a) \/ Stores(a) \/ StoreFails(a)

PolicySpec == PolicyInit /\ [][PolicyNext]_policyVars

-----------------------------------------------------------------------------
(* A process that edited the policy and called InvalidateAll serves, to    *)
(* every call that begins afterwards, that edit or a later one, although   *)
(* resolutions begun before are still being stored (cached.go,             *)
(* InvalidateAll: "so that the process that made the change stops serving  *)
(* what it just replaced"). True of a cache the process has alone.         *)
FreshAfterInvalidateAll ==
    \A a \in Ask : asking[a] = "answered" => answer[a] >= due[a]
=============================================================================
