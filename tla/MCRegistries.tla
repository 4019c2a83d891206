---------------------------- MODULE MCRegistries ----------------------------
(* Four maps that requests share with a background goroutine, or with      *)
(* other requests, in four kinds of behaviour: the memory cache with its   *)
(* janitor, the secret cache with its refresh, the rate limiter with its   *)
(* sweep, the cached policy. The cache holds one of two keys, so that      *)
(* every write can evict; a reader calls it again and again, and a writer  *)
(* brings what it read a while ago. One secret changes twice; its reader   *)
(* may give up and call again while the flight it began, or one of the     *)
(* refresh, is still under way, and its hook may run late.                 *)
(* Two calls of two keys meet a limiter of one, so that a pass always      *)
(* finds something to drop, and a key can come back while it runs. Two     *)
(* calls of the cached resolver of one process, while the policy is edited *)
(* twice.                                                                  *)
EXTENDS MemoryCache, CachingSource, RateLimiter, PolicyCache, TLC

\* The keys of the memory cache are alike.
KeySymmetry == Permutations(CacheKey)

VARIABLE part

Init ==
    /\ part \in {"cache", "secrets", "limiter", "policy"}
    /\ CacheInit /\ SecretInit /\ LimInit /\ PolicyInit
Next ==
    /\ UNCHANGED part
    /\ \/ part = "cache" /\ CacheNext /\ UNCHANGED <<secretVars, limVars, policyVars>>
       \/ part = "secrets" /\ SecretNext /\ UNCHANGED <<cacheVars, limVars, policyVars>>
       \/ part = "limiter" /\ LimNext /\ UNCHANGED <<cacheVars, secretVars, policyVars>>
       \/ part = "policy" /\ PolicyNext /\ UNCHANGED <<cacheVars, secretVars, limVars>>

Spec == Init /\ [][Next]_<<part, cacheVars, secretVars, limVars, policyVars>>
=============================================================================
