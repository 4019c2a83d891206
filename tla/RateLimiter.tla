----------------------------- MODULE RateLimiter -----------------------------
(***************************************************************************)
(* ratelimiting.InMemoryRateLimiter: the map of per-key limiters, the      *)
(* count kept beside it, the sweep of idle keys and the eviction that      *)
(* answers for the bound.                                                  *)
(*                                                                         *)
(* The map has no lock: a load, a LoadOrStore, a CompareAndDelete and each *)
(* step of the counter is atomic and nothing wider is.  An entry that left *)
(* the map never returns to it, so a scan that still points to one is only *)
(* to find it gone: the delete of an entry takes it out of every scan.     *)
(* What a bucket allows is the rate library's and is left out.             *)
(***************************************************************************)
EXTENDS Integers, FiniteSets

CONSTANTS LimKey,
          Consult,        \* calls of Allow
          Sweeper,        \* the goroutine of sweepEvery
          MaxLimiters, HeadroomDivisor,
          IdleTTL, MaxClock,   \* MaxClock bounds the run's time
          NoLimiter

ASSUME LimiterAssumption ==
    /\ MaxLimiters \in Nat \ {0} /\ HeadroomDivisor \in Nat \ {0}
    /\ IdleTTL \in Nat \ {0} /\ MaxClock \in Nat
    /\ Sweeper \notin Consult /\ NoLimiter \notin LimKey \cup Consult \cup Nat
    /\ IsFiniteSet(LimKey) /\ IsFiniteSet(Consult)

VARIABLES limiters,  \* the map: lastSeen of a key's entry, or NoLimiter
          tracked,   \* the counter
          clock,
          evicting,  \* who holds the mutex of a capacity pass
          go,        \* where a call or the sweeper is, and its locals
          limClosed, \* Close: stop closed, the sweeper gone, the map cleared
          skipped    \* ghost: inserts that left the bound to the running pass

limVars == <<limiters, tracked, clock, evicting, go, limClosed, skipped>>

Actor == Consult \cup {Sweeper}
Rest == [at |-> "rest", key |-> NoLimiter, now |-> 0, todo |-> {}, over |-> 0]
MaxOf(a, b) == IF a > b THEN a ELSE b
MinOf(a, b) == IF a < b THEN a ELSE b
TargetSize == MaxOf(MaxLimiters - MaxLimiters \div HeadroomDivisor, 1)

LimTypeOK ==
    /\ limiters \in [LimKey -> 0..MaxClock \cup {NoLimiter}]
    /\ tracked \in Int /\ clock \in 0..MaxClock
    /\ evicting \in Consult \cup {NoLimiter}
    /\ \A a \in Actor :
         /\ go[a].at \in {"rest", "store", "count", "bound", "lock", "recheck", "sweep",
                          "drop", "uncount", "over", "scan", "evict", "discount"}
         /\ go[a].key \in LimKey \cup {NoLimiter}
         /\ go[a].now \in 0..MaxClock /\ go[a].over \in Int
    /\ limClosed \in {"open", "stopped", "cleared", "closed"}
    /\ skipped \in 0..Cardinality(LimKey)

LimInit ==
    /\ limiters = [k \in LimKey |-> NoLimiter]
    /\ tracked = 0 /\ clock = 0 /\ evicting = NoLimiter
    /\ go = [a \in Actor |-> Rest]
    /\ limClosed = "open" /\ skipped = 0

-----------------------------------------------------------------------------
Mapped == {k \in LimKey : limiters[k] # NoLimiter}
OverBound == tracked > MaxLimiters
At(a, where) == go' = [go EXCEPT ![a].at = where]
Leaves(a) == go' = [go EXCEPT ![a] = Rest]

\* The entry of k leaves the map: nobody's reference to it is good any more.
Forgetting(g, k) == [a \in Actor |->
    IF g[a].at = "drop" /\ g[a].key = k THEN [g[a] EXCEPT !.key = NoLimiter]
    ELSE IF g[a].at \in {"evict", "discount"}
         THEN [g[a] EXCEPT !.todo = {t \in @ : t[1] # k}] ELSE g[a]]

\* getOrCreateLimiter: a key that is there is stamped.  No call begins after
\* Close; those inside go on beside it.
Touch(k, now) == limiters' = [limiters EXCEPT ![k] = now]

AllowLooks(c, k) ==
    /\ go[c].at = "rest" /\ limClosed = "open"
    /\ IF k \in Mapped
       THEN Touch(k, clock) /\ UNCHANGED go
       ELSE /\ go' = [go EXCEPT ![c] = [Rest EXCEPT !.at = "store", !.key = k, !.now = clock]]
            /\ UNCHANGED limiters
    /\ UNCHANGED <<tracked, clock, evicting, limClosed, skipped>>

\* LoadOrStore: whoever got there first counts the key.
AllowStores(c) ==
    /\ go[c].at = "store"
    /\ LET k == go[c].key IN
       /\ Touch(k, go[c].now)
       /\ IF k \in Mapped THEN Leaves(c)
                          ELSE go' = [go EXCEPT ![c] = [Rest EXCEPT !.at = "count"]]
    /\ UNCHANGED <<tracked, clock, evicting, limClosed, skipped>>

AllowCounts(c) ==
    /\ go[c].at = "count"
    /\ tracked' = tracked + 1 /\ At(c, "bound")
    /\ UNCHANGED <<limiters, clock, evicting, limClosed, skipped>>

-----------------------------------------------------------------------------
(* evictOverflow.                                                          *)

ChecksBound(c) ==
    /\ go[c].at = "bound"
    /\ IF OverBound THEN At(c, "lock") ELSE Leaves(c)
    /\ UNCHANGED <<limiters, tracked, clock, evicting, limClosed, skipped>>

\* TryLock: a pass already running is left to free the slots.
TriesEvicting(c) ==
    /\ go[c].at = "lock"
    /\ IF evicting # NoLimiter
       THEN Leaves(c) /\ skipped' = MinOf(skipped + 1, Cardinality(LimKey)) /\ UNCHANGED evicting
       ELSE At(c, "recheck") /\ evicting' = c /\ skipped' = 0
    /\ UNCHANGED <<limiters, tracked, clock, limClosed>>

PassEnds(c) == Leaves(c) /\ evicting' = NoLimiter

\* The sweep of a pass, and of the ticker, walks the keys with one now.
SweepFrom(a) == go' = [go EXCEPT ![a] = [Rest EXCEPT !.at = "sweep", !.now = clock, !.todo = LimKey]]

RechecksBound(c) ==
    /\ go[c].at = "recheck"
    /\ IF OverBound THEN SweepFrom(c) /\ UNCHANGED evicting ELSE PassEnds(c)
    /\ UNCHANGED <<limiters, tracked, clock, limClosed, skipped>>

SweepTicks ==
    /\ go[Sweeper].at = "rest" /\ limClosed = "open"
    /\ SweepFrom(Sweeper)
    /\ UNCHANGED <<limiters, tracked, clock, evicting, limClosed, skipped>>

\* Range comes to a key: idle for the TTL, as of now, it is to go.
SweepVisits(a, k) ==
    /\ go[a].at = "sweep" /\ k \in go[a].todo \cap Mapped
    /\ LET idle == go[a].now - limiters[k] >= IdleTTL
       IN  go' = [go EXCEPT ![a].todo = @ \ {k},
                            ![a].at = IF idle THEN "drop" ELSE "sweep",
                            ![a].key = IF idle THEN k ELSE NoLimiter]
    /\ UNCHANGED <<limiters, tracked, clock, evicting, limClosed, skipped>>

\* CompareAndDelete of the entry that was seen idle, if it is still there.
Drops(a, hit, miss) ==
    LET k == go[a].key IN
    IF k = NoLimiter THEN At(a, miss) /\ UNCHANGED limiters
    ELSE /\ limiters' = [limiters EXCEPT ![k] = NoLimiter]
         /\ go' = [Forgetting(go, k) EXCEPT ![a].at = hit]

\* Variant of SweepDrops: what was gone already is counted down too.
SweepDropsTwice(a) ==
    /\ go[a].at = "drop"
    /\ Drops(a, "uncount", "uncount")
    /\ UNCHANGED <<tracked, clock, evicting, limClosed, skipped>>

SweepDrops(a) ==
    /\ go[a].at = "drop"
    /\ Drops(a, "uncount", "sweep")
    /\ UNCHANGED <<tracked, clock, evicting, limClosed, skipped>>

SweepUncounts(a) ==
    /\ go[a].at = "uncount"
    /\ tracked' = tracked - 1 /\ At(a, "sweep")
    /\ UNCHANGED <<limiters, clock, evicting, limClosed, skipped>>

SweepEnds(a) ==
    /\ go[a].at = "sweep" /\ go[a].todo \cap Mapped = {}
    /\ IF a = Sweeper THEN Leaves(a) ELSE go' = [go EXCEPT ![a] = [Rest EXCEPT !.at = "over"]]
    /\ UNCHANGED <<limiters, tracked, clock, evicting, limClosed, skipped>>

\* How many live ones must go to come under the bound with some headroom.
PassMeasures(c) ==
    /\ go[c].at = "over"
    /\ IF tracked > TargetSize
       THEN /\ go' = [go EXCEPT ![c].at = "scan", ![c].over = tracked - TargetSize]
            /\ UNCHANGED evicting
       ELSE PassEnds(c)
    /\ UNCHANGED <<limiters, tracked, clock, limClosed, skipped>>

\* The candidates, with the stamps they bore at the scan.
PassScans(c) ==
    /\ go[c].at = "scan"
    /\ go' = [go EXCEPT ![c].at = "evict",
                        ![c].todo = {<<k, limiters[k]>> : k \in Mapped}]
    /\ UNCHANGED <<limiters, tracked, clock, evicting, limClosed, skipped>>

\* Least recently seen first, those that are still there, until over are gone.
PassEvicts(c) ==
    /\ go[c].at = "evict"
    /\ IF go[c].over = 0 \/ go[c].todo = {}
       THEN PassEnds(c) /\ UNCHANGED limiters
       ELSE \E t \in go[c].todo :
              /\ \A u \in go[c].todo : t[2] <= u[2]
              /\ limiters' = [limiters EXCEPT ![t[1]] = NoLimiter]
              /\ go' = [Forgetting(go, t[1]) EXCEPT ![c].at = "discount"]
              /\ UNCHANGED evicting
    /\ UNCHANGED <<tracked, clock, limClosed, skipped>>

PassUncounts(c) ==
    /\ go[c].at = "discount"
    /\ tracked' = tracked - 1
    /\ go' = [go EXCEPT ![c].at = "evict", ![c].over = @ - 1]
    /\ UNCHANGED <<limiters, clock, evicting, limClosed, skipped>>

-----------------------------------------------------------------------------
(* Close: stop, <-done, Clear, Store(0).                                   *)

LimCloses ==
    /\ \/ limClosed = "open" /\ limClosed' = "stopped" /\ UNCHANGED <<limiters, tracked, go>>
       \/ /\ limClosed = "stopped" /\ go[Sweeper].at = "rest"
          /\ limiters' = [k \in LimKey |-> NoLimiter]
          /\ go' = [a \in Actor |->
                IF go[a].at = "drop" THEN [go[a] EXCEPT !.key = NoLimiter]
                ELSE IF go[a].at \in {"evict", "discount"} THEN [go[a] EXCEPT !.todo = {}]
                ELSE go[a]]
          /\ limClosed' = "cleared" /\ UNCHANGED tracked
       \/ /\ limClosed = "cleared" /\ tracked' = 0
          /\ limClosed' = "closed" /\ UNCHANGED <<limiters, go>>
    /\ UNCHANGED <<clock, evicting, skipped>>

LimTick ==
    /\ clock < MaxClock /\ clock' = clock + 1
    /\ UNCHANGED <<limiters, tracked, evicting, go, limClosed, skipped>>

AllowStep(c) ==
    \/ AllowStores(c) \/ AllowCounts(c) \/ ChecksBound(c) \/ TriesEvicting(c)
    \/ RechecksBound(c) \/ PassMeasures(c) \/ PassScans(c) \/ PassEvicts(c) \/ PassUncounts(c)

LimNext ==
    \/ \E c \in Consult : AllowStep(c) \/ \E k \in LimKey : AllowLooks(c, k)
    \/ \E a \in Actor : SweepDrops(a) \/ SweepUncounts(a) \/ SweepEnds(a)
                        \/ \E k \in LimKey : SweepVisits(a, k)
    \/ SweepTicks \/ LimCloses \/ LimTick

LimSpec == LimInit /\ [][LimNext]_limVars

-----------------------------------------------------------------------------
(* Until Close, whenever nobody is inside the limiter, the counter is the  *)
(* number of limiters in the map, however inserts, sweeps and passes were  *)
(* interleaved, and the map is over the bound by no more than the inserts  *)
(* that found a pass running since the last pass began.                    *)
BoundAtRest ==
    limClosed = "open" /\ (\A a \in Actor : go[a].at = "rest") =>
      /\ tracked = Cardinality(Mapped)
      /\ Cardinality(Mapped) <= MaxLimiters + skipped
=============================================================================
