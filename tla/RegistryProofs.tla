--------------------------- MODULE RegistryProofs ---------------------------
(***************************************************************************)
(* cache/memory and the in-memory rate limiter, two maps with a goroutine  *)
(* behind them: for every set of keys, calls, readers and capacities.      *)
(***************************************************************************)
EXTENDS MemoryCache, RateLimiter, FiniteSetTheorems, TLAPS

-----------------------------------------------------------------------------
(* cache/memory.                                                           *)

(* The types of the map, the flights, what writers bring and the versions. *)
CacheTyped ==
    /\ entries \in [CacheKey -> Entry \cup {NoEntry}]
    /\ flight \in [CacheKey -> Flight]
    /\ brought \in [Writer -> [CacheKey -> Version \cup {NoEntry}]]
    /\ source \in [CacheKey -> Version] /\ floor \in [CacheKey -> Version]

(* No Delete knows more than the system behind.                            *)
FloorBelow == \A k \in CacheKey : floor[k] <= source[k]

(* A flight that read before the last Delete, and has still to store, was  *)
(* marked by that Delete.                                                  *)
FlightMarked ==
    \A k \in CacheKey :
      flight[k].at = "store" /\ flight[k].val < floor[k] => Loader \in overlap[k]

(* So was a writer that had read before it, and has still to write.        *)
WriterMarked ==
    \A k \in CacheKey, w \in Writer :
      k \in Batch(w) /\ brought[w][k] < floor[k] => w \in overlap[k]

(* What makes StaleOnlyByOverlap inductive.                                *)
CacheInv == CacheTyped /\ FloorBelow /\ FlightMarked /\ WriterMarked /\ StaleOnlyByOverlap

(* The cache is empty, and nobody has read anything.                       *)
LEMMA CacheStarts == CacheInit => CacheInv
<1> SUFFICES ASSUME CacheInit PROVE CacheInv
    OBVIOUS
<1>1. CacheTyped
      BY CacheAssumption DEF CacheInit, CacheTyped, Version, Flight, NoFlight, Nothing
<1>2. FloorBelow /\ FlightMarked /\ StaleOnlyByOverlap
      BY DEF CacheInit, FloorBelow, FlightMarked, StaleOnlyByOverlap, Present, NoFlight
<1>3. WriterMarked
      BY DEF CacheInit, WriterMarked, Batch, Nothing
<1> QED BY <1>1, <1>2, <1>3 DEF CacheInv

(* A store under the lock, with whatever it evicts, keeps what is stale    *)
(* excused if what it stores is.                                           *)
LEMMA StoreKeeps ==
    ASSUME NEW b \in Bearer, NEW ks \in SUBSET CacheKey, NEW val, CacheInv, Store(b, ks, val),
           \A k \in ks : val[k] \in Version /\ (val[k] < floor[k] => b \in overlap[k]),
           floor' = floor, overlap' = overlap
    PROVE  /\ entries' \in [CacheKey -> Entry \cup {NoEntry}]
           /\ StaleOnlyByOverlap'
<1>1. PICK kept : entries' = [k \in CacheKey |->
                IF k \notin kept THEN NoEntry
                ELSE IF k \in ks THEN [val |-> val[k], left |-> CacheTTL, by |-> b]
                                 ELSE entries[k]]
      BY DEF Store
<1>2. \A k \in ks : [val |-> val[k], left |-> CacheTTL, by |-> b] \in Entry
      BY CacheAssumption DEF Entry
<1>3. entries' \in [CacheKey -> Entry \cup {NoEntry}]
      BY <1>1, <1>2 DEF CacheInv, CacheTyped
<1>4. StaleOnlyByOverlap'
      BY <1>1 DEF CacheInv, StaleOnlyByOverlap, Present
<1> QED BY <1>3, <1>4

(* A step that leaves the map and the deletions alone, and gives nobody an *)
(* old value, keeps the invariant.                                         *)
LEMMA MapUntouched ==
    ASSUME CacheInv, UNCHANGED <<entries, floor, overlap>>, CacheTyped', FloorBelow',
           FlightMarked', WriterMarked'
    PROVE  CacheInv'
BY DEF CacheInv, StaleOnlyByOverlap, Present

(* Writers keep the invariant: what they bring is marked if it is old.     *)
LEMMA WritersKeep ==
    ASSUME CacheInv, NEW w \in Writer,
           \/ Set(w) \/ \E k \in CacheKey : SetIfPresent(w, k)
           \/ \E ks \in SUBSET CacheKey : WriterReads(w, ks)
    PROVE  CacheInv'
<1> USE DEF CacheInv
<1>1. ASSUME Wrote(w), UNCHANGED <<flight, source, floor, overlap>>
      PROVE  /\ brought' \in [Writer -> [CacheKey -> Version \cup {NoEntry}]]
             /\ FloorBelow' /\ FlightMarked' /\ WriterMarked'
  <2>1. brought' \in [Writer -> [CacheKey -> Version \cup {NoEntry}]]
        BY <1>1 DEF Wrote, Nothing, CacheTyped
  <2>2. \A v \in Writer : brought'[v] = brought[v] \/ brought'[v] = Nothing
        BY <1>1 DEF Wrote, CacheTyped
  <2>3. WriterMarked'
        BY <1>1, <2>2 DEF WriterMarked, Batch, Nothing
  <2> QED BY <1>1, <2>1, <2>3 DEF FloorBelow, FlightMarked
<1>2. CASE Set(w)
  <2>1. /\ Store(w, Batch(w), brought[w]) /\ Wrote(w)
        /\ UNCHANGED <<flight, source, floor, overlap>>
        BY <1>2 DEF Set
  <2>2. w \in Bearer /\ Batch(w) \in SUBSET CacheKey
        BY DEF Bearer, Batch
  <2>3. \A k \in Batch(w) : brought[w][k] \in Version
                              /\ (brought[w][k] < floor[k] => w \in overlap[k])
        BY DEF CacheTyped, WriterMarked, Batch
  <2>4. entries' \in [CacheKey -> Entry \cup {NoEntry}] /\ StaleOnlyByOverlap'
        BY <2>1, <2>2, <2>3, StoreKeeps
  <2> QED BY <1>1, <2>1, <2>4 DEF CacheTyped
<1>3. ASSUME NEW k \in CacheKey, SetIfPresent(w, k) PROVE CacheInv'
  <2> DEFINE new == [val |-> brought[w][k], left |-> CacheTTL, by |-> w]
  <2>1. /\ k \in Batch(w) /\ Wrote(w)
        /\ entries' = entries \/ entries' = [entries EXCEPT ![k] = new]
        /\ UNCHANGED <<flight, source, floor, overlap>>
        BY <1>3 DEF SetIfPresent
  <2>2. new \in Entry
        BY <2>1, CacheAssumption DEF CacheTyped, Batch, Entry, Bearer
  <2>3. new.val < floor[k] => new.by \in overlap[k]
        BY <2>1 DEF WriterMarked
  <2> HIDE DEF new
  <2>4. entries' \in [CacheKey -> Entry \cup {NoEntry}]
        BY <2>1, <2>2 DEF CacheTyped
  <2>5. StaleOnlyByOverlap'
        BY <2>1, <2>3 DEF StaleOnlyByOverlap, Present, CacheTyped
  <2> QED BY <1>1, <2>1, <2>4, <2>5 DEF CacheTyped
<1>4. ASSUME NEW ks \in SUBSET CacheKey, WriterReads(w, ks) PROVE CacheInv'
  <2> DEFINE row == [k \in CacheKey |-> IF k \in ks THEN source[k] ELSE NoEntry]
  <2>1. /\ brought' = [brought EXCEPT ![w] = row]
        /\ UNCHANGED <<entries, flight, source, floor, overlap>>
        BY <1>4 DEF WriterReads
  <2>2. row \in [CacheKey -> Version \cup {NoEntry}]
        BY DEF CacheTyped
  <2>3. \A k \in CacheKey : row[k] # NoEntry => row[k] = source[k]
        OBVIOUS
  <2> HIDE DEF row
  <2>4. CacheTyped'
        BY <2>1, <2>2 DEF CacheTyped
  <2>5. \A v \in Writer : brought'[v] = brought[v] \/ brought'[v] = row
        BY <2>1 DEF CacheTyped
  <2>6. \A k \in CacheKey : ~ (source[k] < floor[k])
        BY DEF CacheTyped, FloorBelow, Version
  <2>7. WriterMarked'
        BY <2>1, <2>3, <2>5, <2>6 DEF WriterMarked, Batch
  <2>8. FloorBelow' /\ FlightMarked'
        BY <2>1 DEF FloorBelow, FlightMarked
  <2> QED BY <2>1, <2>4, <2>7, <2>8, MapUntouched
<1> QED BY <1>2, <1>3, <1>4

(* A Delete marks whoever has an older value in hand.                      *)
LEMMA DeleteMarks ==
    ASSUME CacheInv, NEW ks \in SUBSET CacheKey, Delete(ks)
    PROVE  CacheInv'
<1> USE DEF CacheInv
<1>1. \A k \in ks : entries'[k] = NoEntry /\ floor'[k] = source[k] /\ overlap'[k] = InHand(k)
      BY DEF Delete
<1>2. \A k \in CacheKey \ ks :
        entries'[k] = entries[k] /\ floor'[k] = floor[k] /\ overlap'[k] = overlap[k]
      BY DEF Delete
<1>3. UNCHANGED <<flight, source, brought>>
      BY DEF Delete
<1>4. CacheTyped'
      BY DEF Delete, CacheTyped
<1>5. FloorBelow'
      BY <1>1, <1>2, <1>3 DEF FloorBelow, CacheTyped, Version
<1>6. FlightMarked'
  <2>1. \A k \in ks : flight[k].at = "store" /\ flight[k].val < source[k] => Loader \in InHand(k)
        BY DEF InHand
  <2> QED BY <1>1, <1>2, <1>3, <2>1 DEF FlightMarked
<1>7. WriterMarked'
  <2>1. \A k \in ks, w \in Writer : k \in Batch(w) /\ brought[w][k] < source[k] => w \in InHand(k)
        BY DEF InHand
  <2>2. \A w \in Writer : Batch(w)' = Batch(w)
        BY <1>3 DEF Batch
  <2> QED BY <1>1, <1>2, <1>3, <2>1, <2>2 DEF WriterMarked
<1>8. StaleOnlyByOverlap'
      BY <1>1, <1>2 DEF StaleOnlyByOverlap, Present
<1> QED BY <1>4, <1>5, <1>6, <1>7, <1>8

(* A flight stores what it loaded, which is marked if it is old.           *)
LEMMA FlightsKeep ==
    ASSUME CacheInv, NEW k \in CacheKey, FlightStep(k)
    PROVE  CacheInv'
<1> USE DEF CacheInv
<1>1. UNCHANGED <<brought, source, floor, overlap>>
      BY DEF FlightStep, FlightLooks, FlightLoads, FlightFails, FlightStores
<1>2. FloorBelow' /\ WriterMarked'
      BY <1>1 DEF FloorBelow, WriterMarked, Batch
<1>3. CASE FlightLoads(k)
  <2>1. flight' = [flight EXCEPT ![k] = [at |-> "store", val |-> source[k]]]
          /\ UNCHANGED entries
        BY <1>3 DEF FlightLoads
  <2>2. CacheTyped'
        BY <1>1, <2>1 DEF CacheTyped, Flight
  <2>3. ~ (source[k] < floor[k])
        BY DEF CacheTyped, FloorBelow, Version
  <2>4. FlightMarked'
        BY <1>1, <2>1, <2>3 DEF FlightMarked, CacheTyped
  <2> QED BY <1>1, <1>2, <2>1, <2>2, <2>4, MapUntouched
<1>4. ASSUME Answered(k) PROVE flight' \in [CacheKey -> Flight] /\ FlightMarked'
      BY <1>1, <1>4, CacheAssumption
         DEF Answered, NoFlight, CacheTyped, FlightMarked, Flight, Version
<1>5. CASE FlightFails(k)
      BY <1>1, <1>2, <1>4, <1>5, MapUntouched DEF FlightFails, CacheTyped
<1>6. CASE FlightLooks(k)
  <2>1. CASE Answered(k)
        BY <1>1, <1>2, <1>4, <1>6, <2>1, MapUntouched DEF FlightLooks, CacheTyped
  <2>2. CASE flight' = [flight EXCEPT ![k].at = "load"]
    <3>1. flight' \in [CacheKey -> Flight] /\ FlightMarked'
          BY <1>1, <2>2 DEF CacheTyped, FlightMarked, Flight
    <3> QED BY <1>1, <1>2, <1>6, <3>1, MapUntouched DEF FlightLooks, CacheTyped
  <2> QED BY <1>6, <2>1, <2>2 DEF FlightLooks
<1>7. CASE FlightStores(k)
  <2> DEFINE val == [q \in {k} |-> flight[q].val]
  <2>1. Store(Loader, {k}, val) /\ Answered(k) /\ flight[k].at = "store"
        BY <1>7 DEF FlightStores
  <2>2. val[k] = flight[k].val
        OBVIOUS
  <2>3. \A q \in {k} : val[q] \in Version /\ (val[q] < floor[q] => Loader \in overlap[q])
        BY <2>1, <2>2 DEF FlightMarked, CacheTyped, Flight
  <2>4. Loader \in Bearer /\ {k} \in SUBSET CacheKey
        BY DEF Bearer
  <2> HIDE DEF val
  <2>5. entries' \in [CacheKey -> Entry \cup {NoEntry}] /\ StaleOnlyByOverlap'
        BY <1>1, <2>1, <2>3, <2>4, StoreKeeps
  <2> QED BY <1>1, <1>2, <1>4, <2>1, <2>5 DEF CacheTyped
<1> QED BY <1>3, <1>5, <1>6, <1>7 DEF FlightStep

(* Reads, writes, deletes, loads, sweeps and time keep the invariant.      *)
LEMMA CacheInvStep == CacheInv /\ [CacheNext]_cacheVars => CacheInv'
<1> SUFFICES ASSUME CacheInv, [CacheNext]_cacheVars PROVE CacheInv'
    OBVIOUS
<1>1. ASSUME NEW k \in CacheKey, UpdateSource(k) PROVE CacheInv'
  <2>1. UNCHANGED <<entries, flight, brought, floor, overlap>>
        BY <1>1 DEF UpdateSource
  <2>2. CacheTyped' /\ FloorBelow'
        BY <1>1, <2>1, CacheAssumption DEF UpdateSource, CacheInv, CacheTyped, FloorBelow, Version
  <2> QED BY <2>1, <2>2, MapUntouched DEF CacheInv, FlightMarked, WriterMarked, Batch
<1>2. ASSUME NEW e \in Evictor, NEW k \in CacheKey, EvictExpired(e, k) PROVE CacheInv'
  <2>1. /\ entries' = entries \/ entries' = [entries EXCEPT ![k] = NoEntry]
        /\ UNCHANGED <<flight, brought, source, floor, overlap>>
        BY <1>2 DEF EvictExpired
  <2> QED BY <2>1 DEF CacheInv, CacheTyped, FloorBelow, FlightMarked, WriterMarked, Batch,
                      StaleOnlyByOverlap, Present
<1>3. ASSUME NEW r \in Reader, NEW k \in CacheKey, Join(r, k) PROVE CacheInv'
  <2>1. /\ flight' = [flight EXCEPT ![k] = IF @.at = "none" THEN [at |-> "look", val |-> 0] ELSE @]
        /\ UNCHANGED <<entries, brought, source, floor, overlap>>
        BY <1>3 DEF Join
  <2>2. CacheTyped' /\ FlightMarked'
        BY <2>1, CacheAssumption DEF CacheInv, CacheTyped, FlightMarked, Flight, Version
  <2> QED BY <2>1, <2>2, MapUntouched DEF CacheInv, FloorBelow, WriterMarked, Batch
<1>4. ASSUME CacheTick PROVE CacheInv'
  <2>1. UNCHANGED <<flight, brought, source, floor, overlap>>
        BY <1>4 DEF CacheTick
  <2>2. \A k \in CacheKey :
          \/ entries'[k] = entries[k]
          \/ /\ entries[k] \in Entry /\ entries'[k] \in Entry
             /\ entries'[k].val = entries[k].val /\ entries'[k].by = entries[k].by
        BY <1>4, CacheAssumption DEF CacheTick, Live, Present, CacheInv, CacheTyped, Entry
  <2>3. entries' \in [CacheKey -> Entry \cup {NoEntry}]
        BY <1>4, <2>2 DEF CacheTick, CacheInv, CacheTyped
  <2>4. \A k \in CacheKey : entries[k] = NoEntry => entries'[k] = NoEntry
        BY <1>4 DEF CacheTick, Live, Present
  <2>5. StaleOnlyByOverlap'
        BY <2>1, <2>2, <2>4 DEF CacheInv, StaleOnlyByOverlap, Present
  <2> QED BY <2>1, <2>3, <2>5
          DEF CacheInv, CacheTyped, FloorBelow, FlightMarked, WriterMarked, Batch
<1>5. CASE UNCHANGED <<entries, flight, brought, source, floor, overlap>>
      BY <1>5 DEF CacheInv, CacheTyped, FloorBelow, FlightMarked, WriterMarked, Batch,
                  StaleOnlyByOverlap, Present
<1> QED BY <1>1, <1>2, <1>3, <1>4, <1>5, WritersKeep, DeleteMarks, FlightsKeep
        DEF CacheNext, Abandon, Get, Sweep, cacheVars

(* A value older than the last Delete of its key is in the cache only if   *)
(* the one that stored it, the loader or a caller of a Set, had it in hand *)
(* at that Delete: for any keys, readers, writers, capacity and TTL        *)
(* (cache/memory, Delete, Set, SetIfPresent and the load of Get).          *)
THEOREM OnlyAnOverlapLeavesStale == CacheSpec => []StaleOnlyByOverlap
<1>1. CacheInv => StaleOnlyByOverlap
      BY DEF CacheInv
<1> QED BY CacheStarts, CacheInvStep, <1>1, PTL DEF CacheSpec

-----------------------------------------------------------------------------
(* ratelimiting: InMemoryRateLimiter.                                      *)

(* Where a call is inside a capacity pass, and so has its mutex.           *)
Passing == {"recheck", "sweep", "drop", "uncount", "over", "scan", "evict", "discount"}
(* Calls whose entry is in the map and not counted yet.                    *)
Counting == {c \in Consult : go[c].at = "count"}
(* Calls that have counted their entry and have still to look at the       *)
(* bound.                                                                  *)
Settling == {c \in Consult : go[c].at \in {"bound", "lock"}}
(* Calls, or the sweeper, that deleted an entry and have still to uncount  *)
(* it.                                                                     *)
Owing == {a \in Actor : go[a].at \in {"uncount", "discount"}}
(* Entries that are in the map and counted.                                *)
Settled == Cardinality(Mapped) - Cardinality(Counting)
(* How many of those there may be.                                         *)
Excused == MaxLimiters + skipped + Cardinality(Settling)
(* The keys a pass has found and may still evict.                          *)
Listed(a) == {t[1] : t \in go[a].todo}

(* What an actor knows: whatever it refers to is in the map.               *)
Local(a) ==
    /\ DOMAIN go[a] = {"at", "key", "now", "todo", "over"}
    /\ go[a].now \in Nat /\ go[a].over \in Nat
    /\ go[a].at = "store" => go[a].key \in LimKey
    /\ go[a].at = "drop" => go[a].key \in Mapped \cup {NoLimiter}
    /\ go[a].at \in {"evict", "discount"} => Listed(a) \subseteq Mapped
    /\ go[a].at = "discount" => go[a].over > 0

(* The types, and what every actor knows.                                  *)
LocalInv ==
    /\ limiters \in [LimKey -> Nat \cup {NoLimiter}]
    /\ clock \in Nat /\ tracked \in Int /\ skipped \in 0..Cardinality(LimKey)
    /\ evicting \in Consult \cup {NoLimiter}
    /\ DOMAIN go = Actor
    /\ \A a \in Actor : Local(a)

(* One call at a time is in a capacity pass, the one that has the mutex;   *)
(* the sweeper is in none.                                                 *)
HolderInv ==
    /\ go[Sweeper].at \in {"rest", "sweep", "drop", "uncount"}
    /\ \A c \in Consult : go[c].at \in Passing <=> evicting = c

(* The counter is right, up to those who have still to count or to uncount *)
(* an entry of theirs.                                                     *)
TallyInv == tracked = Settled + Cardinality(Owing)

(* With no pass running, the map is within its bound but for inserts that  *)
(* skipped the pass or have still to look. A pass that has measured the    *)
(* excess restores that, whatever leaves or enters the map meanwhile: it   *)
(* evicts the excess, or all it has listed.                                *)
BoundInv ==
    /\ evicting = NoLimiter => Settled <= Excused
    /\ \A c \in Consult :
         /\ go[c].at \in {"scan", "evict"} => Settled - go[c].over <= Excused
         /\ go[c].at = "discount" => Settled - go[c].over < Excused
         /\ go[c].at \in {"evict", "discount"} =>
              Cardinality(Mapped \ Listed(c)) - Cardinality(Counting) <= Excused

(* The inductive invariant; nothing is promised once Close has begun.      *)
LimInv == limClosed = "open" => LocalInv /\ HolderInv /\ TallyInv /\ BoundInv

(* Cardinality, one more.                                                  *)
LEMMA AddOne ==
    ASSUME NEW S, IsFiniteSet(S), NEW x, x \notin S
    PROVE  IsFiniteSet(S \cup {x}) /\ Cardinality(S \cup {x}) = Cardinality(S) + 1
BY FS_AddElement

(* Cardinality, one less.                                                  *)
LEMMA TakeOne ==
    ASSUME NEW S, IsFiniteSet(S), NEW x, x \in S
    PROVE  IsFiniteSet(S \ {x}) /\ Cardinality(S \ {x}) = Cardinality(S) - 1
BY FS_RemoveElement

(* Sets of keys and of actors are finite.                                  *)
LEMMA FiniteParts ==
    /\ \A S \in SUBSET LimKey : /\ IsFiniteSet(S) /\ Cardinality(S) \in Nat
                                /\ Cardinality(S) <= Cardinality(LimKey)
    /\ \A S \in SUBSET Actor : IsFiniteSet(S) /\ Cardinality(S) \in Nat
    /\ Cardinality(LimKey) \in Nat
<1>1. IsFiniteSet(Actor)
      BY LimiterAssumption, FS_AddElement DEF Actor
<1> QED BY <1>1, LimiterAssumption, FS_Subset, FS_CardinalityType

(* The numbers the invariant speaks of are numbers, before and after a     *)
(* step.                                                                   *)
LEMMA Counts ==
    /\ Counting \in SUBSET Actor /\ Settling \in SUBSET Actor /\ Owing \in SUBSET Actor
    /\ Counting' \in SUBSET Actor /\ Settling' \in SUBSET Actor /\ Owing' \in SUBSET Actor
    /\ Mapped \in SUBSET LimKey /\ Mapped' \in SUBSET LimKey
    /\ Cardinality(Counting) \in Nat /\ Cardinality(Settling) \in Nat /\ Cardinality(Owing) \in Nat
    /\ Cardinality(Counting') \in Nat /\ Cardinality(Settling') \in Nat
    /\ Cardinality(Owing') \in Nat
    /\ Cardinality(Mapped) \in Nat /\ Cardinality(Mapped') \in Nat
    /\ Cardinality(Mapped) <= Cardinality(LimKey) /\ Cardinality(Mapped') <= Cardinality(LimKey)
<1>1. /\ Counting \in SUBSET Actor /\ Settling \in SUBSET Actor /\ Owing \in SUBSET Actor
      /\ Counting' \in SUBSET Actor /\ Settling' \in SUBSET Actor /\ Owing' \in SUBSET Actor
      /\ Mapped \in SUBSET LimKey /\ Mapped' \in SUBSET LimKey
      BY DEF Counting, Settling, Owing, Mapped, Actor
<1> QED BY <1>1, FiniteParts

(* How they change when one actor moves.                                   *)
LEMMA Moves ==
    ASSUME NEW a \in Actor, \A b \in Actor \ {a} : go'[b].at = go[b].at
    PROVE  /\ a \notin Consult \/ (go[a].at = "count" <=> go'[a].at = "count")
                => Cardinality(Counting') = Cardinality(Counting)
           /\ a \in Consult /\ go[a].at # "count" /\ go'[a].at = "count"
                => Cardinality(Counting') = Cardinality(Counting) + 1
           /\ a \in Consult /\ go[a].at = "count" /\ go'[a].at # "count"
                => Cardinality(Counting') = Cardinality(Counting) - 1
           /\ a \notin Consult
              \/ (go[a].at \in {"bound", "lock"} <=> go'[a].at \in {"bound", "lock"})
                => Cardinality(Settling') = Cardinality(Settling)
           /\ a \in Consult /\ go[a].at \notin {"bound", "lock"} /\ go'[a].at \in {"bound", "lock"}
                => Cardinality(Settling') = Cardinality(Settling) + 1
           /\ a \in Consult /\ go[a].at \in {"bound", "lock"} /\ go'[a].at \notin {"bound", "lock"}
                => Cardinality(Settling') = Cardinality(Settling) - 1
           /\ (go[a].at \in {"uncount", "discount"} <=> go'[a].at \in {"uncount", "discount"})
                => Cardinality(Owing') = Cardinality(Owing)
           /\ go[a].at \notin {"uncount", "discount"} /\ go'[a].at \in {"uncount", "discount"}
                => Cardinality(Owing') = Cardinality(Owing) + 1
           /\ go[a].at \in {"uncount", "discount"} /\ go'[a].at \notin {"uncount", "discount"}
                => Cardinality(Owing') = Cardinality(Owing) - 1
<1> USE Counts, FiniteParts
<1>1. a \notin Consult \/ (go[a].at = "count" <=> go'[a].at = "count") => Counting' = Counting
      BY DEF Counting, Actor
<1>2. ASSUME a \in Consult, go[a].at # "count", go'[a].at = "count"
      PROVE  Cardinality(Counting') = Cardinality(Counting) + 1
  <2>1. Counting' = Counting \cup {a} /\ a \notin Counting
        BY <1>2 DEF Counting, Actor
  <2> QED BY <2>1, AddOne
<1>3. ASSUME a \in Consult, go[a].at = "count", go'[a].at # "count"
      PROVE  Cardinality(Counting') = Cardinality(Counting) - 1
  <2>1. Counting' = Counting \ {a} /\ a \in Counting
        BY <1>3 DEF Counting, Actor
  <2> QED BY <2>1, TakeOne
<1>4. a \notin Consult \/ (go[a].at \in {"bound", "lock"} <=>
        go'[a].at \in {"bound", "lock"}) => Settling' = Settling
      BY DEF Settling, Actor
<1>5. ASSUME a \in Consult, go[a].at \notin {"bound", "lock"}, go'[a].at \in {"bound", "lock"}
      PROVE  Cardinality(Settling') = Cardinality(Settling) + 1
  <2>1. Settling' = Settling \cup {a} /\ a \notin Settling
        BY <1>5 DEF Settling, Actor
  <2> QED BY <2>1, AddOne
<1>6. ASSUME a \in Consult, go[a].at \in {"bound", "lock"}, go'[a].at \notin {"bound", "lock"}
      PROVE  Cardinality(Settling') = Cardinality(Settling) - 1
  <2>1. Settling' = Settling \ {a} /\ a \in Settling
        BY <1>6 DEF Settling, Actor
  <2> QED BY <2>1, TakeOne
<1>7. (go[a].at \in {"uncount", "discount"} <=> go'[a].at \in {"uncount", "discount"}) =>
        Owing' = Owing
      BY DEF Owing
<1>8. ASSUME go[a].at \notin {"uncount", "discount"}, go'[a].at \in {"uncount", "discount"}
      PROVE  Cardinality(Owing') = Cardinality(Owing) + 1
  <2>1. Owing' = Owing \cup {a} /\ a \notin Owing
        BY <1>8 DEF Owing
  <2> QED BY <2>1, AddOne
<1>9. ASSUME go[a].at \in {"uncount", "discount"}, go'[a].at \notin {"uncount", "discount"}
      PROVE  Cardinality(Owing') = Cardinality(Owing) - 1
  <2>1. Owing' = Owing \ {a} /\ a \in Owing
        BY <1>9 DEF Owing
  <2> QED BY <2>1, TakeOne
<1> QED BY <1>1, <1>2, <1>3, <1>4, <1>5, <1>6, <1>7, <1>8, <1>9

(* The map is empty and nobody is inside.                                  *)
LEMMA LimStarts == LimInit => LimInv
<1> SUFFICES ASSUME LimInit PROVE LocalInv /\ HolderInv /\ TallyInv /\ BoundInv
    BY DEF LimInv
<1> USE LimiterAssumption, FiniteParts DEF LimInit, Rest
<1>1. Sweeper \in Actor /\ Consult \subseteq Actor
      BY DEF Actor
<1>2. LocalInv
      BY DEF LocalInv, Local
<1>3. HolderInv
      BY <1>1 DEF HolderInv, Passing
<1>4. Mapped = {} /\ Counting = {} /\ Settling = {} /\ Owing = {}
      BY <1>1 DEF Mapped, Counting, Settling, Owing
<1>5. TallyInv /\ BoundInv
      BY <1>1, <1>4, FS_EmptySet DEF TallyInv, BoundInv, Settled, Excused
<1> QED BY <1>2, <1>3, <1>5

(* A step in which one actor moves and no entry leaves the map.            *)
LEMMA OneMoves ==
    ASSUME LocalInv, NEW a \in Actor, NEW r, go' = [go EXCEPT ![a] = r],
           Mapped \subseteq Mapped', Local(a)'
    PROVE  DOMAIN go' = Actor /\ \A b \in Actor : Local(b)'
BY DEF LocalInv, Local, Listed

(* A step in which one actor takes the entry of a key out of the map.      *)
LEMMA OneForgets ==
    ASSUME LocalInv, NEW a \in Actor, NEW k \in LimKey, NEW at, at \in {"uncount", "discount"},
           at = "discount" => go[a].at = "evict" /\ go[a].over > 0,
           at = "uncount" => go[a].at = "drop",
           limiters' = [limiters EXCEPT ![k] = NoLimiter],
           go' = [Forgetting(go, k) EXCEPT ![a].at = at]
    PROVE  /\ DOMAIN go' = Actor /\ \A b \in Actor : Local(b)'
           /\ Mapped' = Mapped \ {k}
           /\ go'[a].at = at
           /\ \A b \in Actor \ {a} : go'[b].at = go[b].at
           /\ \A b \in Actor : go'[b].over = go[b].over
           /\ \A b \in Actor : go[b].at = "evict" \/ (b # a /\ go[b].at = "discount") =>
              Listed(b)' = Listed(b) \ {k}
<1> DEFINE F == Forgetting(go, k)
<1>1. Mapped' = Mapped \ {k}
      BY DEF LocalInv, Mapped
<1>2. DOMAIN F = Actor
      BY DEF Forgetting
<1>3. \A b \in Actor : DOMAIN go[b] = {"at", "key", "now", "todo", "over"} /\ Local(b)
      BY DEF LocalInv, Local
<1>4. ASSUME NEW b \in Actor
      PROVE /\ DOMAIN F[b] = {"at", "key", "now", "todo", "over"}
            /\ F[b].at = go[b].at /\ F[b].over = go[b].over /\ F[b].now = go[b].now
            /\ go[b].at = "drop" => F[b].key = IF go[b].key = k THEN NoLimiter ELSE go[b].key
            /\ go[b].at # "drop" => F[b].key = go[b].key
            /\ go[b].at \in {"evict", "discount"} => F[b].todo = {t \in go[b].todo : t[1] # k}
      BY <1>3 DEF Forgetting
<1>5. ASSUME NEW b \in Actor
      PROVE  /\ go'[b].at = IF b = a THEN at ELSE F[b].at
             /\ go'[b].over = F[b].over /\ go'[b].now = F[b].now /\ go'[b].todo = F[b].todo
             /\ go'[b].key = F[b].key /\ DOMAIN go'[b] = DOMAIN F[b]
      BY <1>2, <1>4
<1>6. DOMAIN go' = Actor
      BY <1>2
<1> HIDE DEF F
<1>7. ASSUME NEW b \in Actor, go[b].at = "evict" \/ (b # a /\ go[b].at = "discount")
      PROVE  Listed(b)' = Listed(b) \ {k}
      BY <1>4, <1>5, <1>7 DEF Listed
<1>8. ASSUME NEW b \in Actor PROVE Local(b)'
  <2>1. /\ DOMAIN go'[b] = {"at", "key", "now", "todo", "over"}
        /\ go'[b].now \in Nat /\ go'[b].over \in Nat
        BY <1>3, <1>4, <1>5 DEF Local
  <2>2. go'[b].at = "store" => go'[b].key \in LimKey
        BY <1>3, <1>4, <1>5 DEF Local
  <2>3. go'[b].at = "drop" => go'[b].key \in Mapped' \cup {NoLimiter}
        BY <1>1, <1>3, <1>4, <1>5 DEF Local
  <2>4. go'[b].at \in {"evict", "discount"} => Listed(b)' \subseteq Mapped'
    <3> SUFFICES ASSUME go'[b].at \in {"evict", "discount"} PROVE Listed(b)' \subseteq Mapped'
        OBVIOUS
    <3>1. go[b].at = "evict" \/ (b # a /\ go[b].at = "discount")
      <4>1. CASE b = a
            BY <1>5, <4>1
      <4>2. CASE b # a
            BY <1>4, <1>5, <4>2
      <4> QED BY <4>1, <4>2
    <3>2. Listed(b)' = Listed(b) \ {k}
          BY <1>7, <3>1
    <3>3. Listed(b) \subseteq Mapped
          BY <1>3, <3>1 DEF Local
    <3> QED BY <1>1, <3>2, <3>3
  <2>5. go'[b].at = "discount" => go'[b].over > 0
        BY <1>3, <1>4, <1>5 DEF Local
  <2> QED BY <2>1, <2>2, <2>3, <2>4, <2>5 DEF Local
<1> QED BY <1>1, <1>4, <1>5, <1>6, <1>7, <1>8

-----------------------------------------------------------------------------
(* Every step keeps what the actors know.                                  *)
LEMMA LocalStep ==
    LocalInv /\ HolderInv /\ LimNext /\ limClosed' = "open" => LocalInv'
<1> SUFFICES ASSUME LocalInv, HolderInv, LimNext, limClosed' = "open" PROVE LocalInv'
    OBVIOUS
<1> USE LimiterAssumption, FiniteParts
<1>a. /\ Sweeper \in Actor /\ Consult \subseteq Actor
      /\ \A a \in Actor : DOMAIN go[a] = {"at", "key", "now", "todo", "over"} /\ Local(a)
      /\ DOMAIN go = Actor
      BY DEF Actor, LocalInv, Local
<1>b. ASSUME NEW a \in Actor, NEW r, go' = [go EXCEPT ![a] = r], UNCHANGED limiters,
             DOMAIN r = {"at", "key", "now", "todo", "over"}, r.now \in Nat, r.over \in Nat,
             r.at \notin {"store", "drop", "evict", "discount"}
      PROVE  DOMAIN go' = Actor /\ \A b \in Actor : Local(b)'
  <2>1. Mapped' = Mapped
        BY <1>b DEF Mapped
  <2>2. go'[a] = r
        BY <1>a, <1>b
  <2>3. Local(a)'
        BY <1>b, <2>2 DEF Local
  <2> QED BY <1>b, <2>1, <2>3, OneMoves
<1>1. ASSUME NEW c \in Consult, NEW k \in LimKey, AllowLooks(c, k) PROVE LocalInv'
  <2>1. CASE k \in Mapped
    <3>1. Mapped' = Mapped
          BY <1>1, <2>1 DEF AllowLooks, Touch, Mapped, LocalInv
    <3> QED BY <1>1, <2>1, <3>1 DEF AllowLooks, Touch, LocalInv, Local, Listed
  <2>2. CASE k \notin Mapped
    <3> DEFINE r == [Rest EXCEPT !.at = "store", !.key = k, !.now = clock]
    <3>1. go' = [go EXCEPT ![c] = r] /\ UNCHANGED <<limiters, tracked, clock, evicting, skipped>>
          BY <1>1, <2>2 DEF AllowLooks
    <3>2. Local(c)'
          BY <1>a, <3>1 DEF Local, Rest, LocalInv
    <3>3. Mapped' = Mapped
          BY <3>1 DEF Mapped
    <3> HIDE DEF r
    <3> QED BY <1>a, <3>1, <3>2, <3>3, OneMoves DEF LocalInv
  <2> QED BY <2>1, <2>2
<1>2. ASSUME NEW c \in Consult, AllowStores(c) PROVE LocalInv'
  <2> DEFINE k == go[c].key
  <2>1. k \in LimKey /\ go[c].now \in Nat
        BY <1>2, <1>a DEF AllowStores, Local
  <2>2. Mapped' = Mapped \cup {k} /\ limiters' \in [LimKey -> Nat \cup {NoLimiter}]
        BY <1>2, <2>1 DEF AllowStores, Touch, Mapped, LocalInv
  <2>3. PICK r : /\ r \in {Rest, [Rest EXCEPT !.at = "count"]} /\ go' = [go EXCEPT ![c] = r]
        BY <1>2 DEF AllowStores, Leaves
  <2>4. Local(c)'
        BY <1>a, <2>3 DEF Local, Rest
  <2> QED BY <1>2, <1>a, <2>2, <2>3, <2>4, OneMoves DEF LocalInv, AllowStores
<1>3. ASSUME NEW c \in Consult, AllowCounts(c) PROVE LocalInv'
  <2> DEFINE r == [go[c] EXCEPT !.at = "bound"]
  <2>1. go' = [go EXCEPT ![c] = r] /\ UNCHANGED <<limiters, clock, evicting, skipped>>
          /\ tracked' = tracked + 1
        BY <1>3 DEF AllowCounts, At
  <2>2. DOMAIN r = {"at", "key", "now", "todo", "over"} /\ r.now \in Nat
          /\ r.over \in Nat /\ r.at = "bound"
        BY <1>a DEF Local
  <2> HIDE DEF r
  <2>3. DOMAIN go' = Actor /\ \A b \in Actor : Local(b)'
        BY <1>a, <1>b, <2>1, <2>2
  <2> QED BY <2>1, <2>3 DEF LocalInv
<1>4. ASSUME NEW c \in Consult, ChecksBound(c) PROVE LocalInv'
  <2>1. PICK r : r \in {Rest, [go[c] EXCEPT !.at = "lock"]} /\ go' = [go EXCEPT ![c] = r]
        BY <1>4 DEF ChecksBound, At, Leaves
  <2>2. DOMAIN r = {"at", "key", "now", "todo", "over"} /\ r.now \in Nat
          /\ r.over \in Nat /\ r.at \in {"rest", "lock"}
        BY <1>a, <2>1 DEF Local, Rest
  <2> QED BY <1>4, <1>a, <1>b, <2>1, <2>2 DEF LocalInv, ChecksBound
<1>5. ASSUME NEW c \in Consult, TriesEvicting(c) PROVE LocalInv'
  <2>1. PICK r : r \in {Rest, [go[c] EXCEPT !.at = "recheck"]} /\ go' = [go EXCEPT ![c] = r]
        BY <1>5 DEF TriesEvicting, At, Leaves
  <2>2. DOMAIN r = {"at", "key", "now", "todo", "over"} /\ r.now \in Nat
          /\ r.over \in Nat /\ r.at \in {"rest", "recheck"}
    <3>1. CASE r = Rest
          BY <3>1 DEF Rest
    <3>2. CASE r = [go[c] EXCEPT !.at = "recheck"]
          BY <1>a, <3>2 DEF Local
    <3> QED BY <2>1, <3>1, <3>2
  <2>3. evicting' \in Consult \cup {NoLimiter} /\ skipped' \in 0..Cardinality(LimKey)
        BY <1>5 DEF TriesEvicting, LocalInv, MinOf
  <2> QED BY <1>5, <1>a, <1>b, <2>1, <2>2, <2>3 DEF LocalInv, TriesEvicting
<1>6. ASSUME NEW c \in Consult, RechecksBound(c) PROVE LocalInv'
  <2>1. PICK r : /\ r \in {Rest, [Rest EXCEPT !.at = "sweep", !.now = clock, !.todo = LimKey]}
                 /\ go' = [go EXCEPT ![c] = r]
        BY <1>6 DEF RechecksBound, SweepFrom, PassEnds, Leaves
  <2>2. DOMAIN r = {"at", "key", "now", "todo", "over"} /\ r.now \in Nat
          /\ r.over \in Nat /\ r.at \in {"rest", "sweep"}
    <3>1. CASE r = Rest
          BY <3>1 DEF Rest
    <3>2. CASE r = [Rest EXCEPT !.at = "sweep", !.now = clock, !.todo = LimKey]
          BY <3>2 DEF Rest, LocalInv
    <3> QED BY <2>1, <3>1, <3>2
  <2>3. evicting' \in Consult \cup {NoLimiter}
        BY <1>6 DEF RechecksBound, PassEnds, LocalInv
  <2> QED BY <1>6, <1>a, <1>b, <2>1, <2>2, <2>3 DEF LocalInv, RechecksBound
<1>7. ASSUME NEW c \in Consult, PassMeasures(c) PROVE LocalInv'
  <2>1. PICK r : /\ \/ r = Rest
                    \/ tracked > TargetSize
                       /\ r = [go[c] EXCEPT !.at = "scan", !.over = tracked - TargetSize]
                 /\ go' = [go EXCEPT ![c] = r]
        BY <1>7 DEF PassMeasures, PassEnds, Leaves
  <2>2. TargetSize \in Int /\ tracked \in Int
        BY DEF TargetSize, MaxOf, LocalInv
  <2>3. DOMAIN r = {"at", "key", "now", "todo", "over"} /\ r.now \in Nat
          /\ r.over \in Nat /\ r.at \in {"rest", "scan"}
    <3>1. CASE r = Rest
          BY <3>1 DEF Rest
    <3>2. CASE tracked > TargetSize
            /\ r = [go[c] EXCEPT !.at = "scan", !.over = tracked - TargetSize]
      <4>1. tracked - TargetSize \in Nat
            BY <2>2, <3>2
      <4> QED BY <1>a, <3>2, <4>1 DEF Local
    <3> QED BY <2>1, <3>1, <3>2
  <2>4. evicting' \in Consult \cup {NoLimiter}
        BY <1>7 DEF PassMeasures, PassEnds, LocalInv
  <2> QED BY <1>7, <1>a, <1>b, <2>1, <2>3, <2>4 DEF LocalInv, PassMeasures
<1>8. ASSUME NEW c \in Consult, PassScans(c) PROVE LocalInv'
  <2> DEFINE r == [go[c] EXCEPT !.at = "evict", !.todo = {<<k, limiters[k]>> : k \in Mapped}]
  <2>1. go' = [go EXCEPT ![c] = r] /\ UNCHANGED <<limiters, clock, evicting, skipped, tracked>>
        BY <1>8 DEF PassScans
  <2>2. Mapped' = Mapped
        BY <2>1 DEF Mapped
  <2>3. go'[c] = r /\ DOMAIN r = {"at", "key", "now", "todo", "over"}
          /\ r.now = go[c].now /\ r.over = go[c].over /\ r.at = "evict"
        BY <1>a, <2>1
  <2>4. Listed(c)' \subseteq Mapped'
        BY <1>a, <2>2, <2>3 DEF Listed
  <2>5. Local(c)'
        BY <1>a, <2>3, <2>4 DEF Local
  <2> HIDE DEF r
  <2> QED BY <1>a, <2>1, <2>2, <2>5, OneMoves DEF LocalInv
<1>9. ASSUME NEW c \in Consult, PassEvicts(c) PROVE LocalInv'
  <2>1. CASE go[c].over = 0 \/ go[c].todo = {}
    <3>1. go' = [go EXCEPT ![c] = Rest]
            /\ UNCHANGED <<limiters, clock, skipped, tracked>> /\ evicting' = NoLimiter
          BY <1>9, <2>1 DEF PassEvicts, PassEnds, Leaves
    <3>2. DOMAIN Rest = {"at", "key", "now", "todo", "over"} /\ Rest.now \in Nat
            /\ Rest.over \in Nat /\ Rest.at = "rest"
          BY DEF Rest
    <3> QED BY <1>a, <1>b, <3>1, <3>2 DEF LocalInv
  <2>2. CASE ~(go[c].over = 0 \/ go[c].todo = {})
    <3>1. PICK t \in go[c].todo : /\ limiters' = [limiters EXCEPT ![t[1]] = NoLimiter]
                                  /\ go' = [Forgetting(go, t[1]) EXCEPT ![c].at = "discount"]
          BY <1>9, <2>2 DEF PassEvicts
    <3>2. t[1] \in Mapped /\ go[c].over > 0 /\ go[c].at = "evict"
          BY <1>9, <1>a, <2>2 DEF PassEvicts, Local, Listed
    <3>3. t[1] \in LimKey
          BY <3>2 DEF Mapped
    <3>4. DOMAIN go' = Actor /\ \A b \in Actor : Local(b)'
          BY <1>a, <3>1, <3>2, <3>3, OneForgets
    <3>5. limiters' \in [LimKey -> Nat \cup {NoLimiter}]
          BY <3>1, <3>3 DEF LocalInv
    <3> QED BY <1>9, <2>2, <3>4, <3>5 DEF PassEvicts, LocalInv
  <2> QED BY <2>1, <2>2
<1>10. ASSUME NEW c \in Consult, PassUncounts(c) PROVE LocalInv'
  <2> DEFINE r == [go[c] EXCEPT !.at = "evict", !.over = @ - 1]
  <2>1. go' = [go EXCEPT ![c] = r] /\ UNCHANGED <<limiters, clock, evicting, skipped>>
          /\ tracked' = tracked - 1
        BY <1>10 DEF PassUncounts
  <2>2. Mapped' = Mapped
        BY <2>1 DEF Mapped
  <2>3. go'[c] = r /\ DOMAIN r = {"at", "key", "now", "todo", "over"}
          /\ r.now = go[c].now /\ r.over = go[c].over - 1 /\ r.at = "evict" /\ r.todo = go[c].todo
        BY <1>a, <2>1
  <2>4. Listed(c)' \subseteq Mapped' /\ go[c].over > 0 /\ go[c].over \in Nat
        BY <1>10, <1>a, <2>2, <2>3 DEF Listed, Local, PassUncounts
  <2>5. Local(c)'
        BY <1>a, <2>3, <2>4 DEF Local
  <2> HIDE DEF r
  <2>6. DOMAIN go' = Actor /\ \A b \in Actor : Local(b)'
        BY <1>a, <2>1, <2>2, <2>5, OneMoves
  <2> QED BY <2>1, <2>6 DEF LocalInv
<1>11. ASSUME NEW a \in Actor, SweepDrops(a) PROVE LocalInv'
  <2>1. CASE go[a].key = NoLimiter
    <3> DEFINE r == [go[a] EXCEPT !.at = "sweep"]
    <3>1. go' = [go EXCEPT ![a] = r] /\ UNCHANGED <<limiters, clock, evicting, skipped, tracked>>
          BY <1>11, <2>1 DEF SweepDrops, Drops, At
    <3>2. DOMAIN r = {"at", "key", "now", "todo", "over"} /\ r.now \in Nat
            /\ r.over \in Nat /\ r.at = "sweep"
          BY <1>a DEF Local
    <3> HIDE DEF r
    <3> QED BY <1>a, <1>b, <3>1, <3>2 DEF LocalInv
  <2>2. CASE go[a].key # NoLimiter
    <3>1. /\ limiters' = [limiters EXCEPT ![go[a].key] = NoLimiter]
          /\ go' = [Forgetting(go, go[a].key) EXCEPT ![a].at = "uncount"]
          /\ go[a].at = "drop" /\ UNCHANGED <<clock, evicting, skipped, tracked>>
          BY <1>11, <2>2 DEF SweepDrops, Drops
    <3>2. go[a].key \in LimKey
          BY <1>a, <2>2, <3>1 DEF Local, Mapped
    <3>3. DOMAIN go' = Actor /\ \A b \in Actor : Local(b)'
          BY <3>1, <3>2, OneForgets
    <3>4. limiters' \in [LimKey -> Nat \cup {NoLimiter}]
          BY <3>1, <3>2 DEF LocalInv
    <3> QED BY <3>1, <3>3, <3>4 DEF LocalInv
  <2> QED BY <2>1, <2>2
<1>12. ASSUME NEW a \in Actor, SweepUncounts(a) PROVE LocalInv'
  <2> DEFINE r == [go[a] EXCEPT !.at = "sweep"]
  <2>1. go' = [go EXCEPT ![a] = r] /\ UNCHANGED <<limiters, clock, evicting, skipped>>
          /\ tracked' = tracked - 1
        BY <1>12 DEF SweepUncounts, At
  <2>2. DOMAIN r = {"at", "key", "now", "todo", "over"} /\ r.now \in Nat
          /\ r.over \in Nat /\ r.at = "sweep"
        BY <1>a DEF Local
  <2> HIDE DEF r
  <2>3. DOMAIN go' = Actor /\ \A b \in Actor : Local(b)'
        BY <1>a, <1>b, <2>1, <2>2
  <2> QED BY <2>1, <2>3 DEF LocalInv
<1>13. ASSUME NEW a \in Actor, SweepEnds(a) PROVE LocalInv'
  <2>1. PICK r : r \in {Rest, [Rest EXCEPT !.at = "over"]} /\ go' = [go EXCEPT ![a] = r]
        BY <1>13 DEF SweepEnds, Leaves
  <2>2. DOMAIN r = {"at", "key", "now", "todo", "over"} /\ r.now \in Nat
          /\ r.over \in Nat /\ r.at \in {"rest", "over"}
        BY <2>1 DEF Rest
  <2> QED BY <1>13, <1>a, <1>b, <2>1, <2>2 DEF LocalInv, SweepEnds
<1>14. ASSUME NEW a \in Actor, NEW k \in LimKey, SweepVisits(a, k) PROVE LocalInv'
  <2>1. PICK r : /\ \/ r = [go[a] EXCEPT !.todo = @ \ {k}, !.at = "drop", !.key = k]
                    \/ r = [go[a] EXCEPT !.todo = @ \ {k}, !.at = "sweep", !.key = NoLimiter]
                 /\ go' = [go EXCEPT ![a] = r]
        BY <1>14 DEF SweepVisits
  <2>2. k \in Mapped /\ UNCHANGED <<limiters, clock, evicting, skipped, tracked>>
        BY <1>14 DEF SweepVisits
  <2>3. Mapped' = Mapped
        BY <2>2 DEF Mapped
  <2>4. go'[a] = r /\ DOMAIN r = {"at", "key", "now", "todo", "over"} /\ r.now \in Nat
          /\ r.over \in Nat
        BY <1>a, <2>1 DEF Local
  <2>5. Local(a)'
        BY <1>a, <2>1, <2>2, <2>3, <2>4 DEF Local
  <2> QED BY <2>1, <2>2, <2>3, <2>5, OneMoves DEF LocalInv
<1>15. ASSUME SweepTicks PROVE LocalInv'
  <2> DEFINE r == [Rest EXCEPT !.at = "sweep", !.now = clock, !.todo = LimKey]
  <2>1. go' = [go EXCEPT ![Sweeper] = r]
          /\ UNCHANGED <<limiters, clock, evicting, skipped, tracked>>
        BY <1>15 DEF SweepTicks, SweepFrom
  <2>2. DOMAIN r = {"at", "key", "now", "todo", "over"} /\ r.now \in Nat
          /\ r.over \in Nat /\ r.at = "sweep"
        BY DEF Rest, LocalInv
  <2> HIDE DEF r
  <2>3. DOMAIN go' = Actor /\ \A b \in Actor : Local(b)'
        BY <1>a, <1>b, <2>1, <2>2
  <2> QED BY <2>1, <2>3 DEF LocalInv
<1>16. ASSUME LimTick PROVE LocalInv'
      BY <1>16 DEF LimTick, LocalInv, Local, Listed, Mapped
<1>17. ~LimCloses
      BY DEF LimCloses
<1> QED BY <1>1, <1>2, <1>3, <1>4, <1>5, <1>6, <1>7, <1>8, <1>9, <1>10, <1>11, <1>12, <1>13,
           <1>14, <1>15, <1>16, <1>17 DEF LimNext, AllowStep

-----------------------------------------------------------------------------
(* One actor moves: what that means for the mutex.                         *)
LEMMA HolderKept ==
    ASSUME HolderInv, NEW a \in Actor, \A b \in Actor \ {a} : go'[b].at = go[b].at,
           a = Sweeper => go'[a].at \in {"rest", "sweep", "drop", "uncount"},
           a \in Consult => (go'[a].at \in Passing <=> evicting' = a),
           evicting' = evicting \/ (a \in Consult /\ evicting' \in {a, NoLimiter}
             /\ evicting \in {a, NoLimiter})
    PROVE  HolderInv'
BY LimiterAssumption DEF HolderInv, Actor

(* If the settled entries are within the excused, so is every pass.        *)
LEMMA BoundMet ==
    ASSUME LocalInv', Settled' <= Excused'
    PROVE  BoundInv'
<1>1. ASSUME NEW c \in Consult
      PROVE Cardinality(Mapped' \ Listed(c)') <= Cardinality(Mapped')
        /\ Cardinality(Mapped' \ Listed(c)') \in Nat
  <2>1. IsFiniteSet(Mapped') /\ (Mapped' \ Listed(c)') \in SUBSET Mapped'
        BY Counts, FiniteParts
  <2> QED BY <2>1, FS_Subset, FS_CardinalityType
<1>2. \A c \in Consult : go'[c].over \in Nat /\ (go'[c].at = "discount" => go'[c].over > 0)
      BY DEF LocalInv, Local, Actor
<1>3. Settled' \in Int /\ Excused' \in Int
        /\ Settled' = Cardinality(Mapped') - Cardinality(Counting')
      BY Counts, LimiterAssumption, FiniteParts DEF Settled, Excused, LocalInv
<1> QED BY <1>1, <1>2, <1>3, Counts DEF BoundInv

(* A difference that does not grow keeps a bound.                          *)
LEMMA Slack ==
    ASSUME NEW x \in Int, NEW y \in Int, NEW x2 \in Int, NEW y2 \in Int, x2 - y2 <= x - y
    PROVE  /\ x <= y => x2 <= y2
           /\ \A o \in Nat : (x - o <= y => x2 - o <= y2) /\ (x - o < y => x2 - o < y2)
OBVIOUS

(* A step that frees slots, or takes none, keeps the bound of the others.  *)
LEMMA BoundKept ==
    ASSUME LocalInv, LocalInv', BoundInv, NEW a \in Actor, evicting' = evicting,
           \A c \in Consult \ {a} : go'[c].at = go[c].at /\ go'[c].over = go[c].over,
           a \in Consult => go'[a].at \notin {"scan", "evict", "discount"},
           Settled' - Excused' <= Settled - Excused,
           \A c \in Consult \ {a} : go[c].at \in {"evict", "discount"} =>
             Cardinality(Mapped' \ Listed(c)') - Cardinality(Counting') - Excused'
               <= Cardinality(Mapped \ Listed(c)) - Cardinality(Counting) - Excused
    PROVE  BoundInv'
<1>1. \A c \in Consult : Cardinality(Mapped' \ Listed(c)') \in Nat
        /\ Cardinality(Mapped \ Listed(c)) \in Nat
  <2>1. \A c \in Consult : (Mapped' \ Listed(c)') \in SUBSET LimKey
          /\ (Mapped \ Listed(c)) \in SUBSET LimKey
        BY Counts
  <2> QED BY <2>1, FiniteParts
<1>2. \A c \in Consult : go[c].over \in Nat
      BY DEF LocalInv, Local, Actor
<1>3. Settled' \in Int /\ Excused' \in Int /\ Settled \in Int /\ Excused \in Int
      BY Counts, LimiterAssumption, FiniteParts DEF Settled, Excused, LocalInv
<1>4. evicting' = NoLimiter => Settled' <= Excused'
      BY <1>3, Slack DEF BoundInv
<1>5. ASSUME NEW c \in Consult
      PROVE  /\ go'[c].at \in {"scan", "evict"} => Settled' - go'[c].over <= Excused'
             /\ go'[c].at = "discount" => Settled' - go'[c].over < Excused'
             /\ go'[c].at \in {"evict", "discount"} =>
                  Cardinality(Mapped' \ Listed(c)') - Cardinality(Counting') <= Excused'
  <2>1. CASE c = a
        BY <2>1
  <2>2. CASE c # a
    <3>1. go'[c].at = go[c].at /\ go'[c].over = go[c].over /\ go[c].over \in Nat
          BY <1>2, <2>2
    <3>2. /\ go[c].at \in {"scan", "evict"} => Settled' - go[c].over <= Excused'
          /\ go[c].at = "discount" => Settled' - go[c].over < Excused'
      <4>1. /\ go[c].at \in {"scan", "evict"} => Settled - go[c].over <= Excused
            /\ go[c].at = "discount" => Settled - go[c].over < Excused
            BY DEF BoundInv
      <4>2. \A o \in Nat : /\ Settled - o <= Excused => Settled' - o <= Excused'
                           /\ Settled - o < Excused => Settled' - o < Excused'
            BY <1>3, Slack
      <4> QED BY <3>1, <4>1, <4>2
    <3>3. ASSUME go[c].at \in {"evict", "discount"}
          PROVE  Cardinality(Mapped' \ Listed(c)') - Cardinality(Counting') <= Excused'
      <4> DEFINE x == Cardinality(Mapped \ Listed(c)) - Cardinality(Counting)
                 x2 == Cardinality(Mapped' \ Listed(c)') - Cardinality(Counting')
      <4>1. x \in Int /\ x2 \in Int
            BY <1>1, Counts
      <4>2. x <= Excused /\ x2 - Excused' <= x - Excused
            BY <2>2, <3>3 DEF BoundInv
      <4> HIDE DEF x, x2
      <4>3. x2 <= Excused'
            BY <1>3, <4>1, <4>2, Slack
      <4> QED BY <4>3 DEF x2
    <3> QED BY <3>1, <3>2, <3>3
  <2> QED BY <2>1, <2>2
<1> QED BY <1>4, <1>5 DEF BoundInv

(* The mutex, the counter and the bound together.                          *)
CountInv == HolderInv /\ TallyInv /\ BoundInv

(* A step that changes neither the map, nor the counter, nor who has to    *)
(* settle.                                                                 *)
LEMMA Quiet ==
    ASSUME LocalInv, LocalInv', CountInv, NEW a \in Actor,
           \A b \in Actor \ {a} : go'[b] = go[b],
           Mapped' = Mapped, UNCHANGED <<tracked, skipped, evicting>>,
           go[a].at \in {"bound", "lock"} <=> go'[a].at \in {"bound", "lock"},
           go[a].at \notin {"count", "uncount", "discount"},
           go'[a].at \notin {"count", "uncount", "scan", "evict", "discount"},
           a = Sweeper => go'[a].at \in {"rest", "sweep", "drop"},
           a \in Consult => (go'[a].at \in Passing <=> go[a].at \in Passing)
    PROVE  CountInv'
<1>1. \A b \in Actor \ {a} : go'[b].at = go[b].at /\ go'[b].over = go[b].over
        /\ Listed(b)' = Listed(b)
      BY DEF Listed
<1>2. /\ Cardinality(Counting') = Cardinality(Counting)
      /\ Cardinality(Settling') = Cardinality(Settling)
      /\ Cardinality(Owing') = Cardinality(Owing)
      BY <1>1, Moves
<1>3. Settled' = Settled /\ Excused' = Excused
      BY <1>2 DEF Settled, Excused
<1>4. HolderInv'
      BY <1>1, HolderKept DEF CountInv, HolderInv
<1>5. TallyInv'
      BY <1>2, <1>3 DEF CountInv, TallyInv
<1>6. BoundInv'
  <2>1. Settled \in Int /\ Excused \in Int
        BY Counts, LimiterAssumption, FiniteParts DEF Settled, Excused, LocalInv
  <2>2. \A c \in Consult \ {a} : Cardinality(Mapped \ Listed(c)) \in Nat
    <3>1. \A c \in Consult : (Mapped \ Listed(c)) \in SUBSET LimKey
          BY Counts
    <3> QED BY <3>1, FiniteParts
  <2>3. Consult \subseteq Actor
        BY DEF Actor
  <2>4. Settled' - Excused' <= Settled - Excused
        BY <1>3, <2>1
  <2>5. \A c \in Consult \ {a} : go'[c].at = go[c].at /\ go'[c].over = go[c].over
          /\ Listed(c)' = Listed(c)
        BY <1>1, <2>3
  <2>6. \A c \in Consult \ {a} : go[c].at \in {"evict", "discount"} =>
             Cardinality(Mapped' \ Listed(c)') - Cardinality(Counting') - Excused'
               <= Cardinality(Mapped \ Listed(c)) - Cardinality(Counting) - Excused
    <3> TAKE c \in Consult \ {a}
    <3>1. Mapped' \ Listed(c)' = Mapped \ Listed(c)
          BY <2>5
    <3>2. Cardinality(Mapped \ Listed(c)) - Cardinality(Counting) - Excused \in Int
          BY <2>1, <2>2, Counts
    <3>3. Cardinality(Mapped' \ Listed(c)') - Cardinality(Counting') - Excused'
            = Cardinality(Mapped \ Listed(c)) - Cardinality(Counting) - Excused
          BY <1>2, <1>3, <3>1, Zenon
    <3>4. \A z \in Int : z <= z
          OBVIOUS
    <3> QED BY <3>2, <3>3, <3>4, Zenon
  <2> QED BY <2>4, <2>5, <2>6, BoundKept DEF CountInv
<1> QED BY <1>4, <1>5, <1>6 DEF CountInv

(* The size a pass aims for is within the bound.                           *)
LEMMA Target == TargetSize \in Nat /\ TargetSize <= MaxLimiters
<1>1. MaxLimiters \div HeadroomDivisor \in Nat
      BY LimiterAssumption
<1> QED BY <1>1, LimiterAssumption DEF TargetSize, MaxOf

(* Every step of Allow, of a capacity pass and of the sweeper keeps the    *)
(* mutex, the counter and the bound.                                       *)
LEMMA CountInvStep ==
    LocalInv /\ LocalInv' /\ CountInv /\ LimNext /\ limClosed' = "open" => CountInv'
<1> SUFFICES ASSUME LocalInv, LocalInv', CountInv, LimNext, limClosed' = "open" PROVE CountInv'
    OBVIOUS
<1>a. /\ Sweeper \in Actor /\ Consult \subseteq Actor /\ Sweeper \notin Consult
      /\ \A a \in Actor : DOMAIN go[a] = {"at", "key", "now", "todo", "over"}
         /\ Local(a) /\ go[a].over \in Nat
      /\ DOMAIN go = Actor /\ NoLimiter \notin Consult
      BY LimiterAssumption DEF Actor, LocalInv, Local
<1>b. /\ Settled \in Int /\ Excused \in Int /\ Settled' \in Int /\ Excused' \in Int
      /\ skipped \in Nat /\ skipped' \in Nat /\ tracked \in Int /\ tracked' \in Int
      /\ MaxLimiters \in Nat
      BY Counts, LimiterAssumption, FiniteParts DEF Settled, Excused, LocalInv
<1>c. \A c \in Consult : (Mapped' \ Listed(c)') \in SUBSET LimKey
        /\ (Mapped \ Listed(c)) \in SUBSET LimKey
      BY Counts
<1>d. \A c \in Consult : Cardinality(Mapped' \ Listed(c)') \in Nat
        /\ Cardinality(Mapped \ Listed(c)) \in Nat
      BY <1>c, FiniteParts
<1>e. HolderInv /\ TallyInv /\ BoundInv
      BY DEF CountInv
<1>f. ASSUME NEW c \in Consult, go[c].at \in Passing
      PROVE \A q \in Consult \ {c} : go[q].at \notin Passing
      BY <1>e, <1>f DEF HolderInv
<1>g. Settled <= tracked
      BY <1>b, <1>e, Counts DEF TallyInv
<1>1. ASSUME NEW c \in Consult, NEW k \in LimKey, AllowLooks(c, k) PROVE CountInv'
  <2>1. CASE k \in Mapped
    <3>1. Mapped' = Mapped
          BY <1>1, <2>1, LimiterAssumption DEF AllowLooks, Touch, Mapped, LocalInv
    <3>2. go' = go /\ UNCHANGED <<tracked, skipped, evicting>> /\ go[c].at = "rest"
          BY <1>1, <2>1 DEF AllowLooks
    <3> QED BY <1>a, <3>1, <3>2, Quiet DEF Passing
  <2>2. CASE k \notin Mapped
    <3>1. /\ go' = [go EXCEPT ![c] = [Rest EXCEPT !.at = "store", !.key = k, !.now = clock]]
          /\ UNCHANGED <<limiters, tracked, skipped, evicting>> /\ go[c].at = "rest"
          BY <1>1, <2>2 DEF AllowLooks
    <3>2. go'[c].at = "store" /\ \A b \in Actor \ {c} : go'[b] = go[b]
          BY <1>a, <3>1 DEF Rest
    <3>3. Mapped' = Mapped
          BY <3>1 DEF Mapped
    <3> QED BY <1>a, <3>1, <3>2, <3>3, Quiet DEF Passing
  <2> QED BY <2>1, <2>2
<1>2. ASSUME NEW c \in Consult, AllowStores(c) PROVE CountInv'
  <2>1. PICK k \in LimKey : k = go[c].key
        BY <1>2, <1>a DEF AllowStores, Local
  <2>2. Mapped' = Mapped \cup {k} /\ UNCHANGED <<tracked, skipped, evicting>> /\ go[c].at = "store"
        BY <1>2, <1>a, <2>1, LimiterAssumption
           DEF AllowStores, Touch, Mapped, LocalInv, Local
  <2>3. CASE k \in Mapped
    <3>1. go' = [go EXCEPT ![c] = Rest] /\ Mapped' = Mapped
          BY <1>2, <2>1, <2>2, <2>3 DEF AllowStores, Leaves
    <3>2. go'[c].at = "rest" /\ \A b \in Actor \ {c} : go'[b] = go[b]
          BY <1>a, <3>1 DEF Rest
    <3> QED BY <1>a, <2>2, <3>1, <3>2, Quiet DEF Passing
  <2>4. CASE k \notin Mapped
    <3>1. go' = [go EXCEPT ![c] = [Rest EXCEPT !.at = "count"]]
          BY <1>2, <2>1, <2>4 DEF AllowStores
    <3>2. go'[c].at = "count" /\ \A b \in Actor \ {c} : go'[b] = go[b]
          BY <1>a, <3>1 DEF Rest
    <3>3. \A b \in Actor \ {c} : go'[b].at = go[b].at /\ go'[b].over = go[b].over
            /\ Listed(b)' = Listed(b)
          BY <3>2 DEF Listed
    <3>4. /\ Cardinality(Counting') = Cardinality(Counting) + 1
          /\ Cardinality(Settling') = Cardinality(Settling)
          /\ Cardinality(Owing') = Cardinality(Owing)
          BY <1>a, <2>2, <3>2, <3>3, Moves
    <3>5. Cardinality(Mapped') = Cardinality(Mapped) + 1
          BY <2>2, <2>4, AddOne, Counts, FiniteParts
    <3>6. Settled' = Settled /\ Excused' = Excused
          BY <2>2, <3>4, <3>5, Counts DEF Settled, Excused
    <3>7. HolderInv'
          BY <1>a, <1>e, <2>2, <3>2, <3>3, HolderKept DEF HolderInv, Passing
    <3>8. TallyInv'
          BY <1>e, <2>2, <3>4, <3>6 DEF TallyInv
    <3>9. ASSUME NEW q \in Consult \ {c}, go[q].at \in {"evict", "discount"}
          PROVE  Cardinality(Mapped' \ Listed(q)') - Cardinality(Counting') - Excused'
                   <= Cardinality(Mapped \ Listed(q)) - Cardinality(Counting) - Excused
      <4>1. Listed(q)' = Listed(q) /\ Listed(q) \subseteq Mapped
            BY <1>a, <3>3, <3>9 DEF Local
      <4>2. Mapped' \ Listed(q)' = (Mapped \ Listed(q)) \cup {k} /\ k \notin Mapped \ Listed(q)
            BY <2>2, <2>4, <4>1
      <4>3. Cardinality(Mapped' \ Listed(q)') = Cardinality(Mapped \ Listed(q)) + 1
            BY <1>c, <4>2, AddOne, FiniteParts
      <4> QED BY <1>b, <1>d, <3>4, <3>6, <4>3, Counts
    <3>10. BoundInv'
      <4>1. Settled' - Excused' <= Settled - Excused
            BY <1>b, <3>6
      <4> QED BY <1>a, <1>e, <2>2, <3>2, <3>3, <3>9, <4>1, BoundKept
    <3> QED BY <3>7, <3>8, <3>10 DEF CountInv
  <2> QED BY <2>3, <2>4
<1>3. ASSUME NEW c \in Consult, AllowCounts(c) PROVE CountInv'
  <2>1. /\ go' = [go EXCEPT ![c].at = "bound"] /\ UNCHANGED <<limiters, evicting, skipped>>
        /\ tracked' = tracked + 1 /\ go[c].at = "count"
        BY <1>3 DEF AllowCounts, At
  <2>2. go'[c].at = "bound" /\ \A b \in Actor \ {c} : go'[b] = go[b]
        BY <1>a, <2>1
  <2>3. \A b \in Actor \ {c} : go'[b].at = go[b].at /\ go'[b].over = go[b].over
          /\ Listed(b)' = Listed(b)
        BY <2>2 DEF Listed
  <2>4. /\ Cardinality(Counting') = Cardinality(Counting) - 1
        /\ Cardinality(Settling') = Cardinality(Settling) + 1
        /\ Cardinality(Owing') = Cardinality(Owing)
        BY <1>a, <2>1, <2>2, <2>3, Moves
  <2>5. Mapped' = Mapped
        BY <2>1 DEF Mapped
  <2>6. Settled' = Settled + 1 /\ Excused' = Excused + 1
        BY <1>b, <2>1, <2>4, <2>5, Counts DEF Settled, Excused
  <2>7. HolderInv'
        BY <1>a, <1>e, <2>1, <2>2, <2>3, HolderKept DEF HolderInv, Passing
  <2>8. TallyInv'
        BY <1>b, <1>e, <2>1, <2>4, <2>6, Counts DEF TallyInv
  <2>9. ASSUME NEW q \in Consult \ {c}, go[q].at \in {"evict", "discount"}
        PROVE  Cardinality(Mapped' \ Listed(q)') - Cardinality(Counting') - Excused'
                 <= Cardinality(Mapped \ Listed(q)) - Cardinality(Counting) - Excused
    <3>1. Mapped' \ Listed(q)' = Mapped \ Listed(q)
          BY <1>a, <2>3, <2>5
    <3> QED BY <1>b, <1>d, <2>4, <2>6, <3>1, Counts
  <2>10. BoundInv'
    <3>1. Settled' - Excused' <= Settled - Excused
          BY <1>b, <2>6
    <3> QED BY <1>a, <1>e, <2>1, <2>2, <2>3, <2>9, <3>1, BoundKept
  <2> QED BY <2>7, <2>8, <2>10 DEF CountInv
\* A call that leaves from where it has to settle, or ends its pass.
<1>4. ASSUME NEW c \in Consult, go' = [go EXCEPT ![c] = Rest], Mapped' = Mapped, tracked' = tracked,
             go[c].at \in {"bound", "lock", "recheck", "over", "evict"},
             \/ evicting' = evicting /\ go[c].at \in {"bound", "lock"}
             \/ evicting' = NoLimiter /\ go[c].at \in Passing,
             Settled' = Settled => Settled' <= Excused'
      PROVE  CountInv'
  <2>1. go'[c].at = "rest" /\ \A b \in Actor \ {c} : go'[b].at = go[b].at
        BY <1>4, <1>a DEF Rest
  <2>2. Cardinality(Counting') = Cardinality(Counting) /\ Cardinality(Owing') = Cardinality(Owing)
        BY <1>4, <1>a, <2>1, Moves
  <2>3. Settled' = Settled
        BY <1>4, <2>2 DEF Settled
  <2>4. HolderInv'
        BY <1>4, <1>a, <1>e, <2>1, HolderKept DEF HolderInv, Passing
  <2>5. TallyInv'
        BY <1>4, <1>e, <2>2, <2>3 DEF TallyInv
  <2>6. BoundInv'
        BY <1>4, <2>3, BoundMet
  <2> QED BY <2>4, <2>5, <2>6 DEF CountInv
<1>5. ASSUME NEW c \in Consult, ChecksBound(c) PROVE CountInv'
  <2>1. UNCHANGED <<limiters, tracked, evicting, skipped>> /\ go[c].at = "bound" /\ Mapped' = Mapped
        BY <1>5 DEF ChecksBound, Mapped
  <2>2. CASE OverBound
    <3>1. go' = [go EXCEPT ![c].at = "lock"]
          BY <1>5, <2>2 DEF ChecksBound, At
    <3>2. go'[c].at = "lock" /\ \A b \in Actor \ {c} : go'[b] = go[b]
          BY <1>a, <3>1
    <3> QED BY <1>a, <2>1, <3>2, Quiet DEF Passing
  <2>3. CASE ~OverBound
    <3>1. go' = [go EXCEPT ![c] = Rest]
          BY <1>5, <2>3 DEF ChecksBound, Leaves
    <3>2. Settled <= MaxLimiters
          BY <1>b, <1>g, <2>3 DEF OverBound
    <3>3. MaxLimiters <= Excused'
          BY <1>b, Counts DEF Excused
    <3>4. Settled <= Excused'
          BY <1>b, <3>2, <3>3
    <3> QED BY <1>4, <2>1, <3>1, <3>4
  <2> QED BY <2>2, <2>3
<1>6. ASSUME NEW c \in Consult, TriesEvicting(c) PROVE CountInv'
  <2>1. UNCHANGED <<limiters, tracked>> /\ go[c].at = "lock" /\ Mapped' = Mapped
        BY <1>6 DEF TriesEvicting, Mapped
  <2>2. CASE evicting # NoLimiter
    <3>1. /\ go' = [go EXCEPT ![c] = Rest] /\ evicting' = evicting
          /\ skipped' = IF skipped + 1 < Cardinality(LimKey) THEN skipped + 1
             ELSE Cardinality(LimKey)
          BY <1>6, <2>2 DEF TriesEvicting, Leaves, MinOf
    <3>2. CASE skipped' = Cardinality(LimKey)
      <4>1. Settled <= Cardinality(LimKey)
            BY Counts, FiniteParts DEF Settled
      <4>2. Cardinality(LimKey) <= Excused'
            BY <1>b, <3>2, Counts DEF Excused
      <4>3. Settled <= Excused'
            BY <1>b, <4>1, <4>2, FiniteParts
      <4> QED BY <1>4, <2>1, <3>1, <4>3
    <3>3. CASE skipped' = skipped + 1
      <4>1. go'[c].at = "rest" /\ \A b \in Actor \ {c} : go'[b] = go[b]
            BY <1>a, <3>1 DEF Rest
      <4>2. \A b \in Actor \ {c} : go'[b].at = go[b].at /\ go'[b].over = go[b].over
              /\ Listed(b)' = Listed(b)
            BY <4>1 DEF Listed
      <4>3. /\ Cardinality(Counting') = Cardinality(Counting)
            /\ Cardinality(Settling') = Cardinality(Settling) - 1
            /\ Cardinality(Owing') = Cardinality(Owing)
            BY <1>a, <2>1, <4>1, <4>2, Moves
      <4>4. Settled' = Settled /\ Excused' = Excused
            BY <1>b, <2>1, <3>3, <4>3, Counts DEF Settled, Excused
      <4>5. HolderInv'
            BY <1>a, <1>e, <2>1, <3>1, <4>1, <4>2, HolderKept DEF HolderInv, Passing
      <4>6. TallyInv'
            BY <1>e, <2>1, <4>3, <4>4 DEF TallyInv
      <4>7. ASSUME NEW q \in Consult \ {c}, go[q].at \in {"evict", "discount"}
            PROVE  Cardinality(Mapped' \ Listed(q)') - Cardinality(Counting') - Excused'
                     <= Cardinality(Mapped \ Listed(q)) - Cardinality(Counting) - Excused
        <5>1. Mapped' \ Listed(q)' = Mapped \ Listed(q)
              BY <1>a, <2>1, <4>2
        <5> QED BY <1>b, <1>d, <4>3, <4>4, <5>1, Counts
      <4>8. BoundInv'
        <5>1. Settled' - Excused' <= Settled - Excused
              BY <1>b, <4>4
        <5> QED BY <1>a, <1>e, <3>1, <4>1, <4>2, <4>7, <5>1, BoundKept
      <4> QED BY <4>5, <4>6, <4>8 DEF CountInv
    <3> QED BY <3>1, <3>2, <3>3
  <2>3. CASE evicting = NoLimiter
    <3>1. go' = [go EXCEPT ![c].at = "recheck"] /\ evicting' = c
          BY <1>6, <2>3 DEF TriesEvicting, At
    <3>2. go'[c].at = "recheck" /\ \A b \in Actor \ {c} : go'[b].at = go[b].at
          BY <1>a, <3>1
    <3>3. Cardinality(Counting') = Cardinality(Counting) /\ Cardinality(Owing') = Cardinality(Owing)
          BY <1>a, <2>1, <3>2, Moves
    <3>4. HolderInv'
          BY <1>a, <1>e, <2>3, <3>1, <3>2, HolderKept DEF HolderInv, Passing
    <3>5. TallyInv'
          BY <1>e, <2>1, <3>3 DEF TallyInv, Settled
    <3>6. BoundInv'
      <4>1. \A q \in Consult : go'[q].at \notin {"scan", "evict", "discount"}
            BY <1>a, <1>e, <2>3, <3>2 DEF HolderInv, Passing
      <4> QED BY <1>a, <3>1, <4>1 DEF BoundInv
    <3> QED BY <3>4, <3>5, <3>6 DEF CountInv
  <2> QED BY <2>2, <2>3
<1>7. ASSUME NEW c \in Consult, RechecksBound(c) PROVE CountInv'
  <2>1. UNCHANGED <<limiters, tracked, skipped>> /\ go[c].at = "recheck" /\ Mapped' = Mapped
        BY <1>7 DEF RechecksBound, Mapped
  <2>2. CASE OverBound
    <3>1. go' = [go EXCEPT ![c] = [Rest EXCEPT !.at = "sweep", !.now = clock, !.todo = LimKey]]
            /\ evicting' = evicting
          BY <1>7, <2>2 DEF RechecksBound, SweepFrom
    <3>2. go'[c].at = "sweep" /\ \A b \in Actor \ {c} : go'[b] = go[b]
          BY <1>a, <3>1 DEF Rest
    <3> QED BY <1>a, <2>1, <3>1, <3>2, Quiet DEF Passing
  <2>3. CASE ~OverBound
    <3>1. go' = [go EXCEPT ![c] = Rest] /\ evicting' = NoLimiter
          BY <1>7, <2>3 DEF RechecksBound, Leaves, PassEnds
    <3>2. Settled <= MaxLimiters
          BY <1>b, <1>g, <2>3 DEF OverBound
    <3>3. MaxLimiters <= Excused'
          BY <1>b, Counts DEF Excused
    <3>4. Settled <= Excused'
          BY <1>b, <3>2, <3>3
    <3> QED BY <1>4, <2>1, <3>1, <3>4 DEF Passing
  <2> QED BY <2>2, <2>3
<1>8. ASSUME NEW c \in Consult, PassMeasures(c) PROVE CountInv'
  <2>1. UNCHANGED <<limiters, tracked, skipped>> /\ go[c].at = "over" /\ Mapped' = Mapped
        BY <1>8 DEF PassMeasures, Mapped
  <2>2. MaxLimiters <= Excused'
        BY <1>b, Counts DEF Excused
  <2>3. CASE tracked > TargetSize
    <3>1. go' = [go EXCEPT ![c].at = "scan", ![c].over = tracked - TargetSize]
            /\ evicting' = evicting
          BY <1>8, <2>3 DEF PassMeasures
    <3>2. go'[c].at = "scan" /\ go'[c].over = tracked - TargetSize
            /\ \A b \in Actor \ {c} : go'[b].at = go[b].at
          BY <1>a, <3>1
    <3>3. Cardinality(Counting') = Cardinality(Counting) /\ Cardinality(Owing') = Cardinality(Owing)
          BY <1>a, <2>1, <3>2, Moves
    <3>4. HolderInv'
          BY <1>a, <1>e, <2>1, <3>1, <3>2, HolderKept DEF HolderInv, Passing
    <3>5. TallyInv' /\ Settled' = Settled
          BY <1>e, <2>1, <3>3 DEF TallyInv, Settled
    <3>6. BoundInv'
      <4>1. \A q \in Consult \ {c} : go'[q].at \notin {"scan", "evict", "discount"}
            BY <1>a, <1>f, <2>1, <3>2 DEF Passing
      <4>2. evicting' # NoLimiter
            BY <1>a, <1>e, <2>1, <3>1 DEF HolderInv, Passing
      <4>3. Settled' - go'[c].over <= Excused'
            BY <1>b, <1>g, <2>2, <3>2, <3>5, Target
      <4> QED BY <3>2, <4>1, <4>2, <4>3 DEF BoundInv
    <3> QED BY <3>4, <3>5, <3>6 DEF CountInv
  <2>4. CASE ~(tracked > TargetSize)
    <3>1. go' = [go EXCEPT ![c] = Rest] /\ evicting' = NoLimiter
          BY <1>8, <2>4 DEF PassMeasures, Leaves, PassEnds
    <3>2. Settled <= Excused'
          BY <1>b, <1>g, <2>2, <2>4, Target
    <3> QED BY <1>4, <2>1, <3>1, <3>2 DEF Passing
  <2> QED BY <2>3, <2>4
<1>9. ASSUME NEW c \in Consult, PassScans(c) PROVE CountInv'
  <2>1. /\ UNCHANGED <<limiters, tracked, skipped, evicting>> /\ go[c].at = "scan"
        /\ Mapped' = Mapped
        /\ go' = [go EXCEPT ![c].at = "evict", ![c].todo = {<<k, limiters[k]>> : k \in Mapped}]
        BY <1>9 DEF PassScans, Mapped
  <2>2. /\ go'[c].at = "evict" /\ go'[c].over = go[c].over
           /\ go'[c].todo = {<<k, limiters[k]>> : k \in Mapped}
        /\ \A b \in Actor \ {c} : go'[b].at = go[b].at
        BY <1>a, <2>1
  <2>3. /\ Cardinality(Counting') = Cardinality(Counting)
        /\ Cardinality(Owing') = Cardinality(Owing)
        /\ Cardinality(Settling') = Cardinality(Settling)
        BY <1>a, <2>1, <2>2, Moves
  <2>4. HolderInv'
        BY <1>a, <1>e, <2>1, <2>2, HolderKept DEF HolderInv, Passing
  <2>5. TallyInv' /\ Settled' = Settled /\ Excused' = Excused
        BY <1>e, <2>1, <2>3 DEF TallyInv, Settled, Excused
  <2>6. BoundInv'
    <3>1. \A q \in Consult \ {c} : go'[q].at \notin {"scan", "evict", "discount"}
          BY <1>a, <1>f, <2>1, <2>2 DEF Passing
    <3>2. evicting' # NoLimiter
          BY <1>a, <1>e, <2>1 DEF HolderInv, Passing
    <3>3. Settled' - go'[c].over <= Excused'
          BY <1>e, <2>1, <2>2, <2>5 DEF BoundInv
    <3>4. Mapped' \ Listed(c)' = {}
      <4>1. \A k \in Mapped : <<k, limiters[k]>> \in go'[c].todo /\ <<k, limiters[k]>>[1] = k
            BY <2>2
      <4>2. \A k \in Mapped : k \in {t[1] : t \in go'[c].todo}
            BY <4>1
      <4> QED BY <2>1, <4>2 DEF Listed
    <3>5. Cardinality(Mapped' \ Listed(c)') - Cardinality(Counting') <= Excused'
      <4>1. Cardinality(Mapped' \ Listed(c)') = 0
            BY <3>4, FS_EmptySet
      <4> QED BY <1>b, <4>1, Counts DEF Excused
    <3> QED BY <2>2, <3>1, <3>2, <3>3, <3>5 DEF BoundInv
  <2> QED BY <2>4, <2>5, <2>6 DEF CountInv
<1>10. ASSUME NEW c \in Consult, PassEvicts(c) PROVE CountInv'
  <2>1. UNCHANGED <<tracked, skipped>> /\ go[c].at = "evict"
        BY <1>10 DEF PassEvicts
  <2>2. CASE go[c].over = 0 \/ go[c].todo = {}
    <3>1. go' = [go EXCEPT ![c] = Rest] /\ evicting' = NoLimiter /\ limiters' = limiters
            /\ Mapped' = Mapped
          BY <1>10, <2>2 DEF PassEvicts, Leaves, PassEnds, Mapped
    <3>2. go'[c].at = "rest" /\ \A b \in Actor \ {c} : go'[b].at = go[b].at
          BY <1>a, <3>1 DEF Rest
    <3>3. Cardinality(Settling') = Cardinality(Settling)
          BY <1>a, <2>1, <3>2, Moves
    <3>4. Excused' = Excused
          BY <2>1, <3>3 DEF Excused
    <3>5. Settled <= Excused
      <4>1. CASE go[c].over = 0
        <5>1. Settled - go[c].over <= Excused
              BY <1>e, <2>1 DEF BoundInv
        <5> QED BY <1>b, <4>1, <5>1
      <4>2. CASE go[c].todo = {}
        <5>1. Mapped \ Listed(c) = Mapped
              BY <4>2 DEF Listed
        <5> QED BY <1>e, <2>1, <5>1 DEF BoundInv, Settled
      <4> QED BY <2>2, <4>1, <4>2
    <3> QED BY <1>4, <2>1, <3>1, <3>4, <3>5 DEF Passing
  <2>3. CASE ~(go[c].over = 0 \/ go[c].todo = {})
    <3>1. PICK t \in go[c].todo : /\ limiters' = [limiters EXCEPT ![t[1]] = NoLimiter]
                                  /\ go' = [Forgetting(go, t[1]) EXCEPT ![c].at = "discount"]
                                  /\ evicting' = evicting
          BY <1>10, <2>3 DEF PassEvicts
    <3>2. t[1] \in Mapped /\ go[c].over > 0
          BY <1>a, <2>1, <2>3 DEF Local, Listed
    <3>3. PICK k \in LimKey : k = t[1]
          BY <3>2 DEF Mapped
    <3>4. /\ Mapped' = Mapped \ {k} /\ go'[c].at = "discount" /\ go'[c].over = go[c].over
          /\ \A b \in Actor \ {c} : go'[b].at = go[b].at
          /\ Listed(c)' = Listed(c) \ {k}
          BY <1>a, <2>1, <3>1, <3>2, <3>3, OneForgets
    <3>5. /\ Cardinality(Counting') = Cardinality(Counting)
          /\ Cardinality(Owing') = Cardinality(Owing) + 1
          /\ Cardinality(Settling') = Cardinality(Settling)
          BY <1>a, <2>1, <3>4, Moves
    <3>6. Cardinality(Mapped') = Cardinality(Mapped) - 1
          BY <3>2, <3>3, <3>4, TakeOne, Counts, FiniteParts
    <3>7. Settled' = Settled - 1 /\ Excused' = Excused
          BY <2>1, <3>5, <3>6, Counts DEF Settled, Excused
    <3>8. HolderInv'
          BY <1>a, <1>e, <2>1, <3>1, <3>4, HolderKept DEF HolderInv, Passing
    <3>9. TallyInv'
          BY <1>b, <1>e, <2>1, <3>5, <3>7, Counts DEF TallyInv
    <3>10. BoundInv'
      <4>1. \A q \in Consult \ {c} : go'[q].at \notin {"scan", "evict", "discount"}
            BY <1>a, <1>f, <2>1, <3>4 DEF Passing
      <4>2. evicting' # NoLimiter
            BY <1>a, <1>e, <2>1, <3>1 DEF HolderInv, Passing
      <4>3. Settled - go[c].over <= Excused /\ go[c].over \in Nat
            BY <1>a, <1>e, <2>1 DEF BoundInv
      <4>4. Settled' - go'[c].over < Excused'
            BY <1>b, <3>4, <3>7, <4>3
      <4>5. (Mapped' \ Listed(c)') \in SUBSET (Mapped \ Listed(c))
            BY <3>4
      <4>6. Cardinality(Mapped' \ Listed(c)') <= Cardinality(Mapped \ Listed(c))
            BY <1>c, <4>5, FiniteParts, FS_Subset
      <4>7. Cardinality(Mapped \ Listed(c)) - Cardinality(Counting) <= Excused
            BY <1>e, <2>1 DEF BoundInv
      <4>8. Cardinality(Mapped' \ Listed(c)') - Cardinality(Counting') <= Excused'
            BY <1>b, <1>d, <3>5, <3>7, <4>6, <4>7, Counts
      <4> QED BY <3>4, <4>1, <4>2, <4>4, <4>8 DEF BoundInv
    <3> QED BY <3>8, <3>9, <3>10 DEF CountInv
  <2> QED BY <2>2, <2>3
<1>11. ASSUME NEW c \in Consult, PassUncounts(c) PROVE CountInv'
  <2>1. /\ UNCHANGED <<limiters, skipped, evicting>> /\ go[c].at = "discount" /\ Mapped' = Mapped
        /\ go' = [go EXCEPT ![c].at = "evict", ![c].over = @ - 1] /\ tracked' = tracked - 1
        BY <1>11 DEF PassUncounts, Mapped
  <2>2. /\ go'[c].at = "evict" /\ go'[c].over = go[c].over - 1 /\ go'[c].todo = go[c].todo
        /\ \A b \in Actor \ {c} : go'[b].at = go[b].at
        BY <1>a, <2>1
  <2>3. /\ Cardinality(Counting') = Cardinality(Counting)
        /\ Cardinality(Owing') = Cardinality(Owing) - 1
        /\ Cardinality(Settling') = Cardinality(Settling)
        BY <1>a, <2>1, <2>2, Moves
  <2>4. HolderInv'
        BY <1>a, <1>e, <2>1, <2>2, HolderKept DEF HolderInv, Passing
  <2>5. Settled' = Settled /\ Excused' = Excused
        BY <2>1, <2>3 DEF Settled, Excused
  <2>6. TallyInv'
        BY <1>b, <1>e, <2>1, <2>3, <2>5, Counts DEF TallyInv
  <2>7. BoundInv'
    <3>1. \A q \in Consult \ {c} : go'[q].at \notin {"scan", "evict", "discount"}
          BY <1>a, <1>f, <2>1, <2>2 DEF Passing
    <3>2. evicting' # NoLimiter
          BY <1>a, <1>e, <2>1 DEF HolderInv, Passing
    <3>3. Settled - go[c].over < Excused /\ go[c].over \in Nat
          BY <1>a, <1>e, <2>1 DEF BoundInv
    <3>4. Settled' - go'[c].over <= Excused'
          BY <1>b, <2>2, <2>5, <3>3
    <3>5. Listed(c)' = Listed(c)
          BY <2>2 DEF Listed
    <3>6. Cardinality(Mapped' \ Listed(c)') - Cardinality(Counting') <= Excused'
          BY <1>e, <2>1, <2>3, <2>5, <3>5 DEF BoundInv
    <3> QED BY <2>2, <3>1, <3>2, <3>4, <3>6 DEF BoundInv
  <2> QED BY <2>4, <2>6, <2>7 DEF CountInv
<1>12. ASSUME NEW a \in Actor, SweepDrops(a) PROVE CountInv'
  <2>1. UNCHANGED <<tracked, skipped, evicting>> /\ go[a].at = "drop"
        BY <1>12 DEF SweepDrops
  <2>2. CASE go[a].key = NoLimiter
    <3>1. go' = [go EXCEPT ![a].at = "sweep"] /\ Mapped' = Mapped
          BY <1>12, <2>2 DEF SweepDrops, Drops, At, Mapped
    <3>2. go'[a].at = "sweep" /\ \A b \in Actor \ {a} : go'[b] = go[b]
          BY <1>a, <3>1
    <3> QED BY <1>a, <2>1, <3>1, <3>2, Quiet DEF Passing
  <2>3. CASE go[a].key # NoLimiter
    <3>1. PICK k \in LimKey : k = go[a].key /\ k \in Mapped
          BY <1>a, <2>1, <2>3 DEF Local, Mapped
    <3>2. /\ limiters' = [limiters EXCEPT ![k] = NoLimiter]
          /\ go' = [Forgetting(go, k) EXCEPT ![a].at = "uncount"]
          BY <1>12, <2>3, <3>1 DEF SweepDrops, Drops
    <3>3. /\ Mapped' = Mapped \ {k} /\ go'[a].at = "uncount"
          /\ \A b \in Actor \ {a} : go'[b].at = go[b].at
          /\ \A b \in Actor : go'[b].over = go[b].over
          /\ \A b \in Actor \ {a} : go[b].at \in {"evict", "discount"} =>
             Listed(b)' = Listed(b) \ {k}
          BY <2>1, <3>2, OneForgets
    <3>4. /\ Cardinality(Counting') = Cardinality(Counting)
          /\ Cardinality(Owing') = Cardinality(Owing) + 1
          /\ Cardinality(Settling') = Cardinality(Settling)
          BY <2>1, <3>3, Moves
    <3>5. Cardinality(Mapped') = Cardinality(Mapped) - 1
          BY <3>1, <3>3, TakeOne, Counts, FiniteParts
    <3>6. Settled' = Settled - 1 /\ Excused' = Excused
          BY <2>1, <3>4, <3>5, Counts DEF Settled, Excused
    <3>7. HolderInv'
          BY <1>a, <1>e, <2>1, <3>3, HolderKept DEF HolderInv, Passing
    <3>8. TallyInv'
          BY <1>b, <1>e, <2>1, <3>4, <3>6, Counts DEF TallyInv
    <3>9. ASSUME NEW q \in Consult \ {a}, go[q].at \in {"evict", "discount"}
          PROVE  Cardinality(Mapped' \ Listed(q)') - Cardinality(Counting') - Excused'
                   <= Cardinality(Mapped \ Listed(q)) - Cardinality(Counting) - Excused
      <4>1. (Mapped' \ Listed(q)') \in SUBSET (Mapped \ Listed(q))
            BY <1>a, <3>3, <3>9
      <4>2. Cardinality(Mapped' \ Listed(q)') <= Cardinality(Mapped \ Listed(q))
            BY <1>c, <4>1, FiniteParts, FS_Subset
      <4> QED BY <1>b, <1>d, <3>4, <3>6, <4>2, Counts
    <3>10. BoundInv'
      <4>1. Settled' - Excused' <= Settled - Excused
            BY <1>b, <3>6
      <4> QED BY <1>a, <1>e, <2>1, <3>3, <3>9, <4>1, BoundKept
    <3> QED BY <3>7, <3>8, <3>10 DEF CountInv
  <2> QED BY <2>2, <2>3
<1>13. ASSUME NEW a \in Actor, SweepUncounts(a) PROVE CountInv'
  <2>1. /\ go' = [go EXCEPT ![a].at = "sweep"] /\ UNCHANGED <<limiters, evicting, skipped>>
        /\ tracked' = tracked - 1 /\ go[a].at = "uncount" /\ Mapped' = Mapped
        BY <1>13 DEF SweepUncounts, At, Mapped
  <2>2. go'[a].at = "sweep" /\ \A b \in Actor \ {a} : go'[b] = go[b]
        BY <1>a, <2>1
  <2>3. \A b \in Actor \ {a} : go'[b].at = go[b].at /\ go'[b].over = go[b].over
          /\ Listed(b)' = Listed(b)
        BY <2>2 DEF Listed
  <2>4. /\ Cardinality(Counting') = Cardinality(Counting)
        /\ Cardinality(Settling') = Cardinality(Settling)
        /\ Cardinality(Owing') = Cardinality(Owing) - 1
        BY <2>1, <2>2, <2>3, Moves
  <2>5. Settled' = Settled /\ Excused' = Excused
        BY <2>1, <2>4 DEF Settled, Excused
  <2>6. HolderInv'
        BY <1>a, <1>e, <2>1, <2>2, <2>3, HolderKept DEF HolderInv, Passing
  <2>7. TallyInv'
        BY <1>b, <1>e, <2>1, <2>4, <2>5, Counts DEF TallyInv
  <2>8. ASSUME NEW q \in Consult \ {a}, go[q].at \in {"evict", "discount"}
        PROVE  Cardinality(Mapped' \ Listed(q)') - Cardinality(Counting') - Excused'
                 <= Cardinality(Mapped \ Listed(q)) - Cardinality(Counting) - Excused
    <3>1. Mapped' \ Listed(q)' = Mapped \ Listed(q)
          BY <1>a, <2>1, <2>3
    <3> QED BY <1>b, <1>d, <2>4, <2>5, <3>1, Counts
  <2>9. BoundInv'
    <3>1. Settled' - Excused' <= Settled - Excused
          BY <1>b, <2>5
    <3> QED BY <1>a, <1>e, <2>1, <2>2, <2>3, <2>8, <3>1, BoundKept
  <2> QED BY <2>6, <2>7, <2>9 DEF CountInv
<1>14. ASSUME NEW a \in Actor, SweepEnds(a) PROVE CountInv'
  <2>1. UNCHANGED <<tracked, skipped, evicting>> /\ go[a].at = "sweep" /\ Mapped' = Mapped
        BY <1>14 DEF SweepEnds, Mapped
  <2>2. /\ go'[a].at = (IF a = Sweeper THEN "rest" ELSE "over") /\ \A b \in Actor \ {a} :
           go'[b] = go[b]
        BY <1>14, <1>a DEF SweepEnds, Leaves, Rest
  <2> QED BY <1>a, <2>1, <2>2, Quiet DEF Passing
<1>15. ASSUME NEW a \in Actor, NEW k \in LimKey, SweepVisits(a, k) PROVE CountInv'
  <2>1. UNCHANGED <<tracked, skipped, evicting>> /\ go[a].at = "sweep" /\ Mapped' = Mapped
        BY <1>15 DEF SweepVisits, Mapped
  <2>2. go'[a].at \in {"drop", "sweep"} /\ \A b \in Actor \ {a} : go'[b] = go[b]
        BY <1>15, <1>a DEF SweepVisits
  <2> QED BY <1>a, <2>1, <2>2, Quiet DEF Passing
<1>16. ASSUME SweepTicks PROVE CountInv'
  <2>1. UNCHANGED <<tracked, skipped, evicting>> /\ go[Sweeper].at = "rest" /\ Mapped' = Mapped
        BY <1>16 DEF SweepTicks, Mapped
  <2>2. go'[Sweeper].at = "sweep" /\ \A b \in Actor \ {Sweeper} : go'[b] = go[b]
        BY <1>16, <1>a DEF SweepTicks, SweepFrom, Rest
  <2> QED BY <1>a, <2>1, <2>2, Quiet DEF Passing
<1>17. ASSUME LimTick PROVE CountInv'
      BY <1>17
         DEF LimTick, CountInv, HolderInv, TallyInv, BoundInv, Settled, Excused, Counting,
             Settling,
                   Owing, Mapped, Listed
<1>18. ~LimCloses
      BY DEF LimCloses
<1> QED BY <1>1, <1>2, <1>3, <1>5, <1>6, <1>7, <1>8, <1>9, <1>10, <1>11, <1>12, <1>13,
           <1>14, <1>15, <1>16, <1>17, <1>18 DEF LimNext, AllowStep

(* When no call is inside and no sweep runs, the counter is the size of    *)
(* the map, and the map is over its bound by no more than the inserts that *)
(* found a pass running: for any number of keys, calls and limits          *)
(* (ratelimiting.go, getOrCreateLimiter; eviction.go, evictOverflow and    *)
(* sweep).                                                                 *)
THEOREM LimiterBoundAtRest == LimSpec => []BoundAtRest
<1>1. LimInv /\ [LimNext]_limVars => LimInv'
  <2> SUFFICES ASSUME LimInv, [LimNext]_limVars, limClosed' = "open"
               PROVE  LocalInv' /\ HolderInv' /\ TallyInv' /\ BoundInv'
      BY DEF LimInv
  <2>1. limClosed = "open"
        BY
           DEF LimNext, AllowStep, AllowStores, AllowCounts, ChecksBound, TriesEvicting,
               RechecksBound,
               PassMeasures, PassScans, PassEvicts, PassUncounts, AllowLooks, SweepDrops,
               SweepUncounts,
               SweepEnds, SweepVisits, SweepTicks, LimCloses, LimTick, limVars
  <2>2. LocalInv /\ CountInv
        BY <2>1 DEF LimInv, CountInv
  <2>3. CASE LimNext
    <3>1. LocalInv'
          BY <2>2, <2>3, LocalStep DEF CountInv
    <3> QED BY <2>2, <2>3, <3>1, CountInvStep DEF CountInv
  <2>4. CASE UNCHANGED limVars
        BY <2>2, <2>4
           DEF limVars, LocalInv, Local, CountInv, HolderInv, TallyInv, BoundInv, Settled,
               Excused,
                          Counting, Settling, Owing, Mapped, Listed
  <2> QED BY <2>3, <2>4
<1>2. LimInv => BoundAtRest
  <2> SUFFICES ASSUME LimInv, limClosed = "open", \A a \in Actor : go[a].at = "rest"
               PROVE  tracked = Cardinality(Mapped) /\ Cardinality(Mapped) <= MaxLimiters + skipped
      BY DEF BoundAtRest
  <2>1. LocalInv /\ HolderInv /\ TallyInv /\ BoundInv
        BY DEF LimInv
  <2>2. Counting = {} /\ Settling = {} /\ Owing = {}
        BY DEF Counting, Settling, Owing, Actor
  <2>3. Cardinality({}) = 0
        BY FS_EmptySet
  <2>4. evicting = NoLimiter
        BY <2>1 DEF HolderInv, LocalInv, Passing, Actor
  <2>5. Settled = Cardinality(Mapped) /\ Excused = MaxLimiters + skipped
        BY <2>1, <2>2, <2>3, Counts, LimiterAssumption, FiniteParts
           DEF Settled, Excused, LocalInv
  <2> QED BY <2>1, <2>2, <2>3, <2>4, <2>5, Counts DEF TallyInv, BoundInv
<1> QED BY LimStarts, <1>1, <1>2, PTL DEF LimSpec
=============================================================================
