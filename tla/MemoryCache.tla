---------------------------- MODULE MemoryCache ----------------------------
(***************************************************************************)
(* cache/memory with a bound, a janitor and a loader: the map, the         *)
(* eviction index beside it, lazy and swept expiry, and the single-flight  *)
(* load that fills a miss.                                                 *)
(*                                                                         *)
(* Every critical section of cacheMu is one step, and so is a read of the  *)
(* system behind the cache, by the loader or by a caller that will write   *)
(* what it read. A value is the version of that system it was read at; a   *)
(* caller that changes the system may then delete the key.                 *)
(***************************************************************************)
EXTENDS Naturals, Sequences, SequencesExt

CONSTANTS CacheKey,
          Reader,      \* calls of Get and GetMany
          Writer,      \* callers of Set, SetMany and SetIfPresent
          Loader,      \* whoever stores what a flight loaded
          Janitor,     \* the goroutine of sweepEvery
          MaxEntries,  \* WithMaxEntries
          Lru,         \* EvictLeastRecentlyUsed, or else EvictOldestWritten
          CacheTTL,    \* the expiry of every write
          MaxVersion,  \* a bound on the changes of the system behind
          NoEntry

ASSUME CacheAssumption ==
    /\ MaxEntries \in Nat \ {0} /\ CacheTTL \in Nat \ {0} /\ MaxVersion \in Nat
    /\ Lru \in BOOLEAN /\ Janitor \notin Reader /\ Loader \notin Writer

VARIABLES entries,   \* Cache.cache; by, a ghost, is who stored the value
          order,     \* evictionIndex.order, front first
          flight,    \* the load in progress for a key
          stale,     \* expired keys a reader or the janitor saw and will evict
          missing,   \* keys a reader will load
          waits,     \* keys whose flight a reader has joined
          brought,   \* what a writer has read, of which keys, and will write
          source,    \* the version of the system behind
          floor,     \* ghost: the version at the last Delete of a key
          overlap    \* ghost: who had an older value in hand at that Delete

readVars == <<stale, missing, waits>>
cacheVars == <<entries, order, flight, readVars, brought, source, floor, overlap>>

Version == 0..MaxVersion
Evictor == Reader \cup {Janitor}
Bearer == Writer \cup {Loader}
Entry == [val : Version, left : 0..CacheTTL, by : Bearer]
Flight == [at : {"none", "look", "load", "store"}, val : Version]

CacheTypeOK ==
    /\ entries \in [CacheKey -> Entry \cup {NoEntry}]
    /\ order \in Seq(CacheKey)
    /\ flight \in [CacheKey -> Flight]
    /\ stale \in [Evictor -> SUBSET CacheKey]
    /\ missing \in [Reader -> SUBSET CacheKey] /\ waits \in [Reader -> SUBSET CacheKey]
    /\ brought \in [Writer -> [CacheKey -> Version \cup {NoEntry}]]
    /\ source \in [CacheKey -> Version] /\ floor \in [CacheKey -> Version]
    /\ overlap \in [CacheKey -> SUBSET Bearer]

NoFlight == [at |-> "none", val |-> 0]
Nothing == [k \in CacheKey |-> NoEntry]

CacheInit ==
    /\ entries = [k \in CacheKey |-> NoEntry] /\ order = <<>>
    /\ flight = [k \in CacheKey |-> NoFlight]
    /\ stale = [e \in Evictor |-> {}]
    /\ missing = [r \in Reader |-> {}] /\ waits = [r \in Reader |-> {}]
    /\ brought = [w \in Writer |-> Nothing]
    /\ source = [k \in CacheKey |-> 0] /\ floor = [k \in CacheKey |-> 0]
    /\ overlap = [k \in CacheKey |-> {}]

-----------------------------------------------------------------------------
Present == {k \in CacheKey : entries[k] # NoEntry}
Live == {k \in Present : entries[k].left > 0}
Without(s, ks) == SelectSeq(s, LAMBDA k : k \notin ks)

\* recordRead: under LRU a key that is served moves to the front.
Read(ks) == IF Lru THEN \E s \in SetToSeqs(ks) : order' = s \o Without(order, ks)
                   ELSE UNCHANGED order

\* Set and SetMany: the entries, recordWrite in any order of the batch, then
\* evictOverflow down to the bound.
Store(b, ks, val) ==
    \E s \in SetToSeqs(ks) :
      LET all == s \o Without(order, ks)
          kept == SubSeq(all, 1, IF Len(all) > MaxEntries THEN MaxEntries ELSE Len(all))
      IN  /\ order' = kept
          /\ entries' = [k \in CacheKey |->
                IF k \notin ToSet(kept) THEN NoEntry
                ELSE IF k \in ks THEN [val |-> val[k], left |-> CacheTTL, by |-> b] ELSE entries[k]]

-----------------------------------------------------------------------------
(* Writers, and the system behind the cache.                               *)

UpdateSource(k) ==
    /\ source[k] < MaxVersion
    /\ source' = [source EXCEPT ![k] = @ + 1]
    /\ UNCHANGED <<entries, order, flight, readVars, brought, floor, overlap>>

\* A caller reads, or has just written, what it will put in the cache.
WriterReads(w, ks) ==
    /\ brought[w] = Nothing
    /\ brought' = [brought EXCEPT ![w] = [k \in CacheKey |-> IF k \in ks THEN source[k] ELSE NoEntry]]
    /\ UNCHANGED <<entries, order, flight, readVars, source, floor, overlap>>

Batch(w) == {k \in CacheKey : brought[w][k] # NoEntry}
Wrote(w) == brought' = [brought EXCEPT ![w] = Nothing]

\* Set and SetMany.
Set(w) ==
    /\ Batch(w) # {} /\ Store(w, Batch(w), brought[w]) /\ Wrote(w)
    /\ UNCHANGED <<flight, readVars, source, floor, overlap>>

\* An entry that expired or went is not brought back, and nothing overflows.
\* What the entry holds is not looked at.
SetIfPresent(w, k) ==
    /\ Batch(w) = {k} /\ Wrote(w)
    /\ IF k \in Live
       THEN /\ entries' = [entries EXCEPT ![k] =
                  [val |-> brought[w][k], left |-> CacheTTL, by |-> w]]
            /\ order' = <<k>> \o Without(order, {k})
       ELSE UNCHANGED <<entries, order>>
    /\ UNCHANGED <<flight, readVars, source, floor, overlap>>

\* Who has read a value of k that is out of date, and is still to store it.
InHand(k) ==
    {w \in Writer : k \in Batch(w) /\ brought[w][k] < source[k]}
      \cup {b \in {Loader} : flight[k].at = "store" /\ flight[k].val < source[k]}

\* Variant of Delete: a key being loaded is left to the load to overwrite.
DeleteSparesLoading(ks) ==
    LET gone == {k \in ks : flight[k].at = "none"} IN
    /\ entries' = [k \in CacheKey |-> IF k \in gone THEN NoEntry ELSE entries[k]]
    /\ order' = Without(order, gone)
    /\ floor' = [k \in CacheKey |-> IF k \in ks THEN source[k] ELSE floor[k]]
    /\ overlap' = [k \in CacheKey |-> IF k \in ks THEN InHand(k) ELSE overlap[k]]
    /\ UNCHANGED <<flight, readVars, brought, source>>

\* Delete, DeleteMany, DeleteByPrefix and Flush.
Delete(ks) ==
    /\ entries' = [k \in CacheKey |-> IF k \in ks THEN NoEntry ELSE entries[k]]
    /\ order' = Without(order, ks)
    /\ floor' = [k \in CacheKey |-> IF k \in ks THEN source[k] ELSE floor[k]]
    /\ overlap' = [k \in CacheKey |-> IF k \in ks THEN InHand(k) ELSE overlap[k]]
    /\ UNCHANGED <<flight, readVars, brought, source>>

-----------------------------------------------------------------------------
(* Readers: what is live is served; what had expired is evicted under the  *)
(* write lock; then every miss joins a flight.  A call that is over makes  *)
(* room for the next of the same goroutine.                                *)

Get(r, ks) ==
    /\ stale[r] = {} /\ missing[r] = {} /\ waits[r] = {}
    /\ stale' = [stale EXCEPT ![r] = ks \cap (Present \ Live)]
    /\ missing' = [missing EXCEPT ![r] = ks \ Live]
    /\ Read(ks \cap Live)
    /\ UNCHANGED <<entries, flight, waits, brought, source, floor, overlap>>

\* Phase one of the janitor's sweep, under the read lock.
Sweep ==
    /\ stale[Janitor] = {} /\ Present \ Live # {}
    /\ stale' = [stale EXCEPT ![Janitor] = Present \ Live]
    /\ UNCHANGED <<entries, order, flight, missing, waits, brought, source, floor, overlap>>

EvictExpired(e, k) ==
    /\ k \in stale[e]
    /\ stale' = [stale EXCEPT ![e] = @ \ {k}]
    /\ IF k \in Present \ Live
       THEN entries' = [entries EXCEPT ![k] = NoEntry] /\ order' = Without(order, {k})
       ELSE UNCHANGED <<entries, order>>
    /\ UNCHANGED <<flight, missing, waits, brought, source, floor, overlap>>

Join(r, k) ==
    /\ stale[r] = {} /\ k \in missing[r]
    /\ missing' = [missing EXCEPT ![r] = @ \ {k}]
    /\ waits' = [waits EXCEPT ![r] = @ \cup {k}]
    /\ flight' = [flight EXCEPT ![k] = IF @.at = "none" THEN [at |-> "look", val |-> 0] ELSE @]
    /\ UNCHANGED <<entries, order, stale, brought, source, floor, overlap>>

\* The caller's context ends, or another key of its batch failed.
Abandon(r) ==
    /\ waits[r] # {}
    /\ waits' = [waits EXCEPT ![r] = {}] /\ missing' = [missing EXCEPT ![r] = {}]
    /\ UNCHANGED <<entries, order, flight, stale, brought, source, floor, overlap>>

-----------------------------------------------------------------------------
(* The flight, which nobody's context cancels.                             *)

Answered(k) == /\ flight' = [flight EXCEPT ![k] = NoFlight]
               /\ waits' = [r \in Reader |-> waits[r] \ {k}]

\* It reads again first: another flight may have filled the key.
FlightLooks(k) ==
    /\ flight[k].at = "look"
    /\ IF k \in Live
       THEN Answered(k) /\ Read({k})
       ELSE /\ flight' = [flight EXCEPT ![k].at = "load"]
            /\ UNCHANGED <<waits, order>>
    /\ UNCHANGED <<entries, stale, missing, brought, source, floor, overlap>>

FlightLoads(k) ==
    /\ flight[k].at = "load"
    /\ flight' = [flight EXCEPT ![k] = [at |-> "store", val |-> source[k]]]
    /\ UNCHANGED <<entries, order, readVars, brought, source, floor, overlap>>

\* The loader fails, or finds nothing.
FlightFails(k) ==
    /\ flight[k].at = "load"
    /\ Answered(k)
    /\ UNCHANGED <<entries, order, stale, missing, brought, source, floor, overlap>>

FlightStores(k) ==
    /\ flight[k].at = "store"
    /\ Store(Loader, {k}, [q \in {k} |-> flight[q].val])
    /\ Answered(k)
    /\ UNCHANGED <<stale, missing, brought, source, floor, overlap>>

CacheTick ==
    /\ Live # {}
    /\ entries' = [k \in CacheKey |-> IF k \in Live THEN [entries[k] EXCEPT !.left = @ - 1]
                                                    ELSE entries[k]]
    /\ UNCHANGED <<order, flight, readVars, brought, source, floor, overlap>>

FlightStep(k) == FlightLooks(k) \/ FlightLoads(k) \/ FlightFails(k) \/ FlightStores(k)

CacheNext ==
    \/ \E k \in CacheKey : UpdateSource(k) \/ FlightStep(k)
    \/ \E ks \in SUBSET CacheKey : ks # {} /\ Delete(ks)
    \/ \E w \in Writer :
          \/ Set(w) \/ \E k \in CacheKey : SetIfPresent(w, k)
          \/ \E ks \in SUBSET CacheKey : ks # {} /\ WriterReads(w, ks)
    \/ \E r \in Reader : Abandon(r) \/ \E ks \in SUBSET CacheKey : ks # {} /\ Get(r, ks)
    \/ \E r \in Reader, k \in CacheKey : Join(r, k)
    \/ \E e \in Evictor, k \in CacheKey : EvictExpired(e, k)
    \/ Sweep
    \/ CacheTick

CacheSpec == CacheInit /\ [][CacheNext]_cacheVars

-----------------------------------------------------------------------------
(* After Delete a cached value is at least as new as the system was then,  *)
(* unless whoever stored it, the loader or a caller of a Set, had read it  *)
(* before the Delete and had it in hand while the Delete ran: nothing      *)
(* the cache itself held can come back. A caller that changed the system   *)
(* and then deleted the key is safe from all but those: "the Set then puts *)
(* it back" (cache.go), and so does SetIfPresent once another call has     *)
(* refilled the key, since it "tests existence, not the value".            *)
StaleOnlyByOverlap ==
    \A k \in Present : entries[k].val < floor[k] => entries[k].by \in overlap[k]
=============================================================================
