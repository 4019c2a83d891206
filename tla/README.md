# A verification of primitives-go's coordination core

`primitives-go` is a library of service primitives: providers behind
interfaces, transports, database tooling. Most of its packages are adapters
without a state machine of their own. What is hard in it is the code that
*coordinates*: leases, idempotency records, worker pools, periodic jobs, write
batching, caches with a goroutine behind them, token families, listeners and
streams, all of them concurrent, failing and timing out. This directory holds
TLA+ specifications of that code, the TLC runs that check them and the TLAPS
proofs about them. `PROJECT.json` has the definition-to-source map, the runs,
the mutants, the hazards and the findings in machine-readable form.

To check: `tlc -config <cfg> <MC module>` for a run, `tlapm <module>` for one of
the eight modules whose names end in `Proofs` (a few minutes for all of them).

## 1. The system

### The parts that are modelled

| Part | State it keeps | Operations | Interacts with |
|---|---|---|---|
| `distributedlock/memory` Locker | map key → (token, deadline) under one mutex | Acquire (sweeps first), Lock.Release, Lock.Refresh, Close | the clock; every lock client below |
| `distributedlock` PollingScopedLocker | none of its own; a call's place in its poll loop | WithLock, TryWithLock; the deferred release in `run` | a Locker; the caller's `fn` |
| `distributedlock/postgres` Locker | outstanding handles, each with a pinned connection and a deadline | Acquire, Release, Refresh, Close | advisory locks of server sessions that die |
| `distributedlock/redis` Locker | none; key, token and TTL are the server's | SETNX, the release and refresh scripts | commands that are lost, repeated, late or refused |
| `idempotency` Manager | one record per key, in a `cache.Cache`, with a TTL | Do = load, claim, invoke, commit or release | the store, a ScopedLocker, the caller's `fn`, its own counters |
| `jobs` Pool | stop/done/noMoreWork channels, the hand-off channel, workerCtx | Run, Close, submit, the workers, retries, dead letters | a queue consumer that calls `submit` back, a retry policy, a dead-letter sink |
| `jobs` PoolGroup | its pools, a started latch, a mutex held throughout | Start with the drain of a partial start, Close | its pools |
| `jobs` Scheduler | registered jobs, running flag, stop/done | Register, Run, Close; one goroutine per job: interval or calendar | a Locker shared with other replicas; the job's `Run` |
| `messagequeue/kafka` consumer | the reader's position | Consume: fetch, handle, commit | a consumer group that rebalances |
| `batching` GroupCommit | the open batch, a one-token wake channel, closed flag | Submit, Close, the flusher goroutine | the write function, storage |
| `batching` Buffer | pending set, in-flight set and its done channel, closed flag | Add, Take, Close, the flusher goroutine | the write function, foreground writers |
| `cache/memory` | entries, the eviction index | Get, Set, SetIfPresent, Delete, load; janitor | the Loader's source, the clock |
| `secrets` TTLCachingSource | entries, flights, hooks | GetSecret, OnChange, Close; refresh goroutine | the wrapped source |
| `ratelimiting` limiter map | entries, a counter, an eviction flag | Allow, sweep, evictOverflow, Close | the clock |
| `authorization/cached` Resolver | a generation counter | PermissionsForRoles, Invalidate, InvalidateAll | the inner resolver, a cache that may be shared |
| `authentication/oauth2server` | codes, access and refresh tokens by family | issue, redeem, rotate, revoke, sweep | clients that race, replay and retry |
| `eventstream` + websocket notifier | member → stream | AcceptConnection, Add, Remove, Publish; the pumps | connections that die |
| `database/postgres/pgnotify` Listener | one connection, a one-token signal, stop/done | Run, Close | PostgreSQL, a poller |
| `llm/internal/bridge` stream | tool calls under assembly, an event queue | Next, Close | the provider's goroutine and its two channels |
| `eventcapture` Recorder and jsonl Sink | bounded channel, buffered file, rotated files | Record, Run, Close; Write, Flush, rotate, prune | the disk; crashes |

What makes each of them correct, and is checked here:

* **Locker.** A lease belongs to its grantee until it ends, whoever else holds
  a stale handle; two clients never both have time left on one key. The
  **redis** one keeps that promise although commands are repeated and late, and
  ask for leases of different lengths; the **postgres** one gives back the key
  and the connection of every handle it gave up, and in the end the key of an
  Acquire that failed after the server had granted it.
* **ScopedLocker.** `fn` bodies overlap only after a lapse; when they did, at
  least one caller is told; nobody waits for ever behind a dead holder.
* **Manager.** A live claim or result is its writer's; `fn` starts alone; a
  replayed value is genuine; a duplicate effect is visible in a counter; a key
  is never blocked for good.
* **Pool.** An accepted message is exactly one worker's until it has an
  outcome; Run returns drained; shutdown completes. A **PoolGroup** has all of
  its pools or none.
* **Scheduler.** Two overlapping runs of a job never both finish cleanly; no
  registered job is forgotten; Close is quiet; a job survives its replica.
* **Kafka consumer.** The group never passes over a message nobody accepted.
* **GroupCommit.** Read-your-write; storage never goes back; no lost wake-up;
  every Submit is answered.
* **Buffer.** A Take that has returned owns its keys; what is in flight is
  published; a pending key is not forgotten.
* **Memory cache.** A value older than the last Delete is there only because
  whoever stored it, the loader or a caller of Set, had read it before that
  Delete and had it in hand while the Delete ran.
* **Secret cache.** A reader is never answered with less than was known when it
  asked; a hook hears of every rotation at most once, and the rotations it hears
  of follow each other.
* **Rate limiter.** At rest the counter is the size of the map, and the map
  exceeds its bound only by inserts that found a pass running.
* **Cached policy.** After InvalidateAll a process serves what it replaced to
  no call that begins later.
* **OAuth2 tokens.** A family never forks; an ended family is dead; reuse is
  detected only where there was some.
* **Streams.** A broken connection does not stay registered.
* **Listener.** Every committed row is read; Close leaves no connection.
* **LLM stream.** A tool call handed out is in order and handed out once, and
  whole unless a piece of it had no sure place.
* **Event capture.** Close means on disk; files are ordered and bounded, and lose
  nothing in the middle but the first event after a restart.

### The parts that are not modelled

Adapters to third-party APIs (analytics, email, sms, search, uploads, the llm
providers, ...), SQL and DDL generation, servers and routing, observability,
configuration, test containers and the packages of pure values and helpers.
They are text formatting, I/O or stateless functions, and they are most of the
repository's lines, so the map covers a small share of the whole; the reasons
are in `PROJECT.json`, component by component. See section 6 for the stateful
code that is left.

## 2. Modules

```
LeaseLock <--implements-- Locker <--extends-- ScopedLock
                            ^  ^
OneShot <--implements-- Idempotency  Scheduler

PostgresLocker  RedisLocker  JobsPool  PoolGroup  KafkaConsumer
GroupCommit  Buffer  MemoryCache  CachingSource  RateLimiter  PolicyCache
OAuth2Tokens  Streams  PgListener  LLMStream  EventCapture
```

The theorems are in eight modules, each about a few components:

| Module | Components |
|---|---|
| `LockerProofs` | Locker; its lemmas are used by the next three |
| `LockingProofs` | ScopedLock, RedisLocker, PostgresLocker |
| `IdempotencyProofs` | Idempotency |
| `ClosingProofs` | Scheduler, EventCapture |
| `WorkProofs` | JobsPool, PoolGroup, KafkaConsumer, PgListener, Streams |
| `BatchingProofs` | GroupCommit, Buffer, LLMStream |
| `CredentialProofs` | OAuth2Tokens, CachingSource, PolicyCache |
| `RegistryProofs` | MemoryCache, RateLimiter |

The modules `MC...` are the finite instances. Components that do not interact but ask the same kind of
question share one: its behaviours are those of one component, chosen by the
variable `part` (or `half`), while the others rest in their initial states. A
definition marked *Variant* changes the one after it the way a plausible bug
would; it is no part of the specification and is used only to show that a
property notices that bug. Each module also states its type invariant; TLC
finds them true in every instance below, but no run lists them.

**`LeaseLock`** (abstract) is what any Locker promises: a key is granted only
while nobody's lease on it is in force, a lease lapses on its own, and only the
latest grantee can revive a lapsed lease, until somebody else is granted the key.

**`Locker`** is `distributedlock/memory/memory.go`. Each method runs under
`mu`, so each is one action. Time is kept as what is *left* of every deadline:
`left > 0` is `now.Before(expires)`, `0` is the very instant, `-1` is
`now.After(expires)`. The code tells those three apart: Acquire uses Before,
the sweep and the handles use After, so at the instant itself the key may be
granted anew *and* an old handle is still accepted. A client stands for its
ownership token. `sure[c]` is a ghost: how long `c` may still count on its lease.

**`ScopedLock`** is `scoped.go` over that Locker: poll, sleep, give up, enter,
and the three ends of `run`'s deferred release (accepted, not held, failed).
`peers` is a ghost that remembers whose `fn` overlapped whose.

**`OneShot`** (abstract) is the slot a key's record implements: taken, completed
once, given back by its owner, or lapsed.

**`Idempotency`** is `idempotency/manager.go`. Every call of the store and of
the lock is a step of its own, so anything may happen between two of them; a
store call that reports an error may have been applied; a call may die at any
step. `Faults` says which failures may happen, `FailOpen` is the store failure
policy, and `LeasesHold` says whether critical sections fit their lease (time
then does not pass while a section has only one unit left). Initially the store
may hold a record of another version or of an unknown state. The ghosts:
`mine[c]`, how long the call may count on the record being its own; `effects`,
the calls whose `fn` had a recordable effect; `lost`, `unkept` are the counters
claims_lost and record_failures.

**`JobsPool`** is `jobs/pool.go` with the consumer loop of
`messagequeue/redis`, `consumererr.Send` and the retry loop of
`retry/config/policy.go`. The goroutines are Run, its drain of the error
channel, the consumer, the workers, and a caller of Close that may call again
after its context expired. `stray` is a message delivered by a consumer that
calls its handler after Consume has returned, which the code says it survives.
The consumer ends when it is told to stop or when its subscription's channel is
closed (`SubscriptionEnds`).

**`PoolGroup`** is `jobs/poolgroup.go`. Its mutex is held for the whole of Start
and of Close, so one call is inside at a time, while its pools run beside it. A
pool is what the group sees of JobsPool. `forgotten` is a ghost: pools whose
Close outlasted its context.

**`Scheduler`** is `jobs/scheduler.go` over `Locker`: any number of replicas,
each with a goroutine per job. A ticker may fire at any time and coalesces. The
select between `stop` and a due ticker takes either branch. The ghosts
`spoiled` and `missed` record overlapping runs that ended as if alone,
`outlasted` and `again` runs begun after one that outlasted the stop signal.

**`GroupCommit`** is `batching/groupcommit.go`. An item's value is its arrival
number, so "a later item" is a larger number, and the store holds per key the
arrival of what was written. A failed write may have written any part.

**`Buffer`** is `batching/buffer.go`. `owned[t]` is a ghost: the keys a Take
asked for and had on return, until one is added again.

**`PostgresLocker`** is `distributedlock/postgres/postgres.go`, one step per
statement or critical section. The server knows no TTL: the deadline is the
handle's, and `locks`, `pinned` and `outstanding` (the server's lock table, the
pool's busy connections and the Locker's map) may disagree while calls are
under way. Sessions die, the server reaps them later, a Locker's process may
crash, and the pool of one Locker may be saturated. An Acquire whose answer
could not be read only closes its connection, which puts a healthy one back in
the pool with the lock still on its session (`AcquireLost`, both outcomes).
`conn[h]` is the connection a handle has, which may be such a stray one, and
`lost` the keys held once more than any handle knows of; they are freed when the
connection dies or has outlived its lifetime (`ConnAges`).

**`RedisLocker`** is `distributedlock/redis/redis.go`. A command is sent, carried
out and answered in three steps; go-redis may send it again, and a caller that
gave up leaves one behind that may still be carried out. Every call brings a ttl
of its own, counted in halves of a millisecond: `Millis` is what
`ttl.Milliseconds()` leaves of it, and a PEXPIRE of nothing deletes the key; a
SETNX is sent with at least one. `trust[t]` is a ghost: what is left of the ttl
counted from the call that last succeeded, and never more than `cap[t]`, the
shortest ttl of a Refresh that failed and may still be carried out.

**`KafkaConsumer`** is `messagequeue/kafka/consumer.go`. Of the group only what
the code relies on is modelled: one reader has the partition, starts at the
committed offset, and a rebalance does not wait for its handler.

**`MemoryCache`** is `cache/memory`: every critical section of the map's lock is
one step, and so is a read of the system behind the cache, by the loader or by a
caller that will Set what it read (`WriterReads`; `brought` is what it has in
hand until it writes). A value is the version of that system; `floor`, `overlap`
and an entry's `by` are ghosts: the version at the last Delete, who had a value
in hand while a Delete ran, and who stored the entry.

**`CachingSource`** is `secrets/caching.go`: readers, one flight per name, the
refresh, the hooks and Close. A value is the version of the backend it was read
at. `notify` starts a goroutine for every hook: `started` counts those that have
still to run, which they do in any order (`HookRuns`), and `heard` the calls
made. `known` and `least` are ghosts: the newest answer applied, and that answer
when a reader began.

**`RateLimiter`** is `ratelimiting/ratelimiting.go` and `eviction.go`. The map
has no lock: each load, LoadOrStore, CompareAndDelete and counter step is an
action of its own. `skipped` is a ghost: inserts that found a pass running.

**`PolicyCache`** is `authorization/cached/cached.go`. The policy is known by the
number of its edits; `Shared` says whether the processes have one cache or each
its own. `settled` and `due` are ghosts: the policy at the last InvalidateAll,
now and when a call began.

**`OAuth2Tokens`** is the token, revocation and code paths of
`authentication/oauth2server` over its memory Store. A request is a few calls of
the Store with others in between, and may fail between any two. Its ghosts are
the credentials presented, the replays counted, and the families ended, with
those that were ended while an issueTokenPair of theirs was under way.

**`Streams`** is `eventstream/manager.go` with the websocket streams and the
notifier that accepts them. A manager's method holds its lock; a broadcast
copies the group under it and sends after; a send fails on a dead wire, and on
a live one when its write deadline passes. `newest` is a ghost: the stream last
registered for each member.

**`PgListener`** is `pgnotify.go`: Run, the goroutine that turns stop into a
cancelled context, callers of Close, and outside the package a poller and the
writers of rows. A notification reaches who listens when its row commits.

**`LLMStream`** is `llm/internal/bridge/stream.go`. The provider sends pieces in
one of three styles: bare after the first, cumulative under the call's ID, or
fragments under the ID, and may go on with an earlier call after it began
another. `whole` and `confused` are ghosts: what it has really said, and the
calls of which it sent a piece that has no sure place.

**`EventCapture`** is `eventcapture`'s Recorder over its jsonl Sink. Events are
numbered, and a file is a sequence of bytes, each known by its event and its
place in that event's line. The buffer spills in the middle of a line, on a
failing disk each operation may fail, partly or wholly, and the process may
crash and open the files again: `openLocked` then appends to whatever is there,
part of a line included. Some events cannot be encoded. `fresh` and `firsts` are
ghosts: nothing was accepted since the files were opened, and the events that
were the first to be accepted after a restart. What prune leaves is given by the
positions of the files that stay (`InOrder`).

## 3. Runs

| Run | Instance | States | What it shows |
|---|---|---|---|
| `locks` | memory Locker: 2 keys, 3 clients, TTLs 1 and 2; scoped: 3 calls; postgres: 3 handles, 2 Lockers, 1 connection each | 169 652 | LeaseLock implemented; overlap is reported; waiters return; what a postgres handle pinned is freed |
| `work` | Do: 3 calls, 2 fingerprints, store/lock/death faults, fail closed; pool: 3 messages, 2 workers, 2 attempts; 3 pools in a group; kafka: 2 readers, 3 messages; redis: 2 tickets, ttls of 0.5, 1.5 and 2 ms | 1 900 448 | replays, duplicates, OneShot implemented; ownership and drain; all or none; nothing skipped; trusted leases are held |
| `services` | Do: 2 calls, every fault, fail open, lapsing leases; pool: 3 messages, 1 worker; listener: 2 rows, 2 Closes; streams: 2 connections of one member | 131 648 | no key is wedged; shutdown completes, accepted messages end; rows are read, Close leaves nothing; broken streams go |
| `scheduler` | 2 replicas, 1 job, on a calendar and on an interval, failed releases | 106 068 | overlapping runs are counted; the job keeps running, Run returns |
| `closing` | scheduler: 1 replica, 3 kinds of job; stream: 2 tool calls of 2 characters, interleaved; capture: 4 events, 1 crash, 2 Closes, files of 4 bytes | 1 122 341 | Register/Run/Close races; whole tool calls; what Close leaves on disk |
| `batching` | 3 Submits, 2 keys, 2 Closes; 2 Takes, 3 Adds, 2 Closes | 302 410 | read-your-write, order, answers; Take excludes flush, pending keys are flushed, Take returns |
| `oauth2` | 1 code, 2 clients, 4 requests, 3 pairs | 558 164 | no fork, ended means dead, reuse is real |
| `registries` | cache: 2 keys, room for 1, a reader and a writer; secrets: 1 name, a reader and the refresh, 2 changes; limiter: 2 keys, room for 1; policy: 2 calls, 2 edits | 1 137 111 | staleness only by overlap; no older answers; rotations follow; bound at rest; fresh after InvalidateAll |

Four more runs expect a violation; they are in "Where code and documentation
disagree" below.

**Bounds.** Two keys are the least for the sweep to meet another key's entry;
three clients the least for a stale handle to meet a lease two owners younger;
TTLs of two units separate "in force", "at the instant" and "past". Idempotency
keys do not interact, so one is enough, and the third call brings the second
fingerprint. In the pool one message can wait in submit, or come late, while
both workers are busy, and two attempts are a first and a last. Three pools let
a build fail with none, some or almost all of them up. Three messages of a
partition put a failed one between two others. Of the redis ttls
one is cut to nothing, one is cut, and one can be refreshed half way; a shorter
refresh that comes late meets a longer lease. One reader of the cache that calls
again and again, the loader and one writer that comes late are three who can
store what they read before a Delete. One reader of secrets that gives up and
calls again meets its own earlier flight and that of the refresh. A cache and a limiter with room for one of two keys evict
on every other write. Four requests are the least for two that race on one
refresh token, the one that minted it and a sign-out. Four
events, two of them larger than a file may grow and one that cannot be encoded,
give two rotations and a prune; in a file of four bytes a line that was cut
short leaves room for the next; a second caller of
the recorder's Close comes later than the first. `MaxAdds`,
`MaxChange`, `MaxVersion`, `MaxEdits`, `MaxBumps`, `MaxClock`, `MaxRows`,
`MaxEvents`, `MaxCrashes`, `MaxArgs` and `LogLength` cap what would otherwise
grow for ever. Symmetry is used only in runs without liveness properties: over
the two calls with one fingerprint in `work`, over the two callers of the
recorder's Close in `closing`, over requests and over pairs in `oauth2`, and
over the cache's keys in `registries`. Most runs say `CHECK_DEADLOCK FALSE` because their systems do stop:
every call has returned and every goroutine has ended.

**Fairness**, weak except where said. Goroutines that can move are scheduled
(Go's scheduler) and time passes. The pool's handlers are not assumed to return:
the two properties that need it (`ShutdownCompletes`, `AcceptedEnds`) have that
documented condition, `HandlersReturn`, as their hypothesis. Batching assumes
that a write returns, which run's flush timeout and Close's context give.
Nothing is assumed of a caller's `fn` in the scoped lock or the Manager: a
holder may hang for ever. The scheduler's progress assumes that jobs return and
tickers fire, and that a calendar job's select between stop and its timer, which
Go decides at random, does not take the timer every time (strong). A postgres
release that has begun runs to its end, the server notices a session that is
gone, and an idle connection is closed once it has outlived its lifetime, which
`database/config` sets to 30 minutes unless told otherwise. The listener's Dial and Listen are strongly fair: a server that can be
reached again and again is one day reached, which is what a reconnect loop
without a last attempt relies on; its poller takes its wakes. A websocket pump's
read deadline lapses on a dead connection.

### Where code and documentation disagree

Each of these is a run that expects a violation.

* `idempotency_duplicate`: `idempotency/doc.go:87-88` calls claims_lost "the
  only remaining path to a duplicate effect". A commit that cannot take its
  lock (for instance on a request context that was cancelled while the work
  ran) is another; it is in record_failures instead. What does hold is checked
  by `DuplicateIsVisible`: one of the two counters shows it.
* `scheduler_restart`: the comment at `jobs/scheduler.go:393-394` promises that
  a job that outlasted the stop signal does not start another run. The
  RunOnStart execution is not followed by that recheck.
* `streams_lost`: `notifications/async/websocket/websocket.go:52` says that
  "Publish sends an event to all connected clients on the given channel". The
  goroutine that waits for a connection's end calls `Remove` with the member, so
  the end of an old connection removes the one its member has made since; that
  client is connected and gets nothing, and Publish says nil.
* `policy_shared`: `authorization/cached/cached.go:295-298` says InvalidateAll
  "takes effect immediately in this process". The generation starts at 0 in
  every process, so in a cache that is shared, as the redis one is, the bump may
  lead to a generation that another process, or the same one before a restart,
  had filled. The same property holds, in `registries`, of a cache the process
  has alone.

Other places read more strictly than the code behaves, without a run of their
own:

* `Take` loops, so `TakeReturns` promises a return once the Adds end, not one
  within a single flush timeout.
* A lock lease that lapses inside `claim` lets a late write replace a live
  claim, which is why `ClaimHonoured` is proved, and `OneShotSpec` checked, only
  when critical sections fit their lease (`LeasesHold`).
* `PoolGroup.Start` says that "none is" running when it returns an error, and
  Close that a second one is a no-op; a pool whose Close outlasted the context
  is still up in both cases, and the second Close returns nil. `AllOrNone`
  allows for exactly those pools.
* `TTLCachingSource.Close` waits for the refresh "so the wrapped source is not
  closed out from under an in-flight fetch"; a reader's flight is not waited for.
* A rotation hook is not told of a secret that is deleted and created again.
* `ratelimiting/eviction.go:189` says the map "may sit briefly over the bound";
  it sits there until the next insert or sweep. `BoundAtRest` bounds it.
* A family revocation that runs while an issueTokenPair of the family is between
  its two writes leaves the second token alive. `EndedFamilyIsDead` excepts it.
* A redis Refresh with a ttl under one millisecond is sent as PEXPIRE 0, which
  deletes the key and returns nil; one that failed may be carried out late and
  cut a longer lease that a second Refresh was granted since. `TrustedIsHeld`
  counts on nothing in the first case and on no more than the shorter ttl in the
  second. A SETNX that go-redis sends again after a lost answer
  meets its own token and is reported as `ErrLockNotAcquired`.
* An Acquire of the postgres Locker whose answer could not be read
  (`postgres.go:169-177`) closes its connection without `driver.ErrBadConn`,
  which `releaseLocked` takes care to return: if the server had granted the
  lock, it stays with a connection of the pool until that one dies or is too
  old, and for as long as another handle uses it. `GivenUpIsFreed` and
  `NothingIsOrphaned` say so.
* `accumulateToolCall` takes a piece that begins with everything seen so far for
  a cumulative one ("The prefix test settles it", `stream.go:226-229`). A
  fragment that happens to ("1" after "1") replaces what it should follow. The
  model's provider sends those too, and pieces of an earlier call, of which the
  code says that it cannot get them right; `ToolCallsWhole` excepts from being
  whole exactly the calls such a piece was meant for or was added to, and still
  says that they come once and in order.
* The jsonl Sink reopens a file without cutting off or ending the part of a line
  a crash left (`jsonl.go:213-229`): the first event written after the restart
  shares its line and cannot be read, although the file goes on behind it.
  `FilesAreSound` allows for that event and no other.
* A caller that reads, is overtaken by a Delete and then calls Set undoes the
  Delete, as `cache.go:68-73` says; so may SetIfPresent, once another call has
  filled the key again. `StaleOnlyByOverlap` allows for exactly those writers,
  and for a load that read before the Delete.
* The recorder's `drain` says an event sent after the final sweep "is dropped by
  the closed sink's error path"; nobody receives it any more, so it is in no
  counter. `CloseMeansOnDisk` speaks of events recorded before the first Close
  was called: of what is recorded between the first Close and a second one that
  returns nil it would be false, which the proof attempt found and a second
  caller in the run now covers.
* A failed rename or open leaves the jsonl Sink closed for good; a wall clock
  that steps back between two rotations misorders what prune removes.

## 4. Proofs

Proved for every value of the constants, from the `ASSUME`s of the modules:
positive TTLs and bounds, distinguished "none" values, functions with the right
domains, and for the limiter finitely many keys and calls (its counter is a
number). TLC evaluates each of those assumptions in the runs. Every safety
property that a run lists, and both refinements, are theorems; the bounds of
section 3 then matter to the liveness properties only. An invariant is seldom
inductive by itself: each theorem below names the one it needed and why.

**LockerProofs.** `SureIsHeld` is inductive once joined with the type invariant
and `AbsentIsLapsed` (an absent entry counts as past its deadline, which is what
makes the sweep and the ownership check agree). From it: `MutualExclusion`, and
`MemoryLockerIsALeaseLock` by mapping a live entry to an owner and any entry to
its latest grantee, one step per action.

**LockingProofs.**
* ScopedLock: `OverlapInv` strengthens `OverlapIsReported` with who still can
  release: of two calls that overlapped, the one that entered first has lost the
  key to the other, so its release is refused. `FnBodiesExclude` follows by
  showing that a ScopedLock behaviour is a Locker behaviour.
* RedisLocker: `TrustIsEarned`. `LeftBehindInv` is about commands that outlive
  their call: an answer "yes" that is still on its way already counts, a delete
  left behind belongs to one who has begun to release, whoever was answered
  "no" counts on nothing, and nobody counts on more than a Refresh left behind
  asked for. It holds for every set of ttls, those under a millisecond included.
* PostgresLocker: `FreshInv` says that no two handles share a connection,
  `LockedInv` that a session which answers has the key of the handle on it and
  no other but those of failed Acquires, `ListedInv` that a pinned connection is
  on somebody's list. From them `OneLiveSessionPerKey`, and `NothingIsLeaked`, the safety half of
  `GivenUpIsFreed`.

**IdempotencyProofs.** `ReplaysAreFaithful` needs no assumption on faults:
`ValueInv` says that a completed record, in the store or in a local, is the
recorded effect of a call with that fingerprint. The other four,
`ClaimsAreHonoured`, `FnStartsAlone`, `ManagerIsOneShot` and
`DuplicatesAreVisible`, assume that critical sections fit their lease
(`LeasesHold`), that reads fail closed and that the locker is not closed
(`FnStartsAlone` also that the lock's TTL is no longer than InFlightTTL). They
rest on `SectionInv` (whoever is in a section has the lock, so one call is) and
`ClaimInv` (what a call knows between its read and its write); the last also on
`KeptInv`: a call whose effect is in neither counter, and which has nothing left
to write, is the one the record names, and there is one record.

**ClosingProofs.**
* Scheduler: `LeaseInv` (a goroutine inside a run has a handle on its own job's
  key) gives `DoubleRunsAreCounted`, `LifeInv` gives `CloseIsQuiet`, and
  `RosterInv`, which adds that a goroutine that has begun never becomes one that
  has not, gives `EveryJobHasAGoroutine`.
* EventCapture: `ClosedRecorderAccounts` has two halves. `AccountInv`, on any
  disk: an event is in the channel or in one of the counters. `SoundInv`, on a
  sound disk: what was accepted is in the files, in the buffer or pruned, and
  the Sink stays open until Run is done. `FilesStaySound` holds under every
  failure of the disk and any number of crashes, cut at any byte. It needs
  `FileInv`: the rotated files, then the current file *with its buffered bytes*,
  then the channel, hold events in the order they were recorded, so that cutting
  anything off at the end keeps the order; the current file ends in part of a
  line only when nothing was accepted since a restart or nothing can be written
  any more, so that a line is never spoilt but by a restart; and the byte count,
  which nobody reads back from the file between two opens, is never less than
  those bytes, so that a file with a second line is within its bound.

**WorkProofs.**
* JobsPool: `HandOffInv` (a worker has a message exactly while busy, an offered
  message is nobody's yet, Run returns after its workers) yields
  `AcceptedIsOwnedByOne` and `RunReturnsDrained`.
* PoolGroup: `GroupIsAllOrNone`. `InsideInv` says what holds while the mutex is
  taken: a Start keeps exactly the pools that run, a Close has told each of them
  to stop.
* KafkaConsumer: `NoMessageIsSkipped`. `PositionInv`: all before a reader's
  position is accepted, except what it has in hand.
* PgListener: `NothingOpenAfterClose`. `ClosingInv`: a connection is open only
  in a session of Run, and whoever called Close has closed the stop channel.
* Streams: `NoOlderStreamComesBack`, inductive with the types alone. It says
  what the manager does guarantee where `streams_lost` shows what it does not.

**BatchingProofs.**
* GroupCommit: `GroupInv`: one writer at a time (`Serial`), every batch in one
  place (`Placed`), older batches hold older arrivals (`Ordered`), and each
  caller's item is where its ticket says or in storage (`Tracked`). It yields
  `SubmitReadsItsWrite`, `NoWriteRegresses` and `NoBatchIsForgotten`.
* Buffer: `BufferInv`: one flush at a time, also among concurrent Closes, and
  what is carried is what is published.
* LLMStream: `ToolCallsArriveWhole`. `ToolsInv` says where the provider and the
  stream are with the last call: between calls, with a first piece on its way,
  or with one on its way that completes what was gathered, in whichever of the
  three styles, or that belongs to an earlier call, which is then among the
  confused; `HandedInv` that the consumer has the emitted calls and at most one
  event after them. The one fact about data, that `accumulateToolCall` makes of
  what it has and such a piece the whole again, is `PieceMakesWhole`.

**CredentialProofs.**
* OAuth2Tokens: `FamilyInv` says that the right to continue a family is in one
  place, its code, its unspent refresh token or the one request that consumed
  either and has not stored the next; it gives `FamiliesAreNotForked` and
  `EndedFamiliesStayDead`. `MarkInv` (what is marked as redeemed was presented by
  a request that is past its first step for good) gives `ReuseIsNeverMadeUp`.
* CachingSource: `SecretInv` (one flight per name, so that an answer in flight
  is no older than what was applied) gives `SecretsAreNotUnseen`, and with
  `ToldInv` (the reports made, whether their goroutine has run or not, are of
  one change each, and the one being made begins where the earlier ones ended)
  `RotationsNeverOverlap`.
* PolicyCache: `FreshInACacheOfItsOwn`, for `~Shared`: `KeyInv` relates the
  generation in a key to the policy at the last InvalidateAll. With a shared
  cache it is false, which `policy_shared` shows.

**RegistryProofs.**
* MemoryCache: `OnlyAnOverlapLeavesStale`. `CacheInv`: a flight, or a
  writer, that read before the last Delete and has still to store has been
  marked by it.
* RateLimiter: `LimiterBoundAtRest`. `TallyInv`: the counter is the map up to
  those who have still to count or uncount an entry. `BoundInv`: the excess is
  excused by skipped passes and by inserts that have still to look, and a pass
  that has measured it will evict that much or all it has listed, whatever comes
  and goes meanwhile.

Ten of these theorems are about facts that no run lists, so they stand on their
proofs alone: `SureIsHeld`, `Exclusive`, `OverlapOnlyAfterLapse`,
`ClaimHonoured`, `StartsAlone`, `NoLostWakeup`, `FlushIsPublished`,
`LiveSessionsExclude`, `NothingIsOrphaned`, `RegisteredIsNewest`.

Only model-checked: every liveness property (fairness and ENABLED are out of the
prover's reach), that is `WaiterReturns`, `GivenUpIsFreed`, `NotWedged`,
`ShutdownCompletes`, `AcceptedEnds`, `RowsAreRead`, `BrokenIsRemoved`,
`JobKeepsRunning`, `SchedulerStops`, `SubmitIsAnswered`, `PendingIsFlushed` and
`TakeReturns`; and the type invariants, except those the proofs above carry
(`LockTypeOK`, `ScopedTypeOK`, `GroupTypeOK`, `IdemTypeOK`, `RedisTypeOK`, `PgTypeOK`, `KafkaTypeOK`,
`ListenerTypeOK`, `OAuthTypeOK`, `PolicyTypeOK`, `StreamTypeOK` and parts of the
others).

## 5. What the models leave out

Metrics, traces and logs, except the counters that are ghosts above; argument
validation, which returns before any state changes; the length of backoffs,
poll intervals and ticker periods (any delay is possible); the order of keys in
a batch's statement; the payloads. The Manager's, Scheduler's and ScopedLock's
lock is the memory Locker; the redis and postgres ones are modules of their own.
What a token bucket allows is the rate library's; a cache read that fails is a
miss in `PolicyCache`, as in the code; PKCE, redirects and client credentials
are reduced to whether they are right; text and usage of a completion chunk are
one kind of event. One lock name is modelled in `RedisLocker`, and a caller that
has called Release does not refresh any more; the lines of a capture file are of
two sizes.

## 6. Not modelled, and what could be proved next

Not modelled although it has state of its own, because what could go wrong there
is somebody else's to prevent or has no order to lose: `cache/redis` and
`database/migrate` (each call is one command of a server, or goose's lock), the
sqs and pubsub consumers (each message is acknowledged by itself), the circuit
breaker (a library; its refusals are faults above), the postgres scoped lock
(one transaction), `healthcheck` (one map under one lock), webauthn's session
store over a plain cache (a read, then a delete, which its comment says is not
atomic), and the in-process aggregation of `eventcapture`. cron schedules,
filtering and bitmask are pure functions over calendars, URLs and words of bits;
their tables of tests are the better check.

Worth proving next: the states from which the liveness properties step, as
`NothingIsOrphaned` is for `GivenUpIsFreed` (of a pool that is closing, of a
GroupCommit with a waiting Submit, of a listener with an unread row: that
somebody who can move will), and the type invariants that no proof carries yet.
