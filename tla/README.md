# GuildGate in TLA+

GuildGate (`src/src`) executes the actions of a Discord dashboard: an HTTP request becomes one call of
`kernel.execute`, which authenticates it, checks policies and permissions, reserves an idempotency key,
takes a distributed lock, runs the application's function in a database transaction under a deadline with
retries, records the outcome for replay, and publishes events, audit rows and cache invalidations.  State is
in pluggable stores (memory, Redis, PostgreSQL).  Several processes run the same code against the same stores.

This directory models the parts of that machinery whose correctness depends on interleavings, time and
partial failure.  TLC checks the modules on small instances; TLAPS proves theorems about them for every
value of the constants.

    tlc -workers 2 -config Outbox_workers.cfg MCOutbox.tla           # one run
    tlapm LeaseLockProofs.tla                                        # the proofs of one module

## 1. The system: components, state, operations

| Component | Code | State | Operations | What is hard | What makes it correct |
|---|---|---|---|---|---|
| Action kernel | `kernel.ts`, `action.ts`, `contracts.ts` | locals of one `executeAction`: reservation, lease, timers, flags, late settlement | admission, begin, preflight, acquire, attempt, commit, complete, publish, catch, finally, late observer | the caller is answered while the promise runs on; three stores without a common transaction; crashes between any two steps | no work repeated while its reservation is held; answers are true; effects once; ownership kept to the end; everything ends |
| Deadlines, retries, circuit breaker | `resilience.ts` | one timer and one signal per call; breaker state per name | race with the deadline, backoff, abort; `run`, `reset` of a breaker | a promise that cannot be stopped; calls that overlap a state change | one deadline over all attempts; the settlement is handed to exactly one owner |
| Leases | `locks.ts`, `acquireLease` / `renew` / `release` of the stores | row {token, expiry, fence}; handle {expiry it believes in, owned flag, interval} | acquire with polling, renewal interval, expiry timer, `assertOwned`, release | the handle's clock and the store's disagree; late and rejecting replies | mutual exclusion up to the slack of one round trip; fencing order; renewal in time |
| Idempotency stores | `stores.ts`, `memory-store.ts`, `redis.ts`, `postgres.ts` | one record per key | begin, complete, renew, fail | expiry and takeover; PostgreSQL's begin is three statements | first writer owns; replays are faithful; a live record is moved only by its owner |
| Transactions | `transactions.ts`, `postgres.ts` | nesting, callback lists, savepoints | run, savepoint, afterCommit, afterRollback | a nested failure, callbacks that throw | callbacks run for what committed and nothing else |
| Session manager | `session.ts` and the session stores | record per token hash: last seen, expiry, idle deadline, rotation time | create, resolve (touch, rotate), validate, revoke, revokeAll, cap | every method reads, awaits and writes back | the cap; nobody logged out by eviction and rotation alone; revokeAll is complete |
| Outbox workers | `realtime/outbox.ts`, the outbox stores | rows, claims with expiry, attempts | claim, publish, markPublished, markFailed | a publish that outlives its claim, a crash after the publish | at least once; no row lost; order per channel where promised |
| Realtime hub and revocation bus | `realtime/hub.ts`, `realtime/revocation.ts` | connections, subscriptions, limits | attach, subscribe, message, publish, revoke, checkConnections | `validate` and `authorize` are awaited before the connection is registered | a revoked session has no live connection for long |
| Event log, replay, transports | `realtime/sequence.ts`, `realtime/transports.ts` | sequence numbers, ring, write queue | append, replay, write, drain | live events overtake replay; backpressure | no gap between replay and live events, none on the stream (an event may come twice, a live one before a replayed one) |
| OAuth client | `discord/oauth.ts` | one-time states, credentials | authorize, callback, getAccessToken, revoke | a refresh in flight when the credentials are revoked | a state is used once; revoked credentials stay gone |
| Discord authorizer, permissions | `discord/authorizer.ts`, `discord/permissions.ts` | cached membership | authorize, compute permissions | bit sets and overwrites in order | the result is that of Discord's rules |
| Cache manager | `cache.ts` | entries with tags, in-flight loads | remember, invalidateTags | an invalidation while `load()` runs | no value older than the last invalidation |
| Rate limits, policies, audit | the stores, `audit-pagination.ts` | windows, versions, rows | consume, upsert, page | the last slot of a window; rows written between two pages | never more than the limit; pages neither skip nor repeat |
| Operator actions | `operator.ts` | none | list, revoke, retry | pagination | — |
| Analytics | `analytics/*.ts` | samples, incidents | sample, query, chart | overlapping samples | one incident per outage |
| Telemetry, handlers, security helpers, CLI | `telemetry.ts`, `http/*.ts`, `security.ts`, `crypto.ts`, `bin`, `scripts` | none | translation and pure functions | — | — |

How they interact: the kernel calls the session manager, the policy and rate-limit stores and the authorizer
at admission; then `idempotency.begin`, `lockManager.acquire`, `transactions.run` around the application's
function (in which the outbox and audit stores are called), `idempotency.complete`, and last the cache, the
realtime hub, audit and telemetry.  Renewal intervals of the lease and of the reservation run beside it and
report back through flags that the kernel reads.  A late-settlement observer takes over after a deadline or
an abort.  The outbox workers read what the transactions wrote and publish it into the hub; revocations go
from the kernel through the session manager and the revocation bus to the hub.  The cache and the OAuth
client take leases of their own.

`PROJECT.json` lists every hazard of this kind at its line, with the properties that cover it.

## 2. Modules

| Module | Models | Uses |
|---|---|---|
| `Runtime` | the executions, the wall clock, the faults a run admits | |
| `LeaseLock` | `locks.ts` over the lease stores | `Runtime` |
| `IdempotencyStore` | the idempotency record of one key in the three stores | `Runtime` |
| `ActionKernel` | `kernel.execute`, `runWithDeadline`, the transaction, late settlement | `LeaseLock`, `IdempotencyStore` |
| `Admission` | policies and rate limit in front of the kernel, the operator's changes | |
| `Transactions` | one PostgreSQL transaction with its savepoints and callback lists | |
| `CircuitBreaker` | the breaker around an attempt | |
| `SessionManager` | `session.ts` over a session store, for one user | |
| `CacheManager` | `cache.ts`: `remember`, `set`, `invalidateTags` | `LeaseLock` |
| `RedisCache` | entries and tag sets of the Redis cache | |
| `DiscordOAuth` | `discord/oauth.ts`: login, refresh, revocation | `LeaseLock` |
| `GuildAccess` | `discord/permissions.ts` and the two authorizers | |
| `Outbox` | `realtime/outbox.ts` over the outbox stores | `AtLeastOnce` |
| `AtLeastOnce` | abstract: accepted, delivered, settled events | |
| `RealtimeHub` | connections, heartbeat, revalidation, revocation bus | |
| `EventFeed` | event log, publisher, subscribe, replay | |
| `EventStream` | the server-sent event stream | |
| `Realtime` | the three of them beside each other | `RealtimeHub`, `EventFeed`, `EventStream` |
| `AuditPages` | a walk over the audit trail | |
| `LeaseLockProofs`, `IdempotencyStoreProofs`, `SessionManagerProofs`, `OutboxProofs` | theorems | their module, `TLAPS` |
| `ActionKernelProofs` | theorems | `ActionKernel`, the first two of these |
| `RealtimeProofs` | theorems | `EventStream`, `EventFeed`, `RealtimeHub` |
| `LockUsersProofs` | theorems | `DiscordOAuth`, `CacheManager`, `LeaseLockProofs` |
| `ServicesProofs` | theorems | `CircuitBreaker`, `Admission`, `GuildAccess`, `Transactions`, `AuditPages`, `RedisCache` |
| `MCServices` | the components that share no state, side by side | eight of them |
| other `MC...` | constants and symmetry for TLC | their module |

Definitions that begin with the comment `Slip:` are not part of a specification.  Each is a plausible
mistake in the definition below it.  Substituting one for the other breaks one of the properties, which is
how a property is known to depend on the code.

### LeaseLock

One key; `Req` are the executions, each with one handle and one random token, so the token is the
execution.  A call to the store is a request, the moment the store applies it and the reply, because the
handle counts `expiresAtMs` from the reply and the store from its arrival: that difference is the subject of
`BeliefWithinDelay`.  `phase` is the life of a handle; `drawn` exists only for PostgreSQL, whose INSERT
evaluates `nextval()` and the time before it waits for the row.  `belief` and `owned` are the handle's
`expiresAtMs` and `owned`; `grantedUntil` is a history variable, the expiry the store last granted.
Constants choose the store: Redis stamps the expiry on the client (`StampLocally`), PostgreSQL draws first
(`DrawFenceFirst`), a plain `LockStore` has neither leases nor renewal (`~Renewable`), so the expiry timer
of `locks.ts` stands in.

### IdempotencyStore

One key.  `entry` is the record, `claim` what the store last answered to each execution, `ousted` a
history variable: executions whose record a later begin replaced.  The memory store and the Redis script
begin in one step; PostgreSQL in `IdemInsert`, `IdemSelect` and `IdemUpdate`.  `ChecksExpiry` is the stores'
difference in complete and renew.  The response a completion stores is named after its execution.

### ActionKernel

One action definition (`def`, chosen in the initial state from `Definitions`: with a key or not, a lock
or not, fail-closed audit or not, so many attempts), one idempotency key, one lock key, the executions in processes of their own.  Three
things of one execution interleave: the foreground handler (`pc`), the application's promise (`op`) and the
late-settlement observer (`bg`).  Every `await` of `executeAction` is a boundary between actions.

| `kernel.ts` | Action |
|---|---|
| 278-342 admission, up to a throw (in detail: `Admission`) | `Arrive`, `Deny` |
| 344-368 begin, replay, conflict | `Begin` |
| 370 optimistic revision, aborted signal | `GiveUpEarly` |
| 372-379 acquire | `AcquireLock` |
| 391-478 deadline input; `resilience.ts` 43-115 | `StartAttempt`, `RejectAndRetry`, `RejectFinally`, `DeadlineFires`, `DeadlineBetweenAttempts`, `ClientAborts` |
| 401-440 inside the transaction | `Stage`, `Commit`, `Resolve`, `Reject`, `RejectLate` |
| 225-276 finalizeCommittedResult | `Complete`, `Publish`, `LateComplete`, `LatePublish` |
| 496-568 catch, 570-572 finally | `HandOver`, `Fail`, `Finish` |
| 497-514, 768-782 observer | `WindowExpires`, `LateFail`, `LateRelease` |
| 195-223 renewal interval | `RenewTick`, `RenewReply`, `RenewThrows` |
| `locks.ts` 67-90 | `LockBackground` |

What happens inside one action is one stretch of the code between two awaits, plus calls that own nothing a
property tells apart: the outbox row and the fail-closed audit row are staged together with the two
ownership checks, the post-commit effects (cache tags, realtime, audit) are one step in which each of them
may fail, and the failure audit and the telemetry of the catch block are part of `Fail`.  `forfeited` is a
history variable: executions that gave the reservation up while their promise ran or after it committed.

### SessionManager

One user.  Every store call is a step of its own; a slot of `Call` is one call in flight and is used again
when the call ends, so logins, rotations, touches and revocations follow each other in any number.  A call
is described by what it waits for, the token it presents, the one it has drawn, the record it is going to
write and the sessions it has yet to delete.  `atomicCreate` is chosen in the initial state and never
changes: a store with `create()` inserts and evicts in one step, one without runs `enforceSessionLimit`.
Deletes that `Promise.all` sends together are separate steps in any order.  Ties in `lastSeenAt` are broken
by the hash, which is random: any choice.  The remaining variables are histories: `revived`, `loggedIn`,
`ended`, `cutShort`, and `overlap`, the tokens of the calls that ran beside each revocation.

### Admission

`EnforcePolicies` is one store call per step (maintenance, then user, address and guild), while `OwnerWrites`
changes maintenance and blocks and blocks expire.  The rate limit is `HitAtOnce` (memory, the Redis script) or, with `split`,
PostgreSQL's statements under the advisory lock: `HitStamps` (the clock is read first), `HitLocks`,
`HitSelects`, `HitUpserts`, and `HitRejects` for a rollback.  A bucket is named by its window.

### Transactions

A scope is one `run()`; `open` is the stack of scopes, `hooks` their callback lists, `row` what became of
the row each wrote.  `txStorage.run` is entered once, by the outermost run: the list a savepoint hands its
callbacks to is that of scope 1 at every depth.  A statement may fail and mark the transaction as aborted,
the work may swallow that, COMMIT of an aborted transaction resolves, a connection may be lost.

### CircuitBreaker

`run()` keeps the state object it found; `cell` is the contents of every object, `states` the one in the
map, `holds` what each call found.  Success deletes the entry, failure puts the call's own object back.

### CacheManager, RedisCache

A value is the version of the source it was loaded from.  `remember` looks, locks, looks again, loads,
asserts the lease and stores; with the lock busy it answers with a stale value, or loads and stores without the lock.
`set()` is a call over the network: `SendLoaded` (the assertion and the sending are one stretch of code), `SendFree` and
`SetDirectly` put the entry in `sent`, `SetApplies` is the store applying it, at most `MaxDelay` later, and `SetReplies`
or `SetRejects` the answer.  In between the lease may run out and another call may load and store.  A rejected
`set()` may still be applied later, or be lost.  `leased` marks an entry that was loaded under the lock and applied while it was held.
`invalidateTags` comes at any moment; `floor` is the version below which a later answer would be wrong.  `deleteByTags()` is
one step here, as in memory and on PostgreSQL; Redis's commands are in `RedisCache`.
Late timers are admitted: `LockAssertFails` gives a handle up whose time has run out, which is also what the
expiry timer of a plain store does.
`RedisCache` keeps the entry of each key, the set of each tag, and every `deleteByTags()` command by
command: SMEMBERS, GET, the delete script, SREM, the cleanup of the sets.  `set` and `delete` are scripts, so one step.

### DiscordOAuth

Discord issues refresh tokens 1, 2, ...; presenting one spends it and issues the next, whether or not the
answer arrives.  A call of `getAccessToken` is the owner of its handle of `LeaseLock`: looks, locks, looks
again, asks (with one retry), asserts, stores, releases.  Assertion and store are one step (`StoreRefreshed`): with timers on
time and a lock store that answers, which is how the client is checked and proved, the lease outlasts the write it covers.  `revoke` reads, asks Discord, deletes and signs out, without the
lock.  `replaced` and `undoing` are histories.

### GuildAccess

No state beyond one question: guild, roles, user, bot and required permissions, all combinations of them.
A permission word is the set of its bits.  `May` states Discord's rule, to which the code's two decision
functions are compared.

### Outbox, AtLeastOnce

A batch is one call of `dispatchOutbox`: a queue shared by `Concurrency` loops; batches of one worker
overlap when a `markFailed` rejects, since `Promise.all` then rejects with loops still at work and `running`
is false again (`torn`).  A loop appends to the log, broadcasts, marks, and on a rejection marks as failed.
`claim()` hands out the oldest due rows first (`OldestDue`), in their order (`InOrder`) or, as PostgreSQL's
UPDATE ... RETURNING, in any.  A claim lapses at any moment: nothing bounds a publish by the lease of its claim.  `excuses` counts, per
row, lapses, rejections and crashes.  `DeliversAtLeastOnce` maps the outbox's rows to `accepted`, rows that
were broadcast to `delivered`, published rows to `settled`, and is checked with the fairness of both.

### RealtimeHub, EventFeed, EventStream

In `RealtimeHub` moments are kept as ages, so time has no bound; an await of `validate()` takes at most
`HubDelay` and anything may happen in it.  `Beat` fires the interval, `CheckNext`, `CheckDone` and `RoundEnds` are
`checkConnections`.  The bus may lose its message.  In `EventFeed` an event is its sequence
number; `AppendEvent` and `Broadcast` are the publisher, `Ask` and `Authorized` `hub.subscribe`,
`ReplayRead` and `ReplaySent` the transports behind it.  In `EventStream` a `write()` that answers false may
have taken the chunk, as Node's does, and is given it again on drain.

### AuditPages

Records are written, in any order of their stamps, and retired while a walk goes from page to page, by
`listPage` with its `(createdAt, id)` cursor or by what `listAudit` falls back on for a store that has only
`list`.

## 3. Runs

| Run | Question |
|---|---|
| `ActionKernel_faults` | Two executions under a key, fail-closed, or under PostgreSQL's lock: rejecting stores and telemetry, crashes, late timers, expiring reservations. Repetition, truth of answers, effects, ownership of the record. |
| `ActionKernel_healthy` | Healthy stores, timers on time, an action that locks and retries, or one with a key, under fairness: ownership to the end, an error is final, exclusion, everybody answered, late resources returned. |
| `ActionKernel_finality` (violation) | A rejecting complete() after the commit leads to a repetition. |
| `SessionManager_races` | Two concurrent calls, three tokens, a cap of one, both kinds of store, rejecting calls. |
| `Outbox_workers` | Two workers, a healthy and a poison row, lapsing claims, rejecting calls, crashes, stop(): the workers implement `AtLeastOnce`. |
| `DiscordOAuth_refresh` | Two refreshing calls, two logins with one state, a revocation, lost answers; with timers on time the lease is kept. |
| `CacheManager_remember` | Two calls of remember() and an application's set() over a plain lock, entries in flight, slow replies, late timers, rejecting calls and crashes, writes and invalidations between any two steps. |
| `Services` | Eight components side by side: PostgreSQL's idempotency statements (four executions, two payloads), realtime, transactions, breaker, admission, audit pages, Redis's cache, permissions. |
| `LeaseLock_fence` (violation) | PostgreSQL's fence is drawn before the row is taken. |
| `IdempotencyStore_begin` (violation) | PostgreSQL's begin says "started" without a record. |
| `Transactions_nested` (violation) | A savepoint in a savepoint hands its callbacks past the middle one. |
| `RedisCache_tags` (violation) | deleteByTags() takes a new entry out of its tags' sets. |

`Services` is not a product: its initial state chooses one component, the others rest, so its states are the
sum of theirs.  Nothing is lost by it, as none of the eight reads what another writes.

**What the violations show.**

* `LeaseLock_fence`: `acquirePostgresLease` evaluates `nextval()` for the row it wants to insert, before ON
  CONFLICT waits for the existing row.  A statement that drew 1 and waited may take the lease after another
  one used 2 and released it; the rightful holder now carries the lower token, and a database that keeps the
  highest token accepted rejects it, which is not what `docs/transactions.md` promises.  The memory and
  Redis stores draw and take in one step, and there the property is proved.
* `IdempotencyStore_begin`: when the owner fails (and deletes the row) between another begin's INSERT and
  SELECT, that begin finds no row to lock, its UPDATE changes nothing and it answers "started".  The next
  request starts too.  `docs/custom-stores.md` asks for first-writer ownership.
* `ActionKernel_finality`: `idempotency.complete` runs after the commit and inside the `try`; when it rejects
  the catch block calls `fail()`, which deletes the reservation, and the next request with the key runs the
  committed operation again.  `OPERATING_LIMITS.md` and `README.md` say it does not.
* `Transactions_nested`: `runNestedTransaction` does not enter `txStorage.run`, so `parent` is the outermost
  context at every depth.  With three nested runs the innermost hands its callbacks to the outermost; the
  middle one rolls back and undoes the innermost row, and the innermost afterCommit runs after COMMIT.
  `docs/transactions.md` and `README.md` say callbacks go to the parent.  With one level of savepoints, as
  `Services` runs it, the property holds.
* `RedisCache_tags`: `deleteByTags()` found a key in a tag's set, its GET finds no entry (it expired), a
  `set()` stores the key again and adds it to the set, and the SREM for the old entry removes it.
  `README.md` and `OPERATING_LIMITS.md` call tag cleanup atomic.  `MissesOnlyOverlappingStores` says what is left:
  only entries stored beside a `deleteByTags()` are lost to it.

The catch block has one more consequence, listed with the hazards: `telemetry.actionFinished` is awaited
inside the `try` after the commit, so a rejecting observer turns the answer of committed work into an error.
`ActionKernel_faults` admits it (`TelemetryFaults`); `ErrorMeansNothingCommitted` is therefore checked
where observers do not reject.

**Bounds.**  Two executions are enough for every pairwise race over one key and one lock; the idempotency
records are also run with four, and the theorems of section 5 hold for any number.  The clock of each run lets a lease or reservation be
granted, expire and be taken over (`MaxTime`; in the kernel runs it covers timeout, window and one expiry
after the latest start, which `StartBy` bounds).  Two attempts have the retry, the failing last attempt and
the deadline between attempts.  `MaxFence` bounds PostgreSQL's draws.  In `SessionManager_races` a cap of
one makes every login evict, and three tokens are one login, its rotation and one more of either beside it;
`MaxClock` is the ttl of four, a session idles out after three and is due for rotation after two, so a touch
can move `lastSeenAt` before a rotation, and sessions idle out and expire.  In `CacheManager_remember`
lease, delay and ttl are one and the clock three: a lease and two round trips, so that an entry sent under a lease can
arrive after it, behind another call's.  Its lock is a plain one, since renewals multiply the states
tenfold; the theorems cover both.  In `Outbox_workers`
`BatchLimit = 2` exceeds the one poison row: with as many poison rows as the limit, `claim()` hands out
those first, always, and a newer row is never delivered.  Two faults are a crash after a publish and a
rejection on the row's next delivery.  In `Services`, three events, a log of two and a replay of two let the log
be trimmed under a joining client; two sweeps over one key and two tags race each other and a retagging
`set()`; three breaker calls are a probe, a straggler of the closed circuit and one turned away; four records on pages of one
with `list()` limited to three let rows fall over the edge.

**Symmetry** is over executions, calls and tokens, none of which a definition names;
`ActionKernel_healthy` and `Outbox_workers` check liveness and use none.

**Deadlock** is not checked: when every request is answered and the clock is at its bound, or every token
is drawn, the system has stopped.  That requests do not get stuck is `EveryRequestAnswered`,
`LateResourcesReturned` and, for events, `DeliversAtLeastOnce`.

**Fairness** is weak.  In `ActionKernel` (`FairSpec`) it is on the clock and, per execution, on the foreground handler, the observer
and the timers' work: the event loop runs what is ready, and a store call ends.  The application's promise
(`Settle`), callers and crashes have none: `execute()` may hang for ever, and both properties must hold all the
same.  In `Outbox` it is on the interval and the end of a batch, on the loops (a publish and a mark settle,
one way or the other) and on claims running out; actions, faults and stop() have none, and the workers that
may stop for good are `Stoppable`, not all.  Timers on time are a guard of the clock, not fairness; what
late timers do is in `ActionKernel_faults` and `CacheManager_remember`.

## 4. Properties

* Lease: `BeliefWithinDelay`, `OneCurrentBeliever`, `HolderHasNewestFence`, `RenewalKeepsLease`, checked
  where the cache and the OAuth client use the lock.
* Idempotency: `FirstWriterOwns`, `ReplayIsFaithful`, `LiveRecordOnlyMovedByOwner`.
* Kernel: `RepeatOnlyAfterForfeit` (two commits under one key only after a reservation was given up or
  ran out; over a one-step begin, which PostgreSQL's is not), `OkMeansCommitted`,
  `ErrorMeansNothingCommitted`, `RetainsOwnership`, `LockedWorkIsExclusive`,
  `EffectsOnce`, `EveryRequestAnswered`, `LateResourcesReturned`, and `CommittedWorkNotRepeated`, which the
  code does not have.
* Around it: `PolicyIsEnforced`, `SpendingWithinLimit`, `CallbacksMatchOutcome`, `ProbeIsUnderWay`.
* Sessions: `CapHolds` (but for sessions that a concurrent `resolve()` writes back after they were deleted),
  `SomeSessionSurvives` (on a store with `create()`, while no `resolve()` has written a deleted session back),
  `RevokeAllIsComplete`.
* OAuth: `OneLoginPerState`, `SingleFlight`, `NoReplacedTokenPresented`, `RevocationUndoneOnlyInFlight`.
* Cache: `InvalidationIsSeen`, `StoresInOrder`, `MissesOnlyOverlappingStores`, and `EntriesStayIndexed`, which
  the Redis cache does not have.  `StoresInOrder` is what `assertOwned()` gives and no more: the store checks no
  fence, so an entry may arrive after its lease and replace a newer one, but not later than two round trips
  after the lease ended (one by which belief outlasts it, one for the way).
* Outbox: `DeliversAtLeastOnce`, `DuplicatesAreExplained`, `PublishedIsReplayable`, `StoppedMeansQuiet`.
* Realtime: `DeadSessionsDropOut`, `DeadSocketsDropOut`, `JoinHasNoGap`, `SubscriptionsWithinLimit`,
  `StreamKeepsOrder`.
* Audit and guilds: `WalkIsComplete`, `DecisionsFollowRoles`.

Several state exactly what the code gives, and so delimit a hazard.  A session that survives revokeAll
belongs to a call that ran beside it: such a call may write a revoked session back (`session.ts:67`), or
bring its replacement to life (`session.ts:53`).
The same write-back is why `SomeSessionSurvives` excludes revived sessions: with four overlapping calls,
`resolve()` calls that write a deleted session back, or lower a session's `lastSeenAt`, can make an eviction keep a
session that a rotation is about to delete, so that none is left.  The proof of the property without that
hypothesis fails there; two calls, as in the run, are too few to show it.  A revoked OAuth credential comes back only through the one
refresh that was in flight, because `revoke()` does not take the lock.  An invalidated value comes back only
from a load that was under way.  A page walk is complete unless a store without `listPage` lost the cursor's
row.  A client that joins has no gap, but may see an event twice and out of order, since live events overtake the replay.

## 5. Proofs

`LeaseLockProofs`, for every number of handles, every ttl, cadence and delay:

* `LockTypeCorrect`, `BeliefIsNearlyTrue`, `BelieversExclude`, without further assumptions.  None of these
  properties is inductive.  `LockInv` adds, per handle, how late the call in flight can be (`SlackInv`: the
  clock is at most `MaxDelay` past the send time, and a grant not yet replied to reaches at least a ttl past
  it) and that an unexpired grant is still the row of the store (`RowInv`).
* `FencesOrderHolders`, for renewable stores that draw the fence with the row (`~DrawFenceFirst`).
  `FenceInv`: the row carries the last fence drawn and every other handle a smaller one.
* `RenewalIsInTime`, assuming `RoomForRenewal`: timers on time and `RenewEvery + 2 * MaxDelay < LockTtl`.
  `KeepInv` bounds when the next renewal is sent by when the grant ends.  With the code's cadence of a third
  of the ttl it holds as long as a round trip is shorter than a third.  If the store does not reject either,
  a handle is not lost before it is released (`HealthyHandlesAreKept`).

`IdempotencyStoreProofs`, for every set of executions, payloads and ttl:

* `IdemTypeCorrect` and `ReplaysAreFaithful` for all stores (`IdemInv`: a completed record was completed by
  its owner, who does nothing more).
* `StartedMeansOwner` and `LiveRecordIsTheOwners` for stores with a one-step begin (`~SplitBegin`); the run
  `IdempotencyStore_begin` shows why the first is false without that assumption.

`SessionManagerProofs`, for every number of calls and tokens, every cap and both kinds of store:

* `SessionTypeCorrect` and `RevokeAllComplete`.  The inductive invariant is that, while a revocation lists
  or deletes, the tokens of every call in flight are in its `overlap`, and what it has not listed is too.
  The argument goes by the `Footprint` of a step: what it changes in other calls (nothing), in the overlaps
  (it adds its new tokens) and in the store (at most a session whose token the call held).

* `CapIsKept`, for the same, with the library's theorems on finite sets.  `CapInv`: the sessions that are in
  the store, were not revived and are not in a running eviction's list are at most the cap (`Counted`), since
  whoever lists sees its own session and leaves the newest ones.  So when every eviction has ended without a
  rejection, the cap holds.
* `EvictionSparesOne`.  On a store with `create()` only rotations delete by themselves.  `SurvivalInv` orders
  the sessions by when they are due for rotation: the session a rotation is about to delete has a `Successor`
  in the store, due at least one `RotateEvery` later, for as long as it is there itself, whatever other
  logins, rotations and evictions do.  Since a record is seen before it is due, an eviction by `lastSeenAt`
  cannot take the successor and leave what it succeeds.

`ActionKernelProofs`, for every number of executions and processes, all action definitions, timeouts and ttls:

* `KernelUsesLeases` and `KernelUsesReservations`: every step of the kernel is a step of `LeaseLock` and of
  `IdempotencyStore`, or leaves them alone.  What is proved about the two therefore holds under the kernel,
  under the same assumptions (`KernelStartedMeansOwner`, `KernelLiveRecordIsTheOwners`), and the proofs below
  use their invariants.
* `KernelTypeCorrect`, `AnswersAreTrue`, `EffectsHappenOnce`, for every store and every fault.  `KernelInv` ties the three
  threads of an execution together: `Course` says which `pc`, `op`, `bg` and flags go with each other,
  `Effects` counts rows and audits against the state of the promise, `Told` relates the answer to the record.
* `RepetitionNeedsForfeit`, over a one-step begin (`~SplitBegin`).  `Owed`: an execution whose promise works or
  has committed, and that has not given the reservation up or been replaced, is the owner of the record.
* `LockedWorkExcludes`, for a lease store that does not reject, and `RoomForRenewal`.  `HoldsLock`: from
  the lock to the last effect the handle is held, so `HealthyHandlesAreKept` applies to it.
* `OwnershipIsRetained`, with `HealthyReservations` for the idempotency store as well (timers on time, no
  rejections, a cadence below the ttl) and `RoomForRenewal`; `ErrorsAreFinal`, where observers do not
  reject.  The runs `ActionKernel_faults` and `ActionKernel_finality` show what becomes of them without.
  `Reserved` bounds the time to the next renewal by the expiry of the record; `Final`: on the way to
  such an answer and after it the promise has rejected or never began.

`OutboxProofs`, for every number of workers, loops, rows and faults, whether or not `claim()` is in order:

* `OutboxTypeCorrect`, `PublishedRowsReplay` (the order append, broadcast, mark, through every rejection),
  `StopIsQuiet` (unless a batch was torn, the loops at work are those of the batch `runOnce()` awaits).
* `OutboxKeepsPromise`: the safety half of the refinement of `AtLeastOnce`.  The initial states map to
  initial states and every step to a step of the promise or a stutter; `ListedInv`: a row that a
  loop or a queue has is one that was accepted.
* `DuplicatesHaveCauses`, for a store with `claim()`.  `PotentialInv` counts, for a row, what was sent, the
  batches that can still send it, and one if it is due: never more than its excuses and one.  Each step moves that sum
  only as `Moves` allows.

`RealtimeProofs`, for every number of clients, connections, channels and events, every limit and interval:

* `StreamLosesNothing`, from what the queue, the socket and the event in hand have in common.
* `ReplayJoinsLiveEvents` and `LimitHolds`, from `Owed`: per connection and channel, what lies between the
  replay's last event and the live ones is still on its way.
* `RevalidationCatchesUp` and `IdleTimeoutCatchesUp`, the bounds in time.  Neither is inductive: `HubInv` is
  a budget.  At every moment, the age of a dead session and the time the round will still need to reach its
  connection (what it waits for, the connections in front of it, or the time to the next beat and two
  rounds) stay within the bound.  The bounds are computed from the intervals and the
  number of connections, so they hold for every configuration.

`LockUsersProofs`, for every number of callers, tokens, versions, ttls and delays:

* `OAuthUsesLeases` and `CacheUsesLeases`: every step of the OAuth client and of the cache is a step of
  `LeaseLock` or leaves it alone, so the theorems of `LeaseLockProofs` hold inside both.
* `StateIsSingleUse`, for any number of logins, without further assumptions: consuming the state takes it away.
* `RefreshIsSingleFlight`, assuming `RoomForRenewal` and a lock store that does not reject (`~StoreFaults`).
  `HeldInv`: a call between acquire and release has its handle, and by `HealthyHandlesAreKept` only one can.
* `ReplacedTokensAreRetired`, under the same assumptions.  `TokenInv`: the stored token,
  the one a call presents and the one it was answered with are `Current`, that is issued and not replaced, and
  what a login is about to store is nobody else's yet.
* `RevocationLastsButForOne`, under the same assumptions: the refresh that can undo a revocation was at work
  under the lock when the credentials were deleted, so there is one at most.
* `InvalidationReachesAnswers`, without assumptions.  `VersionInv`: neither the row, nor an entry on its way, nor a load
  under way is older than the floor, and what a call keeps or answers is not older than the floor it began with.
* `LockOrdersStores`, without assumptions, so for late timers, rejecting stores and entries in flight as well.
  `OrderInv`: a load, and an entry on its way, of a call that still has its lease is not older than the last version
  applied under one.  `SentInv`: an entry sent under the lock left while its caller believed, so within a round
  trip of the lease, and is applied within one more.  They rest on `LeaseIsNotRegained`: a handle whose lease
  has been taken over never has it again.

`ServicesProofs`:

* `BreakerTypeCorrect`, `ProbeAlwaysUnderWay`, for every number of overlapping calls and every threshold,
  assuming `ObjectsAreNew` (there is always an object no call holds, as allocation gives it).  Together they
  are inductive: an admitted call holds the very object the map then has.
* `PoliciesAreEnforced` and `SpendingStaysWithinLimit`, for all requests, costs, limits, both kinds of `hit()`.
* `DecisionsAreDiscords`, for all permissions, roles and questions.
* `CallbacksTellTheTruth`, for one level of savepoints (`Depth <= 2`); `Transactions_nested` refutes it for
  two.  `WorkingScope` and `CommittedScope` say in whose list the callbacks of each scope are.
* `WalksMissNothing`: every page is a beginning of what lies behind the cursor, so what was shown is
  everything up to the cursor (`ShownSoFar`), whatever rows come or go elsewhere.
* `SweepsMissNothingElse`: a sweep that is going to break an entry's index `Pursues` it, and that only for
  entries stored beside it.

Only model-checked: `EveryRequestAnswered`, `LateResourcesReturned` and the liveness half of
`DeliversAtLeastOnce`, since liveness under fairness and ENABLED are out of the prover's reach, as are recursive
operators (the specifications use none) and induction over data.  Every invariant and every other action
property that a passing run checks is a theorem.  What three of the
violations refute is proved under the assumption that excludes them: `~DrawFenceFirst`, `~SplitBegin`, `Depth <= 2`.

## 6. What is not modelled, and abstractions to know of

* In `ActionKernel` admission is one passing or throwing step, since it owns nothing; `Admission` has its
  policies and rate limit, `SessionManager` its sessions.  They are not composed: no property spans them.
* The kernel's transaction rolls everything back, as PostgreSQL's does.  The memory adapter does not roll
  back rows of the memory outbox.  A COMMIT whose reply is lost is in `Transactions`, not in the kernel.
* Actions without a transaction adapter are not modelled.  There, outbox rows of a failed attempt stay.
* Calls of the idempotency store use the time of their application, renewals the time they were sent.
* `session.ts` reads the clock before it awaits `get`; the model reads both in one step.  No code sets
  `revokedAt`; its branch does what the one of a lapsed session does.  Expiry of rows inside a store
  and the Redis index of a user's sessions are left out, as is `operator.ts`'s selective revocation.
* A `validate()`, probe or store call that never answers: the hub's and the monitor's rounds would stop for
  good, which needs no model to see.
* The filters of audit queries, the policy version an audit row quotes, channel overwrites and the role hierarchy, and the
  authorizer's use of the cache.
* Analytics: the monitor keeps one sample in flight and skips the others; queries are sums, charts layout.
* Telemetry, handlers, cryptography, texts, CLI and scripts have no state the properties are about.

## 7. Plan

Every module of section 2 is written, and every safety property of the passing runs is proved.  What is left:

1. `Admission` in front of `ActionKernel` and `SessionManager` beside it, if a property is found that spans them.
2. `OutboxKeepsPromise` from the side of `ActionKernel`: a committed execution's rows are the accepted events.
3. Actions without a transaction adapter, and `operator.ts`'s selective revocation.
