# actixutils in TLA+

actixutils is a library of actix-web middlewares and extractors.  Each middleware
wraps the next service: `call` receives a request, may answer it itself, and
otherwise awaits the inner service and works on the outcome.  A request is one
future, polled by one worker thread, which it gives up only at an `.await`; it can
be dropped at any `.await` (the client leaves, or a timeout outside fires).  What
goes wrong in such code goes wrong between two awaits, between two locks, or in the
order in which stages are stacked.  That is what these modules are about.

Paths below are relative to the repository; `mw/` stands for `src/middleware/`.

## Components

| Component | State it keeps | Operations | What makes it correct |
|---|---|---|---|
| Singleflight (`mw/coalesce.rs`) | per key the open `Flight`; per flight a result slot and a `Notify` | `call`: lead or follow, publish, notify, remove; `LeaderGuard::drop` | one execution per key; followers get what their leader got; nobody waits for ever |
| Idempotency (`mw/idempotency.rs`, trait in `locals/idempotency.rs`) | in a store outside the crate: reservation or stored response per key | acquire, get, complete, release | a retry does not repeat a mutation; a key is not lost |
| RateLimiter (`mw/rate_limiter.rs`) | in a `Store`: request times per identity | get, purge, decide, set | the limit is kept, and does not reject wrongly |
| Sessions (`mw/session.rs`, `mw/required_session.rs`, `extractors/session.rs`) | in a `Store`: session values; per request the handle and its dirty flag | load or create, run the handler, save, send the cookie | updates are not lost; a cookie names a session that exists |
| Response cache (`mw/cache/middleware.rs`) | none of its own | get, call, buffer, set | what is replayed is whole |
| MemoryCache (`mw/cache/memory.rs`) | `entries` and `insertion_order` under a lock each | get, set (evict, insert, push), delete, clear | bounded; no entry out of reach of eviction |
| Pipeline stages (RequestId, ClientIp, Auth, ReadContext, Permissions, identity, authority, AttachLocal, PathParams) and extractors (Jwt, ClientIp, Filters) | request extensions | read what outer stages left, add, turn away | no order lets a request past a guard |
| Timeout, ResponseEqualizer | the time a request entered | deadline, padding | late and early answers are what was promised |
| Permissions table, client address | immutable | validate, find; walk X-Forwarded-For | first match; only trusted proxies are believed |
| Session handle (`extractors/session.rs`, `extractors/read_session.rs`) | an `RwLock` and a dirty flag shared by the clones of one request's handle | read, write; the middleware's save | writes made in time are saved, whole; nobody waits for ever |
| Pagination, AttachLocal (`mw/pagination.rs`, `locals/pagination.rs`, `mw/attach_local.rs`) | a task-local | parse, enter a scope, read | a request reads its own value |
| Tokens (`locals/claims.rs`, `locals/hs256.rs`, `locals/rs256.rs`, `mw/auth.rs`, `extractors/auth.rs`) | immutable keys; claims in the extensions | sign, validate | served only on claims signed for it; a good token is not refused |

How they interact: through the request extensions (a stage reads what an outer one
inserted); through `Result` (an actix `Error` passes outward by `?`, skipping what a
stage does to responses); through shared stores (every other request of the key or
identity); through handles that outlive a request (a spawned task keeps a clone of its
session); and through drops (a `TimeoutMiddleware` outside any other
one drops its future at whatever await it stands).  No two stateful components share a
store, so their modules are separate, each with a `Cancel` action at every await;
`Pipeline` is where stages meet, and `CoalescedRetries` composes the two that a retrying
client meets one inside the other.

## Modules

| Module | Models |
|---|---|
| `SharedExecution` | abstract: requests of a key grouped around an execution that decides once |
| `Singleflight` | `mw/coalesce.rs`, critical section by critical section |
| `Idempotency` | the middleware over an unreliable store with TTLs |
| `OncePerKey` | abstract: a key is claimed, has one effect and one outcome, until it is forgotten |
| `CoalescedRetries` | `Idempotency` as the inner service of `Singleflight` |
| `RateLimiter` | the middleware over a get/set store |
| `Session` | three forms of the session middleware and `Session::write` |
| `SessionHandle` | one request's session: the lock, the flag, the tasks that share them, the extractors |
| `MemoryCache`, `ResponseCache` | the store with its three locks; the middleware using it |
| `CacheStaleness` | `ResponseCache` with histories of what was stored and deleted when |
| `Permissions`, `Pipeline` | pure decisions; a request through any chain of stages |
| `Tokens` | signing, validating, and the layers of a request that ask for claims |
| `TaskLocals` | the scopes of `PaginationMiddleware` and `AttachLocal` on a worker thread |
| `SingleflightProofs`, `IdempotencyProofs`, `CoalescedRetriesProofs`, `RateLimiterProofs`, `SessionProofs`, `SessionHandleProofs`, `CacheStalenessProofs`, `PipelineProofs` | the theorems about each; `PipelineProofs` also holds those about `Tokens` and `TaskLocals` |
| `MC...` | instances for TLC |

Correspondence conventions.  `pc[r]` is where the future of request `r` stands; every
place at which it is suspended is an `.await` of the code, and an action runs from
one await (or lock, where other threads matter) to the next.  Early returns are
actions or disjuncts.  `Cancel` drops a future that is suspended.  Payloads are
named by the request that produced them, so a response is "whose response" and not
bytes.  Variables commented `history` are read by properties only.  Stores and
handlers are external: a store operation is atomic, and a reported failure of a
write may come before or after its effect, since an answer can be lost.

Operators preceded by a comment `Slip:` are not part of any specification.  Each is
a definition as a plausible mistake would have left it (a guard dropped, an order
swapped).  With the slip in the place of the original, TLC must find the
corresponding property violated; `PROJECT.json` pairs them.

### Singleflight

`map`, `result`, `parked` are `SharedState::map`, `Flight::result` and the armed
`Notified` futures; a flight is named after the request that leads it.  A request
arrives (`BecomeLeader`/`BecomeFollower`: one critical section), the leader awaits the
service and buffers the body, then `Publish`, `Notify`, `Remove`; if its future is
dropped while it executes, `DropPublish`, `DropNotify`, `DropRemove` are the guard.
A follower looks at the slot (`CheckSettled`/`CheckPending`), then `Arm`s its
`Notified` and waits.  On one worker a poll is not interrupted (`MidPoll`,
`WorkerFree`); polls of different workers interleave at every lock.  `new_transform`
clones the `Arc` of the map, so a `Singleflight` built once and cloned into the
server factory is shared by all workers; one built inside the factory is private to a
worker.  The shared one is checked; that one worker alone loses no wake-up is a theorem.

### Idempotency, RateLimiter, Session

`Idempotency`: acquire won/lost/failed, get after a lost acquire (the entry may have
vanished: 409), the handler, its body, complete, the releases.  Release and complete
name no owner, as in the trait; an entry may expire at any time.  What the wrapped service
did when it returns an error is not known (`RefusedOrErrs`): an inner middleware refused the
request, dropped the handler in the middle (`mw/timeout.rs:82`), or failed after it
(`mw/session.rs:178`).  `ran` has the handlers that began, `erred` those of them whose service
returned an error all the same; the key is given up in every case.  `RateLimiter`: the clock is read,
then `get` is awaited, then `set`; `Purge` removes the leading old times only, as
`remove(0)` in a loop does.  `Session`: a session value is the set of requests
whose writes it contains, so a lost update is visible; a client presents no cookie,
a broken one, or an id, including ids it was sent earlier.

### OncePerKey and CoalescedRetries

`Idempotency!ImplementsOncePerKey` maps the middleware to `OncePerKey`: the owner of a key is
the request whose reservation or outcome it is, an effect is a handler that has run, a key
is forgotten once an entry of it has run out or `complete` was reported failed.  Until then
every step is a claim, an effect, a kept outcome, a claim given up by a request that had no effect
or whose service failed, or a replay; after it only "nobody is told anything but the response of a handler that ran for the
key" remains.

`CoalescedRetries` instantiates both modules, `Idempotency` with its own `pc`.  The inner
middleware is the leader's service: its steps are taken only while the leader is
at `calling` and its worker is free, its last step is the `ServiceOk` or `ServiceErr` of the
leader in the same poll, and it is dropped in the same step as its leader.  A response of
the inner middleware has its body in memory, so `BodyRead` cannot fail.  The key function of
the one reads the header of the other (one `KeyOf`).

### SessionHandle

One request; `mw` is where the middleware's future stands, from the extraction of the
handler's argument to its answer.  `Mark` and `LockWrite` are the two halves of `write()`: the
flag is raised before the lock is asked for.  A write has two parts, so that half of one
can be seen.  The lock is tokio's: fair, readers together, waiters leave when their
future is dropped.  `Save` and `SetClean` happen under the read guard, which `Respond`
drops.  A handler returns with no guard of its own left; its tasks go on.  Tasks may be
aborted; `ServiceErr` and `Cancel` drop the handler at an await.

### Tokens

`Party` gives each signer and validator an algorithm, a key, an audience and the ticks its
clock is ahead.  A key pair is one key.  Requests carry the token in the header, the
cookie, or not at all; `stack` is the layers they meet, each an `Auth<T>` (which inserts a
`T`) or a `Jwt<T>` (which does not), as `identity()` and `authority()` do.  `decode` of jsonwebtoken
is external: it checks algorithm, signature, audience and `exp` with its default leeway,
which the code leaves as it is.

### TaskLocals

`slot` is the thread's value of the task-local; a scope swaps its value in when its future is
polled and out when the poll ends, whether by an await, a return or a panic (`Swap`).
`Call` is `service.call(req)`, where inner stages may read at once; `Read` is the inner
future.  `PaginationMiddleware` calls the service inside its scope, `AttachLocal` before it.
A query holds a number, nothing, or something that is no `u32` for each of its fields.

### MemoryCache and ResponseCache

`Evict`, `Insert`, `Push` are the three critical sections of `set`; `ClearEntries` and
`ClearOrder` those of `clear`.  `evict_if_needed` holds `entries` across its inner
lock, so it is one action.  The middleware's `get` is one read.
`memory.rs` is not declared in `mw/cache/mod.rs`; what is compiled, for tests, is the copy
in `mw/cache/test.rs`.  `CacheStaleness` runs `ResponseCache` unchanged with histories of
when each `set` began, who had stored when each request missed, and who was over when the
application deleted; its run checks the properties of both modules.

### Permissions and Pipeline

A chain is a sequence of different stages, outermost first.  `at` is the stage whose turn it
is, `moving` the direction.  The extensions are the set of types present.  All
claim types (`Identity`, `Authority`, the principal) are one type, `Claims`, and its
role is a set of bits.  `request.wants` is what the handler extracts; a handler whose
extractor fails is answered for by actix (`HandlerRefuses`), with a response that stages
see as any other.  A route pattern is the set of paths it matches (actix's
`ResourceDef` is external).  Time passes only while the future is suspended: in
the handler, in the padding, or at the store of a limiter that has somebody to count.  The
limiter forwards, answers 429, or fails with its store, each of them whenever there is a
`ClientIp` to count; when exactly it is over the limit is `RateLimiter`.  The sleep of
`ResponseEqualizer` is padding and jitter in one, so a response that is late already may sleep too.
`request.forwarded` is the header as received, line by line and hop by hop, hops that are no
address (`NoAddress`) and bytes that are no text (`NoText`) among them.  `tokio::time::timeout` polls the inner future first,
so an answer that is there wins over the deadline.  A shift by 128 or more panics
with overflow checks and wraps without; `AuthorityEnters` may do either.

## Runs

| Run | Instance | What it shows |
|---|---|---|
| `sf_two_workers` | 4 requests, 2 keys, 2 workers | safety of coalescing and refinement of `SharedExecution`, every lock an interleaving point |
| `sf_lost_wakeup` | the same, fair | **violated**: a follower can wait for ever |
| `id_faults` | 3 attempts of a key, 1 request without, failing store and service, 2 expiries | when a mutation can run twice, and when a key stays reserved; refinement of `OncePerKey` |
| `cr_retries` | 3 attempts of a key, 2 workers, failing store and service, 1 expiry, fair | never two at a time, not even past the TTL; 409 is the sign of a loss; every attempt settles unless its wake-up is lost between workers |
| `rl_faults` | limit 2, window 1, clock to 3, 3 requests + 1 without identity | the limit is exact unless requests overlap; overlap stays bounded |
| `se_modes` | 1 request per form, 3 ids, failing store | lost updates need overlap; a cookie follows a save |
| `se_known` | the same | **violated**: a client is turned away with the cookie it was just sent |
| `sh_clones` | handler and 2 tasks, failing store, fair | writes begun in time are saved whole; the answer and every waiter come through |
| `ca_store` | 4 requests, 3 keys, room for 2, Ttl 1, failing store | hits are whole and in their lifetime, who can bring back what, the bound, no entry out of reach of eviction |
| `tk_layers` | 4 signers, 3 validators, 5 stacks of layers, clocks 1 apart | served only on claims signed for it; claims are judged once; no good token is refused |
| `tl_worker` | 3 requests on 1 thread, words of 4, panics on overflow | no request, and no task, reads another's pagination |
| `pl_chains` | chains below, 40 requests, 5 tables | guards hold in every order; the documented order serves; whom `X-Forwarded-For` can name |

Type invariants are checked by the runs of `RateLimiter`, `Session`, `ResponseCache` and
`Pipeline`, and proved for these and for `Singleflight` and `Idempotency`, whose runs spend
their time on the rest.  In `RateLimiter` it bounds the stored log as well.

Bounds, and why they are enough.  `Singleflight`: three requests of a key are a
leader, a follower, and a second leader or follower; the fourth is another key on
the first worker, which can occupy it.  `Idempotency`: a first owner that is
late, its successor, and a third request that sees what they did; two expiries let
both lose their entry.  `RateLimiter`: one request more than the limit; the clock
covers a window, its far edge and what lies outside.  `Session`: two requests can
overlap on one session while a third goes through the other form; two ids are left
to issue.  `ResponseCache`: one key more than there is room, one key stored twice,
enough time for one expiry.  `Pipeline`: all chains of up to three different stages
(hence every pair of stages in both orders, and every stage between two others), all 120 orders of
the documented chain, and two long chains with both timers; roles of two bits (`Width`
2 stands for 128); `perm_id` 2 overflows.  The deadline of 2 ticks, padding of 1 and
clock to 3 let each come first.  Eight of the requests differ in what the handler
extracts; the others in token, role, path, peer and header lines: up to two trusted and
untrusted addresses, unparseable hops before, between and behind them, a line that is no text, and
a second line.
`SessionHandle`: two tasks can queue behind each other and behind the handler, one of them
reading, with the middleware before, between or behind them.  `Tokens`: a lifetime of 3 ticks
(500 seconds), a leeway of 1 (60 seconds), clocks at most 1 apart, 7 ticks in all: a token
can be made, live, reach the end of its leeway by every clock, and be late.
`TaskLocals`: page 2 times limit 2 is the first product that a word of 4 cannot hold;
with the default limit of 1 the other products fit.  `CoalescedRetries`: a leader, its
follower, and a retry after both; the first is on a worker of its own, the others share one, so
that wake-ups between workers and within one both occur; one entry can run out, under the
request that made it or after it (its exclusion is a theorem for any number).  `CacheStaleness`: of the two requests of
one key, one stores before, while or after the other looks, and an entry can run out while a
set waits.  `MaxTime`, `MaxNow` and `MaxExpiries` are the only bounds in guards; a sleep that
began before `MaxTime` may end up to `MinDuration` after it (`Horizon`).

Symmetry is used for interchangeable requests in `rl_faults` and `ca_store`, which
check safety only.  In no module does the system stop unintentionally: a disjunct
(`Finished` in most) stutters when every request is over, and deadlock is checked everywhere.

Fairness.  In `Singleflight!FairSpec`: weak fairness of each poll step of a request
(a worker keeps polling futures that are ready) and of the wrapped service's answer
(calls to it end).  In `CoalescedRetries!FairSpec` the same, the service being the inner
middleware, whose store calls and handler end.  On two workers a wake-up can be lost, and
`EveryAttemptSettles` excepts the follower to which that happens (`WakeupLost`) and nobody else;
`LostWakeupOnlyAcrossWorkers` is proved, so on one worker there is no exception.  In `SessionHandle!FairSpec`: the middleware goes on when it can (it is polled, and the
store answers), and a task that holds a guard finishes with it.  Nobody has to ask
for the lock, and the lock hands itself over in the step that frees it.  Clients may leave
or stay: `Cancel` is not fair, and neither is arrival.

## Where the code and its documentation part

Two runs state what the documentation says and find it violated:

1. **Lost wake-up** (`mw/coalesce.rs:244`, `sf_lost_wakeup`).  The follower unlocks
   the slot and only then creates `notified()`.  A leader on another worker that
   publishes and calls `notify_waiters` in between is missed: the follower waits
   for ever.  `LostWakeupOnlyAcrossWorkers` shows that this is the only way.
2. **Unknown session** (`mw/session.rs:151`, `se_known`).  A replaced broken cookie
   names a session that is not stored unless the handler writes.

In the other places the models do what the code does, and the property named beside each says
exactly how far the promise holds:

- **Reservation left behind** (`mw/idempotency.rs:215`).  A response whose body fails is
  answered 500 and the key stays in progress until its TTL; `locals/idempotency.rs:48` says
  release is "called on error paths".  The handler has run, so keeping the key may be
  intended; the two lines disagree.  `OrphanedOnlyByLoss` lists every such path, also for keys
  whose entries have run out meanwhile.
- **Run again after an error** (`mw/idempotency.rs:200`).  The module's doc (lines 6-7) says that
  a retry is answered "**without** invoking the handler again".  An `Err` of the service releases
  the key, also when the handler had run: an inner `TimeoutMiddleware` drops it half-way
  (`mw/timeout.rs:80-83`), the save of an inner session fails after it (`mw/session.rs:178`,
  `mw/required_session.rs:153`).  The retry repeats the mutation, with no fault of the store and
  within the TTL.  `RunsOnceUnlessDisturbed` is about runs whose service did not err (`erred`).
- **Permission ids of 128 and more** (`mw/fns.rs:75`).  The doc (`mw/fns.rs:45-53`, and
  `docs/middleware/EXAMPLES.md:447-449`) promises a 403 unless bit `perm_id` is set.  A role has
  128 bits; `1u128 << perm_id` panics in a build with overflow checks and tests bit
  `perm_id % 128` in one without, so a role may pass by a bit nobody named.  `AuthorityEnters` does
  either; `HandlerIsGuarded` is about ids within the width and says nothing beyond.
- **Hops that do not count** (`mw/client_ip.rs:80-85`).  `docs/middleware/EXAMPLES.md:656-659` has
  the middleware walk `X-Forwarded-For` from the closest hop and return the first address that is
  no trusted proxy.  Only the first line of that name is read, one that is no text counts for nothing,
  and hops that do not parse (an address with a port, say) are left out, so that the walk goes on
  to what stands in front of them.  `ClientIsReachedByTrust` lets the walk pass over trusted
  proxies and hops that do not parse, over nothing else, in the first line.
- **Limit overrun** (`mw/rate_limiter.rs:176`).  Overlapping requests read the same log and all
  are admitted.  `OverrunNeedsOverlap`.
- **Unpadded errors** (`mw/constant_time.rs:127`).  The `?` sends an inner `Err` (the 401 of
  `Auth`, the 504 of `TimeoutMiddleware`) at once, while the doc promises "every
  response".  `ResponsesAreTaggedAndPadded` is about what is not an error.
- **Clean but unsaved** (`extractors/session.rs:60`).  `write()` raises the flag, then waits for
  the lock; `set_clean` lowers it while the task waits behind the save, and the write that
  follows counts as persisted.  `EarlyWritesAreSaved`: a task that had the lock before
  the handler returned is not affected.
- **`ReadSession` never succeeds** (`extractors/read_session.rs:14`).  It looks for `Session<T>`
  where the middlewares insert `Arc<Session<T>>`, and blames a missing middleware.
  `SessionHandle!LookedUp`.
- **Audience not embedded** (`locals/rs256.rs:118`).  The docs of both signers say it is; `sign`
  encodes the claims as they are.  `FreshTokenIsAccepted` needs claims made for the audience.
- **Accepted after expiry** (`locals/hs256.rs:43`).  "Valid for 500 seconds" is 560, the leeway
  of the library included.  `ServedOnSignedClaims` states the bound.
- **Call before scope** (`mw/attach_local.rs:103`).  The service is called before the scope it
  is said to run in is entered.  `TaskLocals!Covered`.
- **Offset wraps** (`locals/pagination.rs:56`) in a build without overflow checks, and panics in
  one with them.  `ReadsAreOwn` covers the panic; the wrapped number is the model's too, and no
  property calls it right.
- **Unbounded queue** (`mw/cache/memory.rs:71`).  Below the limit nothing is popped, and what
  expired or was deleted is queued again when it is stored again.  `SizeIsBounded` is
  about the entries, not about the queue.

Smaller disagreements met while reading, which no run states:

- A follower of a failed leader gets a 500 of its own, not the leader's error.
- A request that finds a key in progress gets 409; `docs/middleware/TUTORIALS.md:269-271`
  says it "gets the cached outcome".
- The response of the first idempotent request loses its headers
  (`mw/idempotency.rs:234-237`); rebuilt cached responses collapse repeated header
  names (`insert_header`).
- `X-Request-Id` is added to responses, not to errors, although `docs/middleware/TUTORIALS.md:41`
  says every response.
- `RateLimiter<ClientIp>` outside `ClientIpMiddleware` limits nothing, silently;
  `docs/middleware/index.md:118-121` expects a 500.
- The queue of `MemoryCache` keeps expired and deleted keys: a key inserted again is
  evicted at the place of its old self.
- A rejection may be spurious after overlapping requests stored times out of order
  (the purge stops at the first recent one).

## What is proved

`SingleflightProofs`, for every set of requests, keys and workers, every `KeyOf` and
`WorkerOf`, from `RequestAssumption` alone (keys and workers are functions of the
request; `None` is not a request):

| Theorem | |
|---|---|
| `TypeCorrect` | `[]TypeOK` |
| `SingleExecution` | `[]OneExecutionPerKey` |
| `JoinableFlightsAreOpen` | `[]MapHoldsOpenFlight` |
| `NoWakeupLostOnOneWorker` | `[]LostWakeupOnlyAcrossWorkers` |
| `OutcomeShared` | `[]FollowersShareOutcome` |
| `OwnerRemoves` | `OnlyOwnerRemoves` |
| `Refinement` | `Spec => ImplementsSharedExecution` |

The inductive invariant `IInv` adds to these what they silently rely on.
`LeaderInMap`: a leader's entry stays until the leader takes it out, from which
one execution per key follows (the map holds one leader).  `FlightsOK` relates a
follower to the request that led its flight, and `SlotOK` says, for every place of
a leader, what is in the slot, so that a follower that finds it settled finds
the outcome.  `OnePollPerWorker` and `ArmsInTime` are the argument about
wake-ups: a follower that is about to arm on a leader of its own worker holds the
worker, so that leader is still awaiting the service.  Preservation is one
lemma per conjunct, each with a step per action; the refinement maps every step to
`Open`, `Join`, `Decide`, `Settle`, `Leave` or a stutter.

`IdempotencyProofs`, for every set of requests and keys, every `KeyOf`, with or without
failing store calls and for any bound on expiries, from `IdempotencyAssumption`:

| Theorem | |
|---|---|
| `TypeCorrect` | `[]TypeOK` |
| `Exclusion` | `[]ExclusiveUnlessExpired` |
| `RunsOnce` | `[]RunsOnceUnlessDisturbed` |
| `ReplayIsARun` | `[]ReplaysARun` |
| `OrphansAreLosses` | `[]OrphanedOnlyByLoss` |
| `CompletedStays` | `CompletedIsKept` |
| `Refinement` | `Spec => ImplementsOncePerKey` |

`release` and `complete` name no owner, so the argument is that whoever calls them holds
the entry.  `HolderOK` says so: as long as no entry of the key has expired, a request
that has still to end its reservation is the holder of the entry, and the entry is
in progress (or completed, if `complete` reported a failure: `ReleasingOK`).  Two such
requests would both be the holder, hence `Exclusion`.  `EffectKept` carries the
holder over to requests that are finished and did not err: the entry stays theirs, so nobody else
of the key is at the handler, hence `RunsOnce`, which is about the step in which a handler runs
(`NewRun`).  `RanOK`, `EntryOK` and
`KeyedOK` tie the history of handler runs to the places of `call` and to the store.
`TypeOK` alone is not inductive: that `Get` reads an entry that exists needs `KeyedOK`.
`Refinement` (`Spec => ImplementsOncePerKey`) maps every action to a claim, an effect, a kept
outcome, a claim given up, a replay, a key forgotten or a stutter, under the same invariant;
that a release is the owner's giving up its own claim, without an effect or with an error, is
`HolderOK` again.

`CoalescedRetriesProofs`, for every set of requests, keys and workers, from `RetriesAssumption`
(keys and workers are functions of the request; the marks for "none" are no requests or keys):

| Theorem | |
|---|---|
| `Exclusion` | `[]ExclusiveAlways` |
| `ConflictsAreLosses` | `[]ConflictNeedsLoss` |
| `CoalescingIsKept` | `Spec => Outer!Spec` |
| `IdempotencyIsKept` | `Spec => Inner!Spec` |

`LeadOK` (the map has the entry of a leader, hence one per key) and `LinkOK` (an inner future
exists only while its leader awaits it) give `Exclusion`, and with it `OwnOK`: who has a
reservation to end meets no other holder, expiry or not.  `ReservedOK` says that a
reservation has somebody who will end it or was left by a loss, whence the 409.  The last two
theorems are the composition: each of its steps is a step or a stutter of either component, so
what is proved of `Singleflight` and of `Idempotency` holds of the stack of both, too.  The prover
does not cite the theorems of an instantiated module; that last inference is the reader's.

`RateLimiterProofs`, for every set of requests and identities, any limit and window, with or
without failing store calls, from `LimiterAssumption`:

| Theorem | |
|---|---|
| `TypeCorrect` | `[]TypeOK`, with the bound on the stored log |
| `OverrunIsByOverlap` | `[]OverrunNeedsOverlap` |
| `RejectedIsDue` | `[]RejectionIsDue` |
| `QuietIsAdmitted` | `[]QuietIdentityIsAdmitted` |

Under the invariant lies what `Purge` does, by lemma: it leaves a suffix, pops only
times outside of the window, and stops at one inside.  `LogIsFaithful` says that without
overlap the log is faithful to the record of its identity;
`EntryCurrent` carries this from the `get` to the `set` of a request that nobody overtook.  The
limit is then a matter of counting: `WindowsHold`.  `QuietIsAdmitted` needs none of this and
holds of overlapping requests too.

`SessionProofs`, for every set of requests and ids and any mode of each request, from
`SessionAssumption`:

| Theorem | |
|---|---|
| `TypeCorrect` | `[]TypeOK` |
| `LostOnlyByOverlap` | `[]LostUpdateNeedsOverlap` |
| `ToldOfStored` | `[]SessionsToldOfAreStored` |

`DataOK` bounds what a request has at hand by what was saved and what it wrote itself;
`DirtyOK` says that what must be saved is marked, `RepliedOK` that it was saved before it was
answered.  `KeptOK` is the invariant behind the lost update: a saved write is in the store,
and in everything loaded since, until a request that had not loaded it saves.

`SessionHandleProofs`, for every set of tasks, from `HandleAssumption`:

| Theorem | |
|---|---|
| `EarlyWritesSaved` | `[]EarlyWritesAreSaved` |
| `SavedWhole` | `[]SavedIsWhole` |

`LockOK` is the lock: a writer holds it alone, and nobody waits twice or waits and holds.
`HalfOK` says that half a write exists only under the lock of its task, or after its task was
dropped, and `FlagOK` that nothing was, or is about to be, written where the flag is down.
`EarlyOK` and `SettledOK` follow a task that got the lock early until the value, with its write, is
stored under a read guard.

`CacheStalenessProofs`, for every set of requests and keys, any limit and lifetime, with or
without failing store calls.  The first three are about the specification of `ResponseCache` itself, the
others about the one with histories, whose every step is a step of it:

| Theorem | |
|---|---|
| `TypeCorrect` | `[]TypeOK` |
| `GrowthIsBounded` | `[]SizeIsBounded` |
| `NothingIsLeftOut` | `[]EveryEntryIsEvictable` |
| `DeletedStaysOut` | `[]DeletedComesBackOnlyInFlight` |
| `ReplayedWholeAndFresh` | `HitsAreWholeAndFresh` |
| `ReplacedByOverlap` | `ReplacedOnlyByOverlap` |

Eviction pops until there is room, some least number of times.  That there is such a number
is a lemma (`EvictMakesRoom`): every key in the map is queued, so popping the whole queue
empties it, and a set of naturals has a least element (inclusion is well founded on
the finite intervals up to them).  `RoomOK` carries the room from `Evict` to `Insert` while sets do not
overlap (`SoleOK`).  For the histories, `EntryOK` ties an entry to the whole
response of a request of its key and to the lifetime its set computed, and `BeforeOK` separates
what had been stored when a request missed from what can be read now.

`PipelineProofs`, for chains of any length over the stages, all requests, tables, proxies and
durations, from `PermissionsAssumption` and `PipelineAssumption` (a chain has no stage twice,
requests and tables have their types):

| Theorem | |
|---|---|
| `TypeCorrect` | `[]TypeOK` |
| `GuardedInEveryOrder` | `[]HandlerIsGuarded` |
| `DocumentedIsEnough` | `[]DocumentedOrderServes` |
| `TaggedAndPadded` | `[]ResponsesAreTaggedAndPadded` |
| `ReachedByTrust` | `[]ClientIsReachedByTrust` |

TLC checks chains of three; these are about all of them.  On the way in, `CarriedOK` says
which stages left what is in the extensions, and `AdmittedOK` that every guard passed so far was
satisfied; at the handler every stage has been passed.  Every stage either lets a request
cross or refuses it, and it refuses only one that is not legitimate or whose chain is out of the
documented order, or is the limiter and has somebody to count (`EntersSplits`, the case analysis of
the whole chain): `ServedOK` follows.
On the way out `LeftOK` says that the stages already left have tagged and padded a
response.  `Find` and the walk over `X-Forwarded-For` are lemmas about the least and the
greatest element of a set of places (`FindIsFirst`, `WalkEnds`).

The same module proves about `Tokens` and `TaskLocals`, which say what lies behind the
pipeline's "good token" and behind its `AttachLocal`.  It extends all three, each with
variables of its own; that is why those two name their specifications `TokensSpec` and `LocalsSpec`,
and the requests of a worker `Futures`.

For any signers, validators, audiences and stacks of layers, and clocks that
differ by at most the leeway (`TokensAssumption`):

| Theorem | |
|---|---|
| `ServedOnlyOnSigned` | `[]ServedOnSignedClaims` |
| `ClaimsJudgedOnce` | `[]AdmittedOnce` |
| `FreshAccepted` | `[]FreshTokenIsAccepted` |

`TokenOK` says that a token still tells who signed it for whom and when.  `LayersOK` counts: every
layer that the request has reached has judged, in order.  `ClaimsOK` is the heart of it: a kind
of claims is in the extensions exactly when an `Auth` for it, further out than the layer reached, let the
request in.  So a layer that judges has no such `Auth` outside of it and is its own decider
(`AdmittedOnce`), and one that takes the claims as they are has a decider that was right to accept
them, by `LetInOK`, when it did.  The token and the moment of that judgement do not change
any more (`JustifiedStays`).  `RefusedOK` is the counterpart for the layer that turned the request
away.  The rest is arithmetic: `exp` is the signer's clock plus the lifetime, the two clocks are at
most `MaxAhead` apart, and the leeway covers that, in the one direction for
`ServedOnSignedClaims` and in the other for `FreshTokenIsAccepted`.

For any requests of a worker, any middleware of each, any pages and limits within a word, with or
without overflow checks (`LocalsAssumption`):

| Theorem | |
|---|---|
| `ReadsOwnLocals` | `[]ReadsAreOwn` |

`ReadsAreOwn` is about reads that have happened; what makes it inductive is where the values are now.
`SlotOK`: the slot has the value of the request that is polled in its scope, and is unset if
there is none.  `KeptOK`: every other scope keeps its own value, and a scope that is
polled keeps what it found in the slot, nothing.  So a swap at either end of a poll, an
end by panic or cancellation included, leaves the slot unset.  `OwnIs` has the numbers: a parsed value is
never the mark for an unset slot.

What it took.  Each inductive invariant was first an invariant of the component's run.
`SessionHandle!Leave` filters the queue by a definition of its own, since the
prover knows nothing of the recursion that `SelectSeq` is.  `OrphanedOnlyByLoss` turned out to hold also where
it had been excused by an expiry, and now says so.  The bounds of the guards (`MaxTime`, `MaxExpiries`,
`MaxNow`) are constants of the theorems like any other.

Only model-checked: the liveness properties `EveryAttemptSettles` and `NobodyHangs` (liveness
under fairness, and ENABLED, are out of the prover's reach).  Every invariant and every action
property of a passing run is a theorem, and so is every refinement.  No module uses RECURSIVE.

## Not modelled

- `pubkey.rs`, `locals/provider.rs`, PEM parsing: an endpoint that returns an environment
  variable, a trait without an implementation, and the cryptography of another crate.
- The contents of `Filters`: which value wins when a path parameter and a query field have
  one name.  No stage decides anything by them.
- Reading permission tables from files, and the syntax of route patterns (`ResourceDef`).
- `Authority::check`, which the crate does not call; its arithmetic is that of `authority()`.
- Header and body bytes: which headers survive a rebuild is prose above.
- `Context::publish`: it attaches the context to an event, awaits one call of the event stream
  and logs an error.  How the context comes about is in `Pipeline`.
- The stores and jsonwebtoken are external: their promises are modelled,
  their code is not.

## Plan

Done: coalescing and idempotency with proofs, their composition, and the abstract
specifications of both; limiter; sessions between requests and within one; cache, its store
and how stale it gets; pipeline; tokens; task-locals.

The safety of every module is proved.  What is left is `Pipeline` with a stage more than once
in a chain: `Place` and the times in `entered` go by the name of a stage, and the proofs by
`PipelineAssumption`, which has the stages of a chain distinct.
