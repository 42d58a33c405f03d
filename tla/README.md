# Verification of the Companion

TLA+ models of `uppy-companion-multi-brand`: an Express service that embeds
`@uppy/companion`, signs S3 uploads for several brands, authenticates every
request against the brand's own *whoami* endpoint, and forwards finished
uploads to the partner's media library. It runs on two or more replicas that
share one Redis and nothing else. Paths below are relative to the repository.

## 1. The system

| Component | State it keeps | Operations | Talks to |
|---|---|---|---|
| whoami circuit breaker, `src/modules/auth/whoami-breaker.ts` | three Redis keys per brand: `failures`, `open`, `probe`, each with a TTL | `isOpen`/`tryHalfOpen`, `recordSuccess`, `recordFailure` | Redis |
| session resolver, `src/modules/auth/session-resolver.ts` | the cached user of each cookie, Redis, 45 s | `resolveSession`, nine ordered steps | breaker, cache, partner's whoami |
| auth middleware, `src/modules/auth/auth.middleware.ts` | `req.user`, `req.sessionResult` | `attachUser`, `requireAuth` | resolver |
| S3 controller, `src/modules/companion/s3/s3.controller.ts` | none of its own; S3's multipart uploads and objects | sign, create, sign part, list parts, complete, abort | S3, stash, ingest client |
| upload metadata stash, `src/modules/companion/ingest/upload-meta.store.ts` | one Redis key per upload, 24 h | stash, read | Redis |
| ingest client, `src/modules/companion/ingest/ingest.client.ts` | none | one POST, one retry | partner's ingest endpoint |
| browser uploader, `src/modules/companion/uppyModal.ts` | Uppy's files | multipart callbacks, thumbnails, the final account for the parent frame | S3 controller, S3, parent frame |
| S3 key builder, `s3.key-builder.ts` | none | sanitise, clamp, build | |
| brand identity and overrides, `src/modules/brand/identity.ts` | environment | host allowlist, override merge, validated targets, user mapping | resolver, folders, ingest |
| brand detection and registry, `src/modules/brand/*` | the registry built at boot | host to brand, the forced brand | request pipeline |
| brand secrets, `src/lib/secrets.ts`, `src/lib/aws/s3Client.ts` | the secrets read at boot | read from environment or AWS, warm, finalize | AWS Secrets Manager |
| request pipeline, `src/server.ts` | rate limiter counters in Redis | limiters, brand resolution, sessions, dispatch, probes | everything above |
| upload page and assets, `uppy.routes.ts`; folders proxy, `folders.service.ts` | none | the page, its plugins, the brand's folders | brand's folders endpoint |
| companion factory, `companion.factory.ts`; CORS, CSP, `src/core/` | a Companion instance per brand | providers, redirect URIs, origins | `@uppy/companion` |
| process lifecycle, `src/index.ts`, readiness in `src/server.ts` | the shutdown flag, a timer | start, drain, forced exit | server, Redis |
| configuration, logging, `scripts/` | none | parse, report | |

How they interact. A request passes the global limiter, is given a brand by
its host, and `attachUser` resolves its session: cookie, target, breaker,
cache, whoami. `requireAuth` turns the resolution into a refusal where a user
is needed. The browser creates a multipart upload (the create handler stashes
what the complete handler will need, maybe on another replica), puts the parts
to S3 directly, and asks to complete; the complete handler consumes the upload
at S3, checks the stored object, and posts it to the partner inside the same
request. Everything shared between requests is in Redis, S3 or at the partner,
one command at a time: there are no locks and no transactions.

What is hard, and where:

* *Interleaving*: breaker commands of callers on all replicas; two handlers of
  one upload after a lost answer.
* *Time*: three TTLs, a cooldown, a fetch timeout and the lag of Redis, whose
  order decides whether one or two callers probe.
* *Failure*: a replica that stops between two commands; Redis commands that
  reject; S3 answers that are lost after S3 acted; posts that take effect after
  the companion gave up on them.
* *Staleness*: a cached user whose session has ended; an `open` key read before
  it is stamped again; a declared size that is not the size.

* *Boot*: secrets fetched and resolved brand by brand, any of which may fail;
  overrides merged at boot and again per request.
* *Shutdown*: a signal while requests run on kept-alive connections and
  upgraded sockets, a readiness probe under way, an exit with a deadline.

The properties that make each component correct are listed with the runs
below; `PROJECT.json` lists the hazards one by one, each at its line.

## 2. Modules

| Module | What it is |
|---|---|
| `WhoamiBreaker` | the breaker of one brand: keys, TTLs and callers. It is also the abstract specification of what the resolver may do to the breaker |
| `CircuitBreaker` | the abstract circuit breaker (closed, open, half-open, who may call), which `WhoamiBreaker` and `SessionResolver` implement |
| `SessionResolver` | extends it: the resolution of a request, the cache, the partner |
| `MultipartUpload` | create, complete and abort, the stash, the ingest call, the browser |
| `UploadPromise` | the abstract specification of an upload, which `MultipartUpload` implements |
| `ObjectKeys` | the S3 key of an upload and the check of who owns a key, as operators |
| `RequestPipeline` | extends it: the middlewares of `assembleApp` and what is behind them |
| `FixedWindow` | the abstract rate limiter, which both limiters of `RequestPipeline` implement |
| `Lifecycle` | one process from its start to its exit |
| `Brands`, `Registry` | what is computed from one brand's configuration; the brands of the code |
| `BrandBoot` | extends `Brands`: a replica's boot, from its environment to the brands it serves |
| `MC*` | instances for TLC: model values, symmetry, inputs |
| `*Proofs` | the theorems of `WhoamiBreaker`, `SessionResolver`, `MultipartUpload`, `ObjectKeys`, `RequestPipeline`, `Lifecycle`, `BrandBoot` |

How they fit together. `SessionResolver` contains the breaker. The pipeline
takes the resolver by its results (what leads to them is `SessionResolver`)
and the handlers of an upload by the key they sign (what they do with it is
`MultipartUpload`). What a boot serves (`BrandBoot`) is what the pipeline looks
hosts up in; an exit of `Lifecycle` is the crash of the others.

### WhoamiBreaker

One step is one Redis command with the code that runs on its reply, up to the
next `await`. `pc[c]` is the command caller `c` issues next:

| Code | Action |
|---|---|
| `isOpen`: `GET open`, the two early returns, the cooldown comparison | `CallIsOpen`, `GetOpen` |
| `tryHalfOpen`: `SET probe NX EX` | `SetProbe` |
| the guarded call reports success, failure, or nothing | `CallRecordSuccess`, `CallRecordFailure`, `ReturnUnreported` |
| `recordSuccess`: `DEL` of the three keys | `Del` |
| `recordFailure`: `INCR`, `EXPIRE` when 1, `SET open EX` from the threshold on | `Incr`, `Expire`, `Stamp` |
| a replica stops, or a command rejects | `Abandon` |
| time | `Tick` |

Time is discrete. `failuresTTL`, `openTTL`, `probeTTL` are what the keys have
left; `openAge` is `Date.now()` minus the stamp, which is read when the command
is *issued*, so a delayed `SET` stores an old stamp. `Tick` is blocked while a
caller has used up its allowance (`RedisLag` per command, `WorkLimit` for the
guarded call): that is how bounded waits are stated. The two history variables
(`oldest`, `fresh`) read the protocol and never guard it. The counter stops at
the threshold, since the code compares it with 1 and the threshold only.
Replicas' clocks are taken to agree.

`CircuitSpec` reads this state as `CircuitBreaker` does. The circuit is closed
without an `open` key, open while the key is younger than the cooldown and
half-open after it (`CircuitState`). *Calling* are the callers at the guarded
call or at a report, *probing* the one of them that holds the slot, *invited*
those on their way to `SET NX` that read an elapsed cooldown. Two replicas are
visible through it in one place, which the abstract module says openly: an
invited caller whose circuit was closed meanwhile (`DEL`, or the key's safety
TTL) is a *straggler* and may still take the free slot. A report that does not
stamp is a departure, whose first commands are stutters.

### SessionResolver

Adds `step[c]`, where the resolution is, and reuses the breaker's actions
inside its own: `PassGate` is `isOpen`'s commands plus the fail-fast,
`Report` is `recordSuccess`/`recordFailure` plus what follows them. Steps 1 to
3 of the code are `RejectLocally` and `Resolve`; 5 is `ReadCache`; 6 to 9 are
`PartnerAnswers`, `Receive` and `FetchFails`; then `Report`, the email gate in
`Accepted`, `WriteCache` and `Respond` (`attachUser`). What the code treats
alike is one answer: redirects, every status but 200 and 401, an oversized,
unparsable or unmappable body are `"failure"`. `BreakerCommandFails` is a breaker command that rejects
and takes the whole resolution with it; cache commands that fail are swallowed,
as in the code. The partner is up or down, and each cookie's session there is
valid, unverified, revoked, or *unusable*: answered with a 403, say, or with a
user the brand's mapping refuses (`normalizeBrandUser`), which the code counts
as a failure of the partner although it is up. All of this changes at any
time.

### MultipartUpload

Every request is a handler `r` working on an upload `of[r]`, at a place
`at[r]`, one step per `await`. The browser (`phase`, `waiting`, `outcome`)
sends the next request when an answer is lost, while the first handler still
runs. Each upload has an S3 multipart upload, parts known only by whether their
size and type are within the brand's limits, a stash, and a key, `KeyOf`. A
key's object is the file whose parts it was last completed from, and the
partner's library has a row per key. A brand has no ingest step, an unusable one (target or token
rejected), or a working one.

| Code | Action |
|---|---|
| `createMultipartUpload` | `S3Create`, `Stash` |
| `completeMultipartUpload`, line by line | `S3Complete`, `ReadMeta`, `Head`, `PostIngest` |
| `recordIngestedFalse` | `Signal` within them |
| `attemptIngest`, `postIngest` | `Confirmed`, `Skipped`, `Failed`, the retry in `PostIngest` |
| `abortMultipartUpload` | `S3Abort` |
| `uppyModal.ts` callbacks | `SendCreate`, `UploadParts`, `SendComplete`, `Cancel`, `ReceiveCreated`, `ReceiveCompleted` |
| network, replicas, partner | `LoseAnswer`, `Discard`, `Crash`, `StashExpires`, `LateIngest`, `GiveUp` |

Losses, errors and crashes draw on one budget, `MaxFaults`.

`PromiseSpec` reads the same state as `UploadPromise` does: the verdict is
`outcome`, what is stored and listed is read off the objects and the library.
One step of the promise may be several of the code, and none of the code's
steps, faults included, is anything else. It says, step by step, that a counted
file is stored and listed and that a failed one is signalled.
`EveryOrphanCostsAFault` says what it does not: of a brand that forwards its
files, a stored file that is in neither the library nor the signals, and that no
handler is working on, has a fault of its own to blame, cancelled and abandoned
files included.

### ObjectKeys

A text is a sequence of characters. `UserKeyPrefix`, `KeyOwned`, `Clamped` and
`BuiltKey` are `buildUserKeyPrefix`, the test in `sendIfKeyNotOwned`,
`clampFilenameToBudget` and `buildS3Key`; the date's fields are one text, the
word `original` one character.

### RequestPipeline

Each request is at a place `at[r]`, the middleware it is about to enter; one
step is one middleware up to its `await` or `next()`. Between two of them any
other request, on any replica, may move.

| Code | Action |
|---|---|
| the global limiter, then `GET /brands`, brand by host | `GlobalLimiter` with `LetThrough`, `Admit`, `ListBrands` |
| its `skip` of two paths (`Exempt`): `GET healthz`, `GET readyz`, and every other method on them | `Probe`, `SkipLimiter` |
| `express-session` | `LoadSession` |
| `attachUser`, then `corsForBrand` and the dispatch by path | `AttachUser` with `Behind` |
| the route limiter per brand and user | `RouteLimiter` |
| `requireAuth` | `RequireAuth` |
| `serveUppyPage`, `fetchFolders` | `ServePage` |
| `serveUppyModalJs`, `serveUppyCss` | `ServeAsset` |
| the S3 router | `Sign`: `SignNew` makes a key, `UseKey` takes the client's |
| the brand's Companion | `Companion` |
| windows of the counters | `Tick` |

A limiter's Redis command may fail before or after it counted; `express-session`
and `attachUser` may fail too. `granted` keeps the key an answer signed, the
user the resolver accepted and how the key came about; `admitted`, `passed`
(the requests under way that the global limiter counted), `asked` and
`chargedBy` are history: no guard reads them.

Two places are wider than a first reading suggests. The global limiter does not
stand behind `healthz` and `readyz`: it skips their *paths*, and only `GET` has
a handler there, so a request with another method (path `"health"`) goes on
uncounted to the brand lookup, the session and `attachUser`. And of the S3
endpoints Companion mounts under `/s3` only those that start an upload ask
`getKey` (`"built"`); the later ones of a multipart upload take the key the
client names (`"named"`), behind `requireAuth` and without the ownership test of
this service's own handlers (`"checked"`).

`LimitersSpec` reads both limiters as a `FixedWindow`: what is spent is what the
global limiter let through (`admitted`) and what the route limiter counted up to
its limit (`Charged`; it counts refused requests too). A failing store may charge
without letting pass, never the reverse.

### Lifecycle

`phase` is the process's, `link[c]` and `handler[c]` the connection of a client
and what runs for it. Every timer of the code is a deadline: `Tick` is blocked
while one is due.

| Code | Action |
|---|---|
| `start`, `listen` | `Start`, `Listen` |
| clients, and Node's keep-alive | `Connect`, `Upgrade`, `Request`, `Finish`, `Disconnect`, `CloseIdle` |
| `readyz`: the flag, `checkRedis` and `checkS3` with their timeouts | `Readyz`, `EndCheck`, `AnswerReadyz` |
| `shutdown` | `Shutdown`, with `StopListening`, or `CloseUnbound` when the signal comes before the port is bound; the callback of `server.close` is `ServerClosed`, `closeRedis` then `process.exit` is `CloseRedis` |
| the ten-second timer | `ForceExit` |
| `uncaughtException` | `UncaughtException` |

`server.close` on a server that is not bound yet is an error: the process goes
from `"binding"` to `"failing"`, closes Redis at once and exits with 1; the port
may still be bound and a client connect before that. Every other graceful exit
is with 0.

### Brands, Registry, BrandBoot

`Brands` has the pure parts: the override merge (`EffectiveAuth`), the gate in
front of every URL a cookie or a token is sent to (`ValidUrl`) and the targets
behind it, the pages that may call with credentials, the tabs, the wired
providers. The pages are two lists: `MayCall` is `corsForBrand` on `/api`,
`MayCallCompanion` the `corsOrigins` handed to the brand's Companion, that is
the registry's `domains`. A host is the sequence of its labels. `Registry` is the code's registry, field by field as far as something
depends on it. `BrandBoot` boots a replica:

| Code | Action |
|---|---|
| `deriveEnv` | `DeriveEnv` |
| `warmAwsBrandSecretsCache` | `Warm` per brand, `Warmed` |
| `createServer`: `assertBrandForceIsServable`, `resolveBrand` for every servable brand (`Raw`, `Finalizable`, `Credentials`) | `CreateServer` |
| orchestrator and operators | `Restart`, `Redeploy`, `Rotate` |

A secret is abstracted to where it comes from (the brand's own, the global one,
the registry), which is what the merge decides.

## 3. What the runs check

| Run | Result | Question |
|---|---|---|
| `breaker` | holds | `SingleProber`: one caller at a time works with the probe slot. `NoAdmissionDuringCooldown`: nobody is let in while the cooldown runs, a caller that read the key before it was stamped again included. `CounterWithinWindow`: no failure is counted longer than a window. `CircuitSpec`: keys, TTLs and interleaved commands together implement `CircuitBreaker` |
| `breaker_crash` | **violated** | `CounterWithinWindow` when a caller may also be cut off between `INCR` and `EXPIRE` |
| `breaker_probe` | **violated** | `FailedProbeRestartsCooldown`, the comment beside `FAILURE_WINDOW_SECONDS` |
| `resolver` | holds | `BoundedStaleness`: an ended session authenticates nobody after the cache's TTL, one fetch and two commands. `OutagesDateFromAFailure`: no mixture of ended sessions, malformed cookies, unverified users and crashes opens the circuit or refuses anybody; cooldowns, lost or taken probe slots and refused requests all date from an answer that failed, within the marker's TTL, one fetch and three commands (the bound is exact: one unit less and TLC finds a refusal outside it). `BreakerSpec`: the resolver refines the breaker |
| `resolver_live` | holds | `EveryRequestDecided`; `ServedAgain`: once the partner answers properly again a valid user is served again, whatever the keys were left with |
| `resolver_probe` | **violated** | `ProberReportsBack`: a cache hit ends a probe without a report |
| `resolver_reject` | **violated** | `AttachUserNeverRejects` when a breaker command rejects |
| `upload` | holds | `LibraryHoldsOnlyCheckedObjects`; `EveryOrphanCostsAFault`: nothing is lost in silence without a fault, and one fault loses one file at most; `UploadsSettle`: a lost answer does not become a retry loop; `PromiseSpec`: the handlers implement `UploadPromise`, so a file the browser reports as added is what the bucket holds, and in the library, and one it reports as failed has its signal |
| `upload_collision` | **violated** | `LibraryHoldsOnlyCheckedObjects` for two files that `buildS3Key` gives one key |
| `pipeline` | holds | `PartnerShielded`: one whoami per request at most, none for a request the global limiter did not count (the two exempt paths apart), and a window's limit of requests per address, over all replicas and with Redis failing. `OwnBudget`: a user's counter holds that user's requests at that brand only. `GrantsInOwnFolder`: keys are signed for accepted users only, and one that was built or checked here lies in the folder of that user and of no other. `EveryRequestAnswered`, except under a breaker command that rejects (that is `resolver_reject`). `RefusalsEnd`: an address that keeps sending is let through again. `LimitersSpec`: both limiters are fixed windows, whatever Redis loses |
| `lifecycle` | holds | `TypeOK`: flag, timer, Redis and phase agree. `ServedToTheEnd`: an exit cuts off a connected client's request only when the grace is over or an exception ends the process. `ReadyLagBounded`: how late after a signal a probe still says ready, though Redis or S3 never answers it. `ShutdownEnds` |
| `boot` | holds | `ServesAllOrNothing`; `HostsFindTheirBrand`; `CredentialsStayInApex`: where overrides may send cookies and tokens, and which pages may call /api and Companion with credentials; `OneCookieName`: the resolver and the folders read one cookie although they merge the override at different times; `WiredIsUsable`: what is wired has a tab and keys, and a brand without plugins and keys imports nothing from elsewhere; `PairsAreWhole`; `CompleteServes`: a complete environment ends up serving |

The violated ones are disagreements between a comment and the code; each is a
finding in `PROJECT.json` with both places quoted. A lost TTL or an unreported
probe costs availability for a while; a rejecting Redis command leaves a request without an answer, and
a shared key loses a file that was reported as added.

Each run that holds is also run against a mutated definition, or two, per property (in
`PROJECT.json`, "mutants"; the operators stand beside the originals, e.g.
`SetProbeWithoutNX`), and the property must then fail.

### Bounds

* `breaker`: four callers, so that a prober, the next prober, a late failure
  and a late success can overlap. Durations are small numbers in the order of
  the code's (`WorkLimit + 3 RedisLag < ProbeLock < OpenDuration < Window <
  SafetyTTL`; 5 s, 10 s, 30 s, 60 s, 300 s in the code), with a `RedisLag` of a
  tick. Threshold 3 is the code's. `breaker_crash` and `breaker_probe` use the
  code's durations in ticks of five seconds.
* `resolver`: two callers, one cookie, threshold 2 (the smallest with a count
  between 1 and the threshold's), `RedisLag` 0, crashes and rejections
  anywhere; both values of each brand setting. `resolver_live` has shorter
  durations and no crash, since a replica that stops answers nobody.
* `upload`: one file (files with keys of their own share nothing but the
  handlers and the faults, and the theorems cover any number), three handlers,
  which allows a lost complete, its retry and an abort at once, three faults.
  `upload_collision`: two files, two handlers, no fault.

* `pipeline`: two requests, so that every pair of middlewares interleaves (one
  request finishing while another is refused needs no third); a request of every
  path, with another method on a probe's path among them; users `1` and
  `12`, whose ids are prefixes of one another, user `1` at two brands, one
  address that everybody shares; the keys a client names are one in each user's
  folder; limits of one and windows of two and one
  ticks, so that both limiters refuse and recover; one Redis failure, anywhere.
* `lifecycle`: two clients, one to be served while the other probes, upgrades
  or hangs up. Redis' probe timeout is shorter than S3's, as in the code, and
  the grace is longer than either.
* `boot`: the registry of the code. The environments (`MCBrandBoot`) vary one
  group of settings at a time: source and forced brand, overrides of two brands
  (usable, foreign, unusable, on protected fields), key pairs whole, half and
  missing, provider keys for edo's Facebook tab and for a provider without a tab
  (so that edo is wired for Facebook in some states, and abe is local only in
  some). The pages that call lie below the apexes, on the brands' own domains,
  and elsewhere. Two changes allow a rotation during a boot and a redeployment.

The theorems below remove the bounds from every safety property that holds.

`CHECK_DEADLOCK FALSE` is said for the uploads (a settled upload has nothing
left to do), the lifecycle (a process that exited stays so) and the boot (a
serving replica does nothing once the changes are used up).

### Fairness

`resolver_live`: every request's own next step is weakly fair (Node runs every
continuation; ioredis answers or rejects each command within its retries);
users keep sending each cookie, strongly fair because an instance has few
slots; time passes. The last needs a word: `Tick` is disabled while an instant
is still busy, and with unlimited requests per instant it could be for ever, so
the assumption includes that instants end.
`upload`: handlers run to their end, and a browser with something to
complete asks again; nothing forces a crash, a loss or a late effect.
`pipeline`: every middleware runs on, and Redis' clock; requests need never
come, and a client need not leave.
`lifecycle`: timers fire and time passes (strongly fair, because a `Tick` waits
for deadlines that requests keep setting). Handlers, clients and Redis are not
assumed to end anything: `ShutdownEnds` rests on the ten-second timer alone.
`boot`: a boot runs to its end and the orchestrator starts a process that ended
again. Faults are budgeted, or a fetch could fail at every boot.

## 4. What is proved

TLAPS proves, for any number of callers, cookies, files, handlers and faults,
and any durations in the order `DurationsAssumption` states:

| Theorem | Statement |
|---|---|
| `TypeCorrect`, `OneProber`, `CooldownHolds` | `TypeOK`, `SingleProber`, `NoAdmissionDuringCooldown` of the breaker, crashes anywhere |
| `FailuresAgeOut` | `CounterWithinWindow`, provided no caller is cut off at `EXPIRE` |
| `BreakerImplementsCircuit`, `ResolverImplementsCircuit` | `CircuitSpec`: the breaker implements `CircuitBreaker`, alone and under the resolver |
| `ResolverImplementsBreaker`, `ResolverKeepsBreakerPromises` | the resolver refines the breaker, hence keeps its promises |
| `ResolverTypeCorrect`, `OnlyFailuresOpenTheCircuit`, `LogoutIsFinal` | `ResolverTypeOK`, `OutagesDateFromAFailure`, `BoundedStaleness` |
| `RecoveryTakesBoundedTime`, `CounterIsForgotten` | `RecoveryIsBounded`: by the time since the partner last failed, no failure is reported any more, no cooldown refuses, the circuit is closed. `FailuresAreForgotten`: the counter is gone, provided no caller is cut off at `EXPIRE` |
| `ResolutionsAdvance`, `EveryHandlerMovesOn`, `UploadHandlersRunDown` | requests and handlers have no way back: each of their steps brings them nearer to their answer, and nobody else's takes them away from it |
| `UploadTypeCorrect`, `LibraryBoundary`, `AccountIsTrue` | `TypeOK`, `LibraryHoldsOnlyCheckedObjects`, `CountedMeansStored`; the last two as long as no two files share a key |
| `UploadKeepsItsPromise` | `PromiseSpec`: `MultipartUpload` implements `UploadPromise`, under the same condition |
| `FailuresAreSignalled`, `OrphansCostFaults` | `EveryFailedFileIsSignalled`, `EveryOrphanCostsAFault`, with shared keys too; the latter for finitely many files |
| `RetriesArePaidFor` | `RetriesCostFaults`: a complete call ends in an error, and is sent again, only where a fault hit it |
| `OwnersDisjoint`, `BuiltKeyFits` | a key has at most one owner; a built key lies in its user's folder and is no longer than 255 characters where folder and date leave eight |
| `PipelineTypeCorrect`, `PartnerIsShielded`, `BudgetsAreOwn`, `GrantsStayInTheFolder` | `TypeOK`, `PartnerShielded`, `OwnBudget`, `GrantsInOwnFolder` of the pipeline, for any limits, windows, users and keys; the exempt paths and Companion's own multipart routes are in the statements |
| `LimitersAreFixedWindows` | `LimitersSpec`: both limiters implement `FixedWindow` |
| `LifecycleTypeCorrect`, `ClientsAreServed`, `ReadyzEndsInTime`, `ReadyLag` | `TypeOK`, `ServedToTheEnd`, `ReadyzIsTimely`, `ReadyLagBounded` |
| `RedisOutlivesRequests` | Redis is open for every request of a connected client |
| `ShutdownsRunDown` | `ShutdownRunsDown`: between the signal and the exit time only runs down |
| `BootTypeCorrect`, `AllBrandsOrNone`, `HostsAreRouted`, `CredentialsAreConfined`, `CookieNamesAgree`, `WiringIsUsable`, `KeyPairsAreWhole` | the invariants of `boot`, for any registry whose brands share no host and any environments |
| `OnlyFaultsEndACompleteBoot` | `CompleteBootsFailByFaults`: no check refuses a complete environment, unless its secrets were rotated after they were fetched |
| `OverrideIsIdempotent` | merging an override twice is merging it once, in every field |

Where a theorem names a property that is no run's, it is proved only:
`RecoveryIsBounded`, `FailuresAreForgotten`, `ReadyzIsTimely`, the two that
`PromiseSpec` implies (`CountedMeansStored`, `EveryFailedFileIsSignalled`) and
the statements that stand in the `*Proofs` modules.

The arguments:

* *One prober* (`ProbeInv`). Two callers hold the slot at once only if the
  slot expires under the first. `LockHeld` says that what is left of the slot
  and what the prober may have used of it cover the whole slot; with
  `DurationsAssumption` the slot outlives the work. A caller that won it before
  the last `recordSuccess` is no prober (the `DEL` freed the slot on purpose),
  which is what `fresh` records.
* *Cooldown* (`CooldownInv`). `Readers`: a caller on its way to the slot read a
  cooldown that is still elapsed, or has been restarted by a prober, whose slot
  outlasts this caller's `SET NX`. `Strangers`: a caller at work without a slot
  was admitted while the key was absent, so an `open` key it may stamp again is
  no older than its work, and no reader is waiting for that one.
* *Circuit*. The mapping takes a step of the keys to a step of the circuit; the
  invariants of *one prober* and *cooldown* are what makes each abstract guard
  true: a `SET NX` that succeeds finds nobody probing, and an invited caller that
  wins finds the circuit half-open, or closed since. `Stamp` is a `Trip` since
  its caller was let through before, and a key that runs out of its TTL was
  half-open, since the safety TTL is longer than the cooldown. The resolver
  needs nothing new: it implements the breaker.
* *Failures age out* (`CounterInv`). A counter without a TTL has a caller at
  `EXPIRE`, within `RedisLag` of the oldest failure; a counter with one is no
  older than the window minus what is left.
* *Failures only* (`FailureInv`, `RefusalInv`). A failed answer, an `INCR` and a
  stamp under way each bound the time since the partner was failing, by the
  waits so far. A refusal has one of three causes: a failed answer, a cooldown,
  and a slot somebody else has. The last two were read off a marker that still
  had its TTL, and reach the slot at most one command later, which is what the
  bound on refusals adds up.
* *Recovery* (`FailureInv` with the breaker's bounds on age and TTL,
  `MemoryInv`). How long the partner has been healthy is at most the age of any
  report, stamp or counter it left behind, plus the fetch and the commands on
  the way; each of these ends by itself. `MemoryInv` adds that a counter without
  a TTL has a caller at `EXPIRE`, which is why that caller must not be cut off.
* *Logout* (`StaleInv`). A cached entry, an accepted answer and a pending cache
  write each bound the time since the partner vouched for the cookie, by the TTL
  left and the waits so far.
* *Uploads* (`UploadInv`, `Checked`, `AccountInv`). The library boundary needs
  that a handler at its ingest call has seen an object within the limits, and
  that a key's object never changes once it is there, which is where
  `DistinctKeys` is needed: `upload_collision` shows that it cannot be left out. The account needs the meaning of each answer:
  `ingested` implies an entry in the library, `no_ingest` a brand without one
  and an object, and every other 200 a signal or a thumbnail.

* *Orphans* (`OrphansStep`, `OrphansBounded`). A file becomes an orphan when the
  last handler that would forward it stops without an entry or a signal, and the
  steps where that happens are those with a `Fault`: S3's error after it acted,
  or a crash. Each concerns one handler, hence one file; so the number of orphans
  grows no faster than the faults.
* *Retries*. `S3Complete` takes `NoSuchUpload` for a success, so a complete that
  is asked again fails only where S3, the replica or the connection does.
* *Promise* (`AccountInv`, `Checked`). Each step of the code maps to `Store`,
  `Forward`, `Settle` or a stutter; that a verdict is backed is the account.
* *Keys*. Two owners of one key agree on the key's characters from the end of
  the brand's folder on; the shorter id would end where the longer one has a
  slash, and an id has none.
* *Pipeline* (`PipelineInv`). `AdmittedAreCounted` holds because a store that
  fails lets nobody pass; `Attached` says a request's user is its own cookie's,
  and that a request at or behind the session passed the limiter or is on an
  exempt path; `AskedOnce` that only `attachUser` asks; `GrantedOwn`, with `OwnersDisjoint`,
  gives the folder.
* *Fixed windows* (`WindowsCount`). A counter without a window is empty, so the
  first hit opens one and what is spent ends with it. Each middleware then is a
  `TakeHit` of one source or a stutter, and the clock an `Elapse` or a stutter.
* *Lifecycle* (`LifecycleInv`). The flag, the timer and the phase tell the same
  story (`Phases`), and a probe that runs after the signal is as old as the
  signal at least (`ProbesBeforeSignal`), which bounds its late answer.
* *Boot* (`IInv`). What a replica serves is what its environment and its cache
  resolve to, and neither changes while it serves; every property is then one
  of `ResolveBrand`, that is of the merges in `Brands`.

* *Complete boots* (`WarmedBeforeCreation`). What `Complete` asks of the
  environment is what the checks of the boot ask of it and of a warm cache that
  is up to date.
* *No way back*. A rank per place (`Ahead`) that each step of the request lowers
  and no other step raises; for a shutdown the rank is its timer.

Left to TLC: liveness under fairness (`EveryRequestDecided`, `ServedAgain`,
`UploadsSettle`, `EveryRequestAnswered`, `RefusalsEnd`, `ShutdownEnds`,
`CompleteServes`), and the violated properties. The provers have no rule for
`ENABLED`, so a proof cannot say that a fair action stays enabled until it is
taken. What is proved of these properties is their safety half: nothing puts a
request, a handler, a retry, a boot or an exit back, no hit extends a window, and
the breaker's keys outlast a recovery by a bounded time only. That the steps are
taken is what TLC checks. Induction over data is not needed: no definition is
recursive.

## 5. Not modelled, and why

* The validation of parts and the pages `listParts` reads: refusals before the
  first effect, and reading.
* Which of 401, 403 and 503 a refusal of `requireAuth` is: the pipeline has one
  refusal. Requests that fail validation are answers without a grant.
* Which files share a key: `KeyOf` is any function in `MultipartUpload`. The
  run `upload_collision` gives two files one key, which unpadded fields down to
  the millisecond allow.
* The folder, name and declared size in the stash: only the thumbnail flag
  decides anything. A missing stash turns a thumbnail into a library entry, and
  a post that takes effect late leaves a signal for a file that has its row;
  both are listed as hazards and contradict no property here.
* `createBrandMiddleware` and `requireBrand`: mounted nowhere.
* ioredis resends; a resent `INCR` counts twice. Commands run at most once here.
* Clock differences between replicas.
* The page's text and its escaping, the content security policy, number coercion
  of the configuration, upload URLs, logging: formatting.
* `@uppy/companion` itself: remote providers, its own Redis sessions, sockets.

Known differences between the code and what one might expect, which no run
settles: with half a key pair set for a brand the S3 client mixes it with the
global one; the page names the brand's first host as its
server on every host it is served from; during a rolling deployment a page may
load another build's asset under its own version; a handler whose client hung
up is not waited for at a graceful exit.

Disagreements between a comment and the code that were read off the models
without a run of their own (their consequences are part of the properties):

* `server.ts:337-343` says the global limiter covers "every route in the app
  except the two exempted below", and `env.schema.ts:52-60` presents it as the
  bound on whoami fetches; `skip` exempts the two paths whatever the method, so
  `POST /api/healthz` on a brand's host reaches `attachUser` uncounted.
* `registry.ts:56` says abe's `domains` are "allowed to embed /uppy
  (frame-ancestors) and call the API (CORS)"; `corsForBrand` derives the API's
  callers from the first allowed host, `www.abeduls.com`, and wants a subdomain
  of it, which none of the four domains is. Companion's own CORS admits all four.
* `uppy.routes.ts:58-66` means to show no "tab [...] with no working OAuth backend
  behind it"; with Google, Dropbox or Facebook keys and no listed plugins (abe)
  the fallback shows tabs for which `buildProviderOptions` wires nothing, and
  edo's listed `Facebook` tab has no backend when its keys are missing.

## 6. Plan

Done: the breaker, the resolver, the uploads with their promise, the keys, the
pipeline, the lifecycle and the boot, each with its proofs. Left, in this
order:

1. The browser uploader's batches: several files of one account, thumbnails
   uploaded after their files, the message to the parent frame.
2. The lifecycle composed with the uploads. `EveryOrphanCostsAFault` bounds
   what is lost by one file per handler cut off; left is how many handlers an
   exit cuts off, since `server.close` does not wait for those whose client hung
   up.
3. Replicas that serve with secrets read before and after a rotation.
4. `listParts` over pages and the validation of parts.
5. To prove: the signals of `EveryFailedFileIsSignalled` composed with the
   drain, and the refinement of `UploadPromise` for files that share a key, as
   far as it holds.
