# A formal model of the Open Banking API backend

TLA+ modules for the backend in `src/src` (NestJS, Postgres through TypeORM, Redis,
RabbitMQ), model-checked with TLC and, for the central properties, proved with
TLAPS. Everything is translated from the code; where the code and its own
documentation disagree, a run shows the disagreement.

Contents: [the system](#the-system), [the modules](#the-modules),
[the runs](#the-runs), [bounds, fairness and abstractions](#bounds-fairness-and-abstractions),
[what is proved](#what-is-proved), [findings](#findings),
[what is not modelled](#what-is-not-modelled), [plan](#plan).

## The system

One stateless-looking NestJS process, of which the gateway may run several. What is
shared lives outside the process; what is in the process is lost with it.

| component | state it keeps | operations | hard behaviour |
|---|---|---|---|
| Payment endpoints (`payment.controller.ts`, `idempotency.interceptor.ts`) | two kinds of entries of an in-process cache; `lock:<key>` in Redis (NX, EX 60); `idempotent_requests` (unique key) | `initiatePayment`, `scheduleFuturePayment`, `reversePayment`, each behind the interceptor | retries on other instances, crashes, answers lost by Redis, Postgres and RabbitMQ, commands the Redis client sends twice, locks that expire or that a restart of Redis forgets |
| Saga orchestrator (`saga.orchestrator.ts`, `saga.repository.ts`) | `saga_executions`, `saga_steps`, the handler map | `startSaga`, `executeNextStep` (recursive, inside its own `try`), `compensateSaga` | errors that run back through every frame of the recursion, compensation of a compensated saga, crashes half way |
| Consent and tokens (`consent.service.ts`, `auth.service.ts`, `auth.controller.ts`) | `consent_requests`, `authorization_codes`, `refresh_tokens` | `createConsentRequest`, `processConsent`, `exchangeCodeForToken`, `refreshToken` | reads used after an await, two decisions or two redemptions at one time, an error between two writes |
| Account guard (`account-consent.guard.ts`) | none; reads `consent_requests` | `canActivate` | a row several requests may have written to |
| Payment and consent saga (`saga/sagas`) | none; step handlers are stubs | `initiatePayment`; the consent saga has no caller | |
| Event producers and consumers | RabbitMQ | `emit`; five `@EventPattern` handlers that `main.ts` never connects | an emit that throws although the broker has the event |
| Audit log (`audit-logger.service.ts`, `logging.interceptor.ts`) | `audit_logs`, a chain of hashes | `log`, called by the consent service and, for every answer of success, by the interceptor | the last entry is read one await before the next is written, by a timestamp of the caller's clock; a rejected promise nobody awaits ends the process |
| Registry (`registry.service.ts`), twice in a process | a map of participants | `onModuleInit`, hourly `syncParticipants`, `getParticipant` | overlapping syncs, a directory that never answers, a response read in part |
| `IdempotentPaymentService`, twice (`common/services`, `modules/payments`) | `idempotent_requests` with a status | `processPayment` (nothing calls it yet) | look-up and INSERT without a lock, a catch block that overwrites `completed` |
| Problem details (`problem-details.filter.ts`) | none | `catch`: the status of an error | which of two errors of one request is reported |
| Nested JWTs, gateway trust, JWKS, PKCE, wiring | keys and configuration | stateless | start-up order of the encryption key |

How they interact: the gateway forwards requests with the TPP's access rules; the
interceptor wraps the payment handlers; `initiatePayment` calls
`PaymentSaga.initiatePayment`, which calls `startSaga` and then emits
`PAYMENT_INITIATED`; the orchestrator emits saga events; `processConsent` awaits the
audit log, and so does `createConsentRequest`; behind every handler the global
`LoggingInterceptor` writes another entry after the answer; the guard of the accounts
endpoints reads the row `processConsent` wrote; the registry answers the consent page
and the gateway; `ProblemDetailsFilter` turns what handlers throw into a status.
Concurrency is that of Node: code between two awaits runs alone in its process, and
everything may happen between two of them, in this process or another.

What makes each component correct:

* payments: one payment per key, whatever is retried, lost or restarted; an answer of
  success is backed by a row and an event; equal keys get equal results; the lock
  excludes as long as nothing takes it away, and comes free; a conflict is reported only
  where there is one, or to a request that met its own lock;
* saga: COMPLETED means that every step took effect; steps in order and once;
  compensation undoes what was done, the latest first, once; every error ends somewhere;
* audit log: what happened is on record, the chain refers to what exists, and an entry
  cannot vanish unnoticed where the code does give that;
* registry: what is served is never older than what the process started with, and
  catches up with the directory;
* `processPayment`: one result per key; row, event and answer agree;
* consent and tokens: one code per consent; no scope nobody ticked; a code or refresh
  token works, and works once; a list of accounts opens only what an approval listed.

`PROJECT.json` lists every component with its status, and every hazard at its line.

## The modules

| module | what it is |
|---|---|
| `PaymentController` | interceptor, three handlers, caches, lock, row and event, on several instances |
| `IdempotentOperation` | what `openbanking.yml` promises of the `Idempotency-Key`; `PaymentController` implements it (`KeepsPromise`) |
| `SagaOrchestrator` | one call of `startSaga`, await by await, the recursion as a set of frames |
| `SagaContract` | all or nothing, or reported; `SagaOrchestrator` implements it (`KeepsContract`) |
| `Authorization` | consent, code, tokens and the guard |
| `AuditLog` | `log()` and its callers, on several instances |
| `RegistrySync` | one `RegistryService`, its HTTP client and the directory |
| `IdempotentPayment` | `processPayment` of both services; implements `IdempotentOperation` too |
| `MCPaymentController`, `MCSagaOrchestrator`, `MCAuthorization`, `MCAuditLog`, `MCRegistrySync`, `MCIdempotentPayment` | the small instances |
| `PaymentControllerProofs`, `AuthorizationProofs`, `AuditLogProofs`, `RegistrySyncProofs`, `IdempotentPaymentProofs` | the theorems about the module of that name |
| `PaymentLockProofs` | the lock, and what the interceptor's cache remembers; extends `PaymentControllerProofs` |
| `SagaOrchestratorProofs`, `SagaContractProofs` | the recursion; then compensation, the contract and the descent of the recursion |

One action is the code between two awaits, its guard the conditions and early returns
on the way, and every call that leaves the process can fail in two ways: before and
after it took effect. Operators whose comment begins with "Mutant" are wrong
versions of the definition that follows them; each property is known to notice one.

### PaymentController

`pc[r]` is the await at which the handling of request `r` stands.

| code | action |
|---|---|
| `IdempotencyInterceptor.intercept` | `KeyMissing`, `Replay` (a hit answers before guards and handler), `NoReplay`, `Deliver` (the tap and the response) |
| `requireAccessRule`, amount and date checks | `Refuse` |
| `cacheManager.get('idempotency:<key>')` | `InitiateHit`, `InitiateMiss` |
| `redis.set(..., 'NX', 'EX', 60)`, payment id | `AcquireLock`, `LockTaken`, `LockFails` |
| `idempotentRepo.save` | `Persist`, `UniqueViolation` (on to `duplicate`), `PersistFails` |
| `paymentSaga.initiatePayment` | `Emit`, `EmitFails` (for this caller `startSaga` returns `''` and does nothing) |
| `cacheManager.set`, return | `CacheResponse` |
| catch: `redis.del`, rethrow | `Release` (a unique violation is told as a conflict, unless Redis fails as well) |
| `ProblemDetailsFilter.catch` | `StatusOf`, `Failure` |
| `scheduleFuturePayment`, `reversePayment` | `ScheduleOrReverse`, then `Emit`/`EmitFails` |
| ioredis sends a SET or a DEL again whose answer was lost | `SetLost`, `DelLost`: the command takes effect, the request keeps waiting |
| Redis restarts (no volume in `docker-compose.yml`) | `RedisRestarts` |
| death of a process, time | `Crash`, `LockExpires`, `HandlerCacheExpires`, `ReplayCacheExpires`, `Tick` |

`handlerCache` and `replayCache` are per instance (`CacheModule.register` keeps them in
memory); `lock`, `rows` and `events` are shared. `promised` is history: the successes
that equal requests had been given when this one arrived. `took` is history too: the
requests whose SET took effect. `redis.provider.ts` leaves ioredis at its defaults, so a
SET whose answer was lost with the connection is sent again and is answered `null`
because of the request's own lock: `LockTaken` then gives it a 409 without a rival
(`MetOwnLock`). A DEL that is sent again may take away the lock of a successor.

### SagaOrchestrator

`pc` is the next await of the one call, `frames` the steps whose `try` block is active.
`Raise` is a `throw`: it goes to the innermost frame's catch block (`MarkFailed`,
`MarkCompensating`, `compensateSaga`) or rejects the promise. `Found` is
`findSagaByBusinessId` as it is called: with the execution's id, through a connection
that does not see an open transaction. `applied` and `undone` count what handlers did;
a step in `alarmed` was published as `SAGA_COMPENSATION_FAILED`.

### Authorization

| code | action |
|---|---|
| `GET /auth/authorize` → `createConsentRequest` | `Authorize` |
| `processConsent`: `findOne` and the three checks | `FindConsent`, `ConsentRefused` |
| `consentRepository.save(consent)` | `SaveSelect`, `SaveUpdate` (TypeORM reads the row again and updates the columns that differ: `Merged`) |
| `authCodeRepository.save(authCode)` | `InsertCode` |
| `auditLogger.log`, return | `LogDecision` |
| any of these awaits rejects, or the process dies there | `DecisionFails`; the UPDATE or INSERT it waited for is refused, or takes effect then or later: `DecisionLands` |
| both grants: `findOne` and checks | `FindCredential`, `CredentialRefused` |
| `used = true` / `revoked = true`, `save` | `Spend` |
| `issueRefreshToken`, return | `Issue` |
| any of these awaits rejects, or the process dies there | `TokenRequestFails`, `TokenRequestLands` |
| `AccountConsentGuard.canActivate` | `CanActivate` (a state predicate) |
| `expiresAt` | `Expire` |

A code is named by the decision, a refresh token by the token request that created it.
`raced` is history: the consents, codes and tokens about which two requests were in
flight at one time, where a request is in flight as long as a statement of it may still
take effect, even if its client was told of an error. The code has no protection there
(a code presented twice at one time is exchanged twice), so `OneCodePerConsent` and
`SpentOnce` leave those subjects out and say what holds for all others, crashes, errors
and retries included. `ScopeWasApproved`, `FreshCredentialAccepted` and the first half of
`ReadsWereApproved` need no such exclusion: whatever overlaps or lands late, a consent
that lists accounts opens only accounts that an approval of it listed. Of the scope in
the row this cannot be said. Four decisions that overlap, two of them denials, can end
with an approved row that has the scope the TPP asked for, ticked by nobody, because
`save` writes the columns that differ from what it read: TLC finds this with four
decisions and not with three.

### AuditLog

`pc[r]` is the await at which request `r` stands, `stage[r]` says whether it is in the
call of `log()` its handler makes or in that of the interceptor's `tap`.

| code | action |
|---|---|
| `createConsentRequest` up to its `log`, `processConsent` up to its writes, any other handler | `Arrive` |
| the handler's own writes | `Write`, `WriteFails` |
| `log`: timestamp, `createHash` | `BeginLog`, `Hash` |
| `getLastHash` | `ReadLast` (the greatest timestamp, any of several) |
| `auditRepository.save`, return to the caller | `Insert` |
| the response and `tap(async ...)` | `Answer`, part of the step that ends the handler |
| an await of `log` rejects | `LogFails` in a handler, `TapFails` in the tap |
| a process dies, an INSERT nobody waits for | `Die`, `Crash`, `Settle` |

Requests of one kind send equal data, so that two of them in one millisecond have equal
hashes (the hash does not cover `previousHash`). `quiet` is history: the calls of
`log()` that overlapped no other one and whose timestamp was later than every entry.
The code promises a chain; overlapping calls, equal timestamps and clocks that differ
fork it, and an entry nobody points at can be removed unnoticed. What remains true
is `QuietEntriesAreChained`, and that no honest history looks like a forged one
(`ReferencesExist`).

### RegistrySync

A participant's entry is represented by its age: absent, the mock's, or the version of
the directory it was copied from (`SetAll` copies, and never deletes). `Ask` is
`syncParticipants` up to its await, `Apply`, `ApplyInPart` (an element that is no
object makes `forEach` throw) and `SyncFails` its three ends; `OnModuleInit` awaits the
first one, `Interval` starts the others and awaits none. `timed` chooses one of the two
services of the process: AuthModule's client has a timeout of 10 seconds, RegistryModule's
has none. axios's timeout ends a request the directory does not answer, but not one
whose body trickles in; `prompt` says that all requests of a timed service do end
within the hour, and only then its syncs cannot overlap (`MayOverlap`). RegistryModule
is global and Nest awaits its hook before AuthModule's: `ahead` is that hook, and
`OtherStarts` its end, which nothing guarantees.

### IdempotentPayment

| code | action |
|---|---|
| `findOne` and the two checks | `Replay`, `AlreadyProcessing`, `NotFound` (also for a row that says `failed`) |
| `save(request)`, result | `Insert`, `UniqueViolation`, `FindOrInsertFails` |
| status `completed`, `save` | `Complete`, `CompleteFails` |
| `emitPaymentCompleted`, return | `Announce`, `AnnounceFails` |
| catch: status `failed`, `save` | `Fail`, `FailFails` |
| `emitPaymentFailed` (`common/services` only), rethrow | `AnnounceFailure` |
| death of a process | `Die`, call by call |

## The runs

| run | what it checks | instance |
|---|---|---|
| `payments_faults` | `TypeOK`, `AtMostOneInitiation`, `SuccessIsBacked`, `SameKeySameResult`, `MutualExclusion`, `ConflictHasRival`, `IInv` | 3 requests, 1 key used for all three endpoints, 2 instances, clock 0..1; every fault, then Redis (restarts included), Postgres and slow work, then everything that leaves a lock with its holder; 1.4 million states up to symmetry |
| `payments_replay` | `LocalReplayReturnsOriginal`, `LocksAreFreed` (fair), `KeepsPromise` | 3 requests of which some are refused or have no key, 1 instance; every fault but restarts and losses of the cache, then those two with errors of Redis, Postgres and RabbitMQ; 295 000 states |
| `saga_faults` | `TypeOK`, `CompletedMeansApplied`, `StepsInOrder`, `CompensatedOnce`, `IInv`, `Terminates` (fair), `KeepsContract` | 4 steps, every kind of call, every set of registered handlers; every fault, every one but the database's, and those `SagaContract` allows for; 111 000 states |
| `authorization` | `TypeOK`, `OneCodePerConsent`, `ScopeWasApproved`, `SpentOnce`, `FreshCredentialAccepted`, `ReadsWereApproved`, `IInv` | 1 consent, 2 decisions, 3 token requests, 2 clients, 2 scopes, 2 accounts, approvals that list one account or none, errors of every await, statements that land late; 1.6 million states up to symmetry |
| `audit_log` | `TypeOK`, `QuietEntriesAreChained`, `ReferencesExist`, `DecisionsAreOnRecord`, `IInv`, `SuccessIsAudited` (fair) | 2 requests of 3 kinds (4 calls of `log()`), 2 instances, clock 0..1, errors, crashes, clocks that differ; 343 000 states |
| `registry_sync` | `TypeOK`, `ServesDirectory`, `IInv`, `NeverOlder`, `StartsUp`, `CatchesUp` (fair) | 2 participants, one of the mock, 2 syncs, 3 versions of the directory, 1 restart, either service, requests that end within the hour or not; 169 000 states |
| `idempotent_service` | `TypeOK`, `EventsMatchRows`, `OwnSuccessIsAnnounced`, `KeepsPromise` | 4 calls, 2 keys, either service, clock 0..1; 194 000 states up to symmetry |
| `replay_loses_original`, `schedule_twice`, `saga_never_runs`, `reads_unlisted`, `consent_retry` | one documented claim each, violated: see [findings](#findings) | the smallest instance that shows it |

Where a property holds only without some fault, the fault is a variable that `Init`
chooses from `FaultSets`, and the property names it: `MutualExclusion` (`LockMayGo`:
"slow", "resend", "redisLoss"),
`LocalReplayReturnsOriginal` (restarts), `CompensatedOnce` ("db"), `KeepsContract`
("db", "broker"). The same run then checks everything else under all of them.

## Bounds, fairness and abstractions

Bounds. Interference needs two requests with one key, and a third to come after both
(a retry after a conflict or a crash), on two instances. The clock (`MaxClock`) has to
tell two payment ids apart. Compensation differs from execution from two
steps on; three and four steps give an error in every frame and a compensation with a
step before and after it. A consent needs two decisions (one to race with or to follow
the other); a code needs one request to redeem it, one to present it again or to
rotate the token, and a third to present the rotated token. In the audit log two requests
make four calls of `log()`, two of which can overlap, with a third and a fourth before
and behind them; two timestamps order entries, and equal ones do not. A sync is
overtaken by one other; three versions of the directory make an overtaken answer
older than both the first and the last one. Under one key a call, its rival, a
replay and a retry of a failed payment are four calls of `processPayment`. Nothing else
in these models counts.

Fairness. `FairSpec` of `PaymentController` has weak fairness of each request's handler
(an await that has been answered is resumed by the event loop) and of `LockExpires`
(Redis expires keys; one that restarts frees them sooner). `FairSpec` of
`SagaOrchestrator` has weak fairness of `Progress`: handlers, Postgres and RabbitMQ
answer, with an error or without. `FairSpec` of `AuditLog` has weak fairness of each
request's `Handle`: an await is answered, be it by an error. `FairSpec` of
`RegistrySync` has weak fairness of `OnModuleInit` (Nest calls it, when it is its turn),
of `Interval` (the timer fires) and, where requests end in time (`prompt`), of their end
(`Ends`). It assumes nothing of the directory and not that the hook of the other service
ends. What cannot do without that has a premise that says so: `StartsUp` that every
request ends, `RequestsEnd`, or, for a timed service, that the hook ahead of its own
has ended; `CatchesUp` that syncs repeated for ever are now and then answered, and
applied as a whole, `Reachable`.
None assumes anything of clients, crashes or clocks.

Abstractions, chosen so that the model allows at least what the code does where nothing
else is said:

* A handler of a saga step that throws has had no effect, and likewise a compensation;
  the four handlers of the repository are stubs.
* The cache-manager of the process is a map: its `set`s are done with the turn of the
  event loop that starts them. `300` is milliseconds in the installed version, so
  `HandlerCacheExpires` may come at once; the interceptor's entries last for 24 hours,
  and `ReplayCacheExpires` is part of the fault "cacheLoss".
* Payment ids are `Date.now()`: two of them may be equal, and the model lets the clock
  stand still.
* `LockExpires` takes a lock from a request that is still at work only under the fault
  "slow". A lock may also go because Redis restarts ("redisLoss", with any part of its
  keys) or because a DEL is executed twice ("resend").
* The one thing the payment model leaves out here: a command to Redis whose sender has died
  or given up is executed at once or never. Executed later, such a SET is a lock that
  expires, and such a DEL does what a repeated one does.
* The engine of the orchestrator runs only for a business id equal to the generated
  execution id; the model keeps both kinds of callers (`BusinessIds`).
* What one `save` of TypeORM writes is one step (it is one transaction); the SELECT
  before it is a step of its own.
* A request of `Authorization` begins with its first read: before it, it has touched
  nothing. A process that dies there leaves the same rows as an await that rejects.
* `ProblemDetailsFilter` is modelled for the errors the payment handlers throw; the body
  of a problem is left out.
* In `AuditLog` everything a handler awaits besides `log()` is one step with one
  outcome; that step's inside is `Authorization`. A rejected promise nobody awaits ends
  the process, as Node does from version 15 on.
* `backupToColdStorage` is an empty method and no step.
* `RegistrySync` leaves out what an entry says: only which version it was copied from.
  A process that is started again gets a new map. That an hour passes is the step
  `Interval`; an answer may take any time where there is no timeout.
* In `IdempotentPayment` calls die one by one, which covers the death of a process with
  any set of them.
* Expiry is followed only while somebody may still ask for it.
* Scopes and accounts are sets; ids and codes are names. Access tokens are signed
  without leaving the process and stay out of the model.

## What is proved

For every number of requests, keys, instances, steps, consents, clients, syncs and
versions, every choice of inputs and every set of faults, TLAPS checks:

| theorem | module |
|---|---|
| `TypeCorrect`, `Inductive`, `OneInitiation`, `Backing`, `OneResult`, `LostKeys`, `PromiseKept` | `PaymentControllerProofs` |
| `LockInductive`, `Exclusion`, `Rivalry`, `LocalReplay` | `PaymentLockProofs` |
| `TypeCorrect`, `Inductive`, `Completion`, `Order` | `SagaOrchestratorProofs` |
| `UndoneOnce`, `ContractKept`, `LeftoversReported`, `UnfoundNeverRuns`, `Descent` | `SagaContractProofs` |
| `TypeCorrect`, `Inductive`, `OneCode`, `ApprovedScopes`, `SpentAtMostOnce`, `ApprovedReads`, `FreshAccepted`, `TryingAgain`, `StrandedForGood` | `AuthorizationProofs` |
| `TypeCorrect`, `Inductive`, `Chain`, `References`, `OnRecord` | `AuditLogProofs` |
| `TypeCorrect`, `Inductive`, `Serving`, `Monotone` | `RegistrySyncProofs` |
| `TypeCorrect`, `Inductive`, `Announced`, `OwnSuccess`, `LostKeys`, `PromiseKept` | `IdempotentPaymentProofs` |

Assumptions are those the modules state (`ASSUME`): the absent value is none of the
others, inputs are of their types, `N` is a positive number, fault sets name known
faults. The runs evaluate them.

*Payments.* `AtMostOneInitiation` is not inductive: two requests past the INSERT would
break it in the next step. `IInv` adds that only the owner of a key's row is past its
INSERT (`RowsOwned`), that an event is what its request is working with, published
under a row it owns (`EventsOwned`), and that whatever a cache holds or a request
delivers was published first (`ResultsBacked`). Neither lock nor cache appears in the
argument: the unique index alone makes the promise hold. `PromiseKept` maps each step
to a step or a stutter of `IdempotentOperation`, where the only non-stutters are
arrivals, the publication of an initiated payment and answers of success. `LostKeys` is
the price: `UsedUp` (a row whose request ended without its event) is closed under every
step, because only the owner of a row publishes and nothing deletes a row.

*The lock.* `MutualExclusion` is not inductive either: a request may still be in its
`try` block when the lock is gone. `LockInv` adds that, unless `LockMayGo`, whoever is in
the block holds the lock (`HoldersHold`), which the catch block of another request could
only break by being in the block at the same time. `ConflictHasRival` holds under every
fault and says what a 409 can mean: a rival with the same key whose SET took effect, or
the request's own SET, sent again. It needs that every lock and every row goes back to
a request that took the lock (`LocksTaken`, `RowsTaken`), also when that request has died
or Redis has forgotten the lock since, that only a repeated SET leaves its request
waiting (`TakersMoveOn`), and that a request that met the unique index is not itself the
owner of the row (`DuplicatesHaveRivals`).

*The interceptor's memory.* What was promised to a request was told to a client
(`PromisesGiven`), and what was told to a client is in the cache of its instance
(`Stored`), if that keeps its memory; so a request that was promised something never
gets past the interceptor (`PromisesMet`). The entry it finds is some success of its
key, and with `SameKeySameResult` the promised one. This is why
`LocalReplayReturnsOriginal` speaks of keys used for `POST /payments` only: under a key
that another endpoint uses as well, the entry is the response that was delivered last,
and TLC has a counterexample.

*Saga.* As long as nothing has been thrown, the rows and the counters are determined by
the current step (`Forward`); after the first error no handler runs again, and a
compensation runs only while the row says COMPENSATING (`Backward`). The delicate case
is an error after the saga was marked COMPLETED: it reaches the frames around it, whose
first write is COMPENSATING.

*Compensation.* `CompensatedOnce` rests on what the rows tell (`RowsTell`): a step whose
row says COMPLETED has run once and was not undone, and a step is on the list of a
compensation only as long as its row says so. A second compensation, one frame further
out, therefore finds only what the first did not get to. `ContractKept` needs in
addition that at every label everything in effect is still to be undone, has just been
done or has been reported (`Accounted`); the same invariant gives `LeftoversReported`: where
database and broker answer, a failed saga leaves nothing in place unreported. With a
broker that refuses `SAGA_STEP_COMPLETED` it would, as the step is then marked FAILED and
compensation looks for COMPLETED; but no caller gets that far, since a business id would
have to be the execution id that `startSaga` has yet to generate. `UnfoundNeverRuns` is
that finding, `saga_never_runs`, as a theorem: a business id that is not the execution's
own id runs nothing, for any number of steps.

*Descent.* `Terminates` is liveness and stays with TLC, but what makes it true is
proved: every step lowers a tuple of six natural numbers in lexicographic order (the
steps left to walk, the awaits left in the current one, the frames, the stage of the
catch block, the steps still to be undone, the awaits left of one of them). Together with `Progress` being always possible until the
end, which is what the fair run checks, no call goes round for ever.

*Authorization.* Two requests in flight about one unraced subject are one request
(`Alone`). Hence what a decision has read is still what the row says (`Undisturbed`),
so its UPDATE makes the row its entity, no code was there before its own, and whoever
spends a credential is the first (`SpendersFirst`). Rows, codes and tokens go back to
the form of a decision (`RowsWereApproved`, `CodesKnown`, `TokensKnown`). That a list of
accounts is the whole list of one approval survives every merge of two decisions, since
a denial and an approval without a list carry on the list they read (`AccountsKnown`).
`FreshAccepted` adds that whatever is spent was presented (`FreshInv`), with no
exclusion of races. `TryingAgain` is the claim that `consent_retry` refutes, proved for a
database that answers: a consent that is no longer pending has a decision that was
answered or is about to be (`DecidedInv`). `StrandedForGood` says what happens
otherwise: a consent decided without an answer has nobody left who can write its row.

*Audit log.* A quiet call is alone until its entry is there, and younger than the whole
table (`QuietAlone`); so whoever read the table afterwards read the quiet entry's hash,
or another entry pointed at it before (`PendingChained`), and this survives an INSERT
that arrives late. `ReferencesExist` rests on `PendingReferences`: entries are never
deleted, so what a pending INSERT refers to stays. `DecisionsAreOnRecord` needs that an
"authorize" reaches its save only behind its entry (`RecordsPrecede`).

*Registry.* Two syncs in flight know of each other (`OverlapsKnown`), and the answer to
a sync that is alone is not older than anything in the map (`AnswersAreNew`). The first
sync was alone (`FirstAlone`), and no sync brings anything older than it did. `Monotone` is an action property from the same invariant.

*processPayment.* The INSERT makes the caller the owner of the row for good
(`RowsKnown`, `WorkersKnown`); events and answers repeat what the row says
(`EventsKnown`, `AnswersKnown`), also once it says `failed`. A row that says `failed`, or
`processing` of a call that has ended, has lost its only writer (`LostKeys`). `PromiseKept` maps the
first UPDATE that gets through to the only step in which `IdempotentOperation` decides
on a result.

Every safety invariant, action property and refinement of the passing runs is a theorem.
Only model-checked: `LocksAreFreed`, `Terminates`, `SuccessIsAudited`, `StartsUp` and
`CatchesUp` (liveness under fairness, out of the prover's reach). New inductive
invariants (`UndoInv`, `ContractInv`, `FreshInv`, `DecidedInv`, `MemoryInv`) are defined in
the modules of proofs; TLC agreed with each before it was proved.

## Findings

Runs that end in a violation, each of something the repository says of itself:

* `replay_loses_original`: a retry that reaches another instance is answered 409, by the
  lock or, once that has expired, by the unique index, and not with the original result
  (`openbanking.yml:2440`). No second payment is made.
* `schedule_twice`: `POST /payments/pift/schedule` publishes one key's payment twice.
* `saga_never_runs`: `executeNextStep` looks the execution's id up as a business id; no
  step is ever executed for the ids callers pass.
* `reads_unlisted`: the description of the statement endpoint (`openbanking.yml:1016`)
  requires a consent "whose `accounts` list includes `accountId`"; an approval that lists no
  account is stored without a list, and the guard then lets every account through.
* `consent_retry`: the page says "Please try again", but an approval that failed after
  its UPDATE has left a consent that no retry can complete.

Seen while modelling, without a run of their own: the interceptor replays a
response to a different body or endpoint under the same key (`openbanking.yml:2778`
promises 409); a request slower than 60 seconds outlives its lock (the model has it as
"slow", and only the index prevents a second payment), and Redis may lose one before; a
SET that ioredis repeats is answered 409 because of the request's own lock; `payment.controller.ts:102`
starts a saga without an EntityManager, so that none is created; the PKCE challenge is
checked for presence, dropped by `createConsentRequest` and never verified; the guard's
"expired" never looks at `expiresAt`; codes and refresh tokens are spent twice when presented twice at one time;
`main.ts` connects no microservice, so no event is consumed. Of the audit log: calls of
`log()` that overlap, or share a millisecond, fork the chain; `previousHash` is not
hashed; a record the interceptor cannot write ends the process. Of the registry: the
"optional" first sync (`registry.service.ts:31`) is awaited by a service whose client has
no timeout and whose hook Nest awaits first, so that a directory that accepts the
connection and does not answer keeps the other service from syncing and the application
from listening, which is why `StartsUp` needs its premise;
participants are never removed. Of `processPayment`, should it be called: a retry of a
failed payment passes the look-up and is refused by the unique index, so it never
succeeds; a call that dies in between leaves its key in `processing` for ever; a replay
may be answered with a success that the broker then refuses and the row calls a failure;
a call that dies before its event leaves a payment that replays confirm and nobody
announced.

## What is not modelled

Pure functions of libraries (JWT, JWE, JWKS, PKCE hashes), the bodies of problems, HTML,
DTO validation, Swagger and configuration: nothing there changes state. The nested JWTs'
`initializeKeys` is not awaited at start-up, but no route is behind their middleware.
Gateway trust is one stateless comparison; its access rules are the refusals of
`PaymentController`. Code nobody calls: the consent saga (an instance of
`SagaOrchestrator` with other stubs) and `generateAuthorizationCode`. The event
consumers, which nothing starts and whose effects are stubs. `PROJECT.json` has a line
for each.

## Plan

Done, in this order: payments, saga, authorization, the audit log, the registry,
`processPayment`, the lock's proofs, the contract and the boundaries of the findings.
From here:

1. Proofs: the remaining boundary of a finding, `schedule_twice` (which histories publish
   one scheduled payment per key); the descent of the other components, as for the saga.
2. An abstract grant (`Grant`: a PSU's approval, spent step by step) that
   `Authorization` implements for subjects that do not race; composition of
   `Authorization` with `AuditLog`.
3. Events: at-least-once delivery to the consumers, should they be started.
