-------------------------- MODULE PaymentController --------------------------
(***************************************************************************)
(* The idempotent payment endpoints: IdempotencyInterceptor around         *)
(* PaymentController's three POST handlers, running on several instances   *)
(* of the service.  An instance has its own in-process cache, in which the *)
(* interceptor and the handler keep separate entries; all instances share  *)
(* Redis (the locks), Postgres (idempotent_requests) and RabbitMQ.         *)
(*                                                                         *)
(* One action is the code between two awaits.  The startSaga call inside   *)
(* PaymentSaga.initiatePayment is here what it is for this caller, which   *)
(* passes no EntityManager: it returns '' and touches nothing (module      *)
(* SagaOrchestrator models the rest).                                      *)
(***************************************************************************)
EXTENDS Naturals, FiniteSets

CONSTANTS Requests,   \* the HTTP requests clients send
          Keys,       \* the Idempotency-Key values they use
          Instances,  \* the processes behind the gateway
          Calls,      \* what a request may ask for, see CallType
          MaxClock,   \* Date.now() runs over 0 .. MaxClock
          FaultSets,  \* what may go wrong together, see FaultKinds
          None        \* no key, no owner

(* "slow": work that outlives its lock; "resend": the Redis client sends a *)
(* command again whose answer was lost with the connection, as ioredis     *)
(* does unless told otherwise; "redisLoss": Redis restarts without a disk. *)
FaultKinds == {"crash", "redis", "db", "broker", "slow", "cacheLoss", "resend",
               "redisLoss"}

Endpoints == {"initiate", "schedule", "reverse"}

(* A call is what the client sends, the refusal its access rules and the   *)
(* checks of its content lead to, if any, included; a reversal has neither. *)
CallType ==
    {c \in [key : Keys \cup {None}, endpoint : Endpoints, body : {"a", "b"},
            refusal : {"none", "forbidden", "unprocessable"}] :
        c.endpoint = "reverse" => c.refusal = "none"}

Statuses == {"none", "ok", "conflict", "forbidden", "unprocessable", "failed"}

Times == 0 .. MaxClock

Replies == [status : Statuses, endpoint : Endpoints, id : Times]

EventTypes == {"PAYMENT_INITIATED", "PAYMENT_REVERSED"}

Events == [type : EventTypes, req : Requests, id : Times]

ASSUME RequestsAssumption == None \notin Requests /\ None \notin Keys
ASSUME CallsAssumption == Calls \subseteq CallType
ASSUME ClockAssumption == MaxClock \in Nat
ASSUME FaultsAssumption == FaultSets \subseteq SUBSET FaultKinds

VARIABLES faults,        \* what goes wrong in this behaviour
          call,          \* what each request asks for
          node,          \* the instance the gateway sends it to
          pc,            \* where its handling stands
          pid,           \* the time stamp its payment id is made of
          reply,         \* what its client was answered
          handlerCache,  \* per instance, `idempotency:<key>` entries
          replayCache,   \* per instance, the interceptor's `<key>` entries
          lock,          \* the keys k with `lock:k` set in Redis
          rows,          \* idempotent_requests: the request that inserted a key
          events,        \* what was published to RabbitMQ
          clock,         \* Date.now()
          promised,      \* history: successes already answered to an equal call
          took           \* history: the requests whose SET took effect

remote == <<lock, rows, events>>
caches == <<handlerCache, replayCache>>
fixed == <<faults, call, node>>
vars == <<fixed, pc, pid, reply, caches, remote, clock, promised, took>>

Labels == {"new", "intercept", "handler", "lock", "persist", "emit", "cache",
           "release", "duplicate", "deliver", "done", "lost"}

NoReply == [status |-> "none", endpoint |-> "initiate", id |-> 0]

Success(e, t) == [status |-> "ok", endpoint |-> e, id |-> t]

(* ProblemDetailsFilter, of what the handlers throw: an HTTP exception     *)
(* keeps its status, a violation of a unique index is a conflict, other    *)
(* errors of the database and those of Redis and the broker are internal.  *)
StatusOf(error) ==
    CASE error \in {"forbidden", "unprocessable", "conflict"} -> error
      [] error = "unique violation" -> "conflict"
      [] OTHER -> "failed"

Failure(error) == [status |-> StatusOf(error), endpoint |-> "initiate", id |-> 0]

IsSuccess(x) == x.status = "ok"

Key(r) == call[r].key

Endpoint(r) == call[r].endpoint

Settled(r) == pc[r] \in {"done", "lost"}

Handled(r) == ~ Settled(r) /\ pc[r] # "new"

(* Between the SET of the lock and the end of the try block.               *)
InCritical(r) ==
    /\ Endpoint(r) = "initiate"
    /\ pc[r] \in {"persist", "emit", "cache", "release", "duplicate"}

(* Mutant: a type of its own for scheduled payments, which EventType lacks. *)
EventTypeOwnForSchedule(e) ==
    CASE e = "reverse"  -> "PAYMENT_REVERSED"
      [] e = "schedule" -> "PAYMENT_SCHEDULED"
      [] OTHER          -> "PAYMENT_INITIATED"

EventType(e) == IF e = "reverse" THEN "PAYMENT_REVERSED" ELSE "PAYMENT_INITIATED"

Init ==
    /\ faults \in FaultSets
    /\ call \in [Requests -> Calls]
    /\ node \in [Requests -> Instances]
    /\ pc = [r \in Requests |-> "new"]
    /\ pid = [r \in Requests |-> 0]
    /\ reply = [r \in Requests |-> NoReply]
    /\ handlerCache = [n \in Instances |-> [k \in Keys |-> NoReply]]
    /\ replayCache = [n \in Instances |-> [k \in Keys |-> NoReply]]
    /\ lock = {}
    /\ rows = [k \in Keys |-> None]
    /\ events = {}
    /\ clock = 0
    /\ promised = [r \in Requests |-> {}]
    /\ took = {}

Goto(r, label) == pc' = [pc EXCEPT ![r] = label]

(* The answer leaves the process and the request is over.                  *)
Finish(r, x) ==
    /\ Goto(r, "done")
    /\ reply' = [reply EXCEPT ![r] = x]

-----------------------------------------------------------------------------
(* IdempotencyInterceptor.                                                 *)

Arrive(r) ==
    /\ pc[r] = "new"
    /\ Goto(r, "intercept")
    /\ promised' = [promised EXCEPT ![r] =
           {reply[s] : s \in {q \in Requests : IsSuccess(reply[q]) /\ call[q] = call[r]}}]
    /\ UNCHANGED <<fixed, pid, reply, caches, remote, clock, took>>

KeyMissing(r) ==
    /\ pc[r] = "intercept"
    /\ Key(r) = None
    /\ Finish(r, Failure("conflict"))
    /\ UNCHANGED <<fixed, pid, caches, remote, clock, promised, took>>

(* A hit answers before the handler, its guard included, has run.          *)
Replay(r) ==
    /\ pc[r] = "intercept"
    /\ Key(r) # None
    /\ IsSuccess(replayCache[node[r]][Key(r)])
    /\ Finish(r, replayCache[node[r]][Key(r)])
    /\ UNCHANGED <<fixed, pid, caches, remote, clock, promised, took>>

NoReplay(r) ==
    /\ pc[r] = "intercept"
    /\ Key(r) # None
    /\ ~ IsSuccess(replayCache[node[r]][Key(r)])
    /\ Goto(r, "handler")
    /\ UNCHANGED <<fixed, pid, reply, caches, remote, clock, promised, took>>

(* Mutant: the tap forgets to store. *)
DeliverUnstored(r) ==
    /\ pc[r] = "deliver"
    /\ Finish(r, Success(Endpoint(r), pid[r]))
    /\ UNCHANGED <<fixed, pid, caches, remote, clock, promised, took>>

(* The handler has returned: the interceptor's tap stores the response and *)
(* the response is written, in the same turn of the event loop (the cache  *)
(* is a map in the process; nobody waits for the set).                     *)
Deliver(r) ==
    /\ pc[r] = "deliver"
    /\ Finish(r, Success(Endpoint(r), pid[r]))
    /\ replayCache' =
           [replayCache EXCEPT ![node[r]][Key(r)] = Success(Endpoint(r), pid[r])]
    /\ UNCHANGED <<fixed, pid, handlerCache, remote, clock, promised, took>>

-----------------------------------------------------------------------------
(* The handlers, up to the first call that leaves the process.             *)

(* requireAccessRule and the check of the amount or of the execution date. *)
Refuse(r) ==
    /\ pc[r] = "handler"
    /\ call[r].refusal # "none"
    /\ Finish(r, Failure(call[r].refusal))
    /\ UNCHANGED <<fixed, pid, caches, remote, clock, promised, took>>

(* Mutant: the id is generated before the cache is read, and answered. *)
InitiateHitNewId(r) ==
    /\ pc[r] = "handler"
    /\ Endpoint(r) = "initiate"
    /\ call[r].refusal = "none"
    /\ IsSuccess(handlerCache[node[r]][Key(r)])
    /\ Goto(r, "deliver")
    /\ pid' = [pid EXCEPT ![r] = clock]
    /\ UNCHANGED <<fixed, reply, caches, remote, clock, promised, took>>

InitiateHit(r) ==
    /\ pc[r] = "handler"
    /\ Endpoint(r) = "initiate"
    /\ call[r].refusal = "none"
    /\ IsSuccess(handlerCache[node[r]][Key(r)])
    /\ Goto(r, "deliver")
    /\ pid' = [pid EXCEPT ![r] = handlerCache[node[r]][Key(r)].id]
    /\ UNCHANGED <<fixed, reply, caches, remote, clock, promised, took>>

InitiateMiss(r) ==
    /\ pc[r] = "handler"
    /\ Endpoint(r) = "initiate"
    /\ call[r].refusal = "none"
    /\ ~ IsSuccess(handlerCache[node[r]][Key(r)])
    /\ Goto(r, "lock")
    /\ UNCHANGED <<fixed, pid, reply, caches, remote, clock, promised, took>>

(* scheduleFuturePayment and reversePayment take no lock and keep no row:  *)
(* they go straight to their event.  PaymentService's methods are stubs.   *)
ScheduleOrReverse(r) ==
    /\ pc[r] = "handler"
    /\ Endpoint(r) # "initiate"
    /\ call[r].refusal = "none"
    /\ Goto(r, "emit")
    /\ pid' = [pid EXCEPT ![r] = clock]
    /\ UNCHANGED <<fixed, reply, caches, remote, clock, promised, took>>

-----------------------------------------------------------------------------
(* initiatePayment from the lock on.                                       *)

(* Mutant: the SET without NX. *)
AcquireLockAnyway(r) ==
    /\ pc[r] = "lock"
    /\ lock' = lock \cup {Key(r)}
    /\ took' = took \cup {r}
    /\ Goto(r, "persist")
    /\ pid' = [pid EXCEPT ![r] = clock]
    /\ UNCHANGED <<fixed, reply, caches, rows, events, clock, promised>>

(* SET lock:<key> NX EX 60, and the payment id when it was free.           *)
AcquireLock(r) ==
    /\ pc[r] = "lock"
    /\ Key(r) \notin lock
    /\ lock' = lock \cup {Key(r)}
    /\ took' = took \cup {r}
    /\ Goto(r, "persist")
    /\ pid' = [pid EXCEPT ![r] = clock]
    /\ UNCHANGED <<fixed, reply, caches, rows, events, clock, promised>>

(* The lock may be another request's, or the one this request's own SET    *)
(* left when its answer was lost and it was sent again.                    *)
LockTaken(r) ==
    /\ pc[r] = "lock"
    /\ Key(r) \in lock
    /\ Finish(r, Failure("conflict"))
    /\ UNCHANGED <<fixed, pid, caches, remote, clock, promised, took>>

(* The SET throws, after Redis executed it or not: the client was told to  *)
(* send it again too often.  This is outside the try block, so the lock it *)
(* may have set stays.                                                     *)
LockFails(r) ==
    /\ "redis" \in faults
    /\ pc[r] = "lock"
    /\ \/ UNCHANGED <<lock, took>>
       \/ /\ Key(r) \notin lock
          /\ lock' = lock \cup {Key(r)}
          /\ took' = took \cup {r}
    /\ Finish(r, Failure("failed"))
    /\ UNCHANGED <<fixed, pid, caches, rows, events, clock, promised>>

(* Mutant: no unique index. *)
PersistAgain(r) ==
    /\ pc[r] = "persist"
    /\ rows' = [rows EXCEPT ![Key(r)] = r]
    /\ Goto(r, "emit")
    /\ UNCHANGED <<fixed, pid, reply, caches, lock, events, clock, promised, took>>

(* The INSERT; the unique index on idempotencyKey refuses a second row.    *)
Persist(r) ==
    /\ pc[r] = "persist"
    /\ rows[Key(r)] = None
    /\ rows' = [rows EXCEPT ![Key(r)] = r]
    /\ Goto(r, "emit")
    /\ UNCHANGED <<fixed, pid, reply, caches, lock, events, clock, promised, took>>

UniqueViolation(r) ==
    /\ pc[r] = "persist"
    /\ rows[Key(r)] # None
    /\ Goto(r, "duplicate")
    /\ UNCHANGED <<fixed, pid, reply, caches, remote, clock, promised, took>>

(* Mutant: every error of the save is taken for a violation of the index. *)
PersistFailsAsDuplicate(r) ==
    /\ "db" \in faults
    /\ pc[r] = "persist"
    /\ rows' \in {rows} \cup
           {[rows EXCEPT ![k] = r] : k \in {q \in {Key(r)} : rows[q] = None}}
    /\ Goto(r, "duplicate")
    /\ UNCHANGED <<fixed, pid, reply, caches, lock, events, clock, promised, took>>

(* The save rejects, and the row may be there all the same.                *)
PersistFails(r) ==
    /\ "db" \in faults
    /\ pc[r] = "persist"
    /\ rows' \in {rows} \cup
           {[rows EXCEPT ![k] = r] : k \in {q \in {Key(r)} : rows[q] = None}}
    /\ Goto(r, "release")
    /\ UNCHANGED <<fixed, pid, reply, caches, lock, events, clock, promised, took>>

(* EventProducer.emit, awaited; for the two endpoints that go through      *)
(* PaymentSaga.initiatePayment it is emitPaymentInitiated.                 *)
Publication(r) ==
    [type |-> EventType(Endpoint(r)), req |-> r, id |-> pid[r]]

Emit(r) ==
    /\ pc[r] = "emit"
    /\ events' = events \cup {Publication(r)}
    /\ Goto(r, IF Endpoint(r) = "initiate" THEN "cache" ELSE "deliver")
    /\ UNCHANGED <<fixed, pid, reply, caches, lock, rows, clock, promised, took>>

(* The broker's answer is an error, whether it has the event or not.       *)
BrokerError(r) ==
    /\ "broker" \in faults
    /\ pc[r] = "emit"
    /\ events' \in {events, events \cup {Publication(r)}}

(* Mutant: the broker's error is logged and forgotten. *)
EmitFailsSilently(r) ==
    /\ BrokerError(r)
    /\ Goto(r, IF Endpoint(r) = "initiate" THEN "cache" ELSE "deliver")
    /\ UNCHANGED <<fixed, pid, reply, caches, lock, rows, clock, promised, took>>

EmitFails(r) ==
    /\ BrokerError(r)
    /\ \/ /\ Endpoint(r) = "initiate"
          /\ Goto(r, "release")
          /\ UNCHANGED reply
       \/ /\ Endpoint(r) # "initiate"
          /\ Finish(r, Failure("failed"))
    /\ UNCHANGED <<fixed, pid, caches, lock, rows, clock, promised, took>>

(* cacheManager.set(`idempotency:<key>`, response, 300); the lock is left  *)
(* to its time to live.                                                    *)
CacheResponse(r) ==
    /\ pc[r] = "cache"
    /\ handlerCache' =
           [handlerCache EXCEPT ![node[r]][Key(r)] = Success("initiate", pid[r])]
    /\ Goto(r, "deliver")
    /\ UNCHANGED <<fixed, pid, reply, replayCache, remote, clock, promised, took>>

(* Mutant: the catch block deletes the row too, for a retry to succeed. *)
ReleaseRow(r) ==
    /\ pc[r] = "release"
    /\ lock' = lock \ {Key(r)}
    /\ rows' = [rows EXCEPT ![Key(r)] = None]
    /\ Finish(r, Failure("failed"))
    /\ UNCHANGED <<fixed, pid, caches, events, clock, promised, took>>

(* The catch block deletes the lock, whoever holds it by now, and throws   *)
(* what it caught, unless Redis gives it something else to throw.  This is *)
(* the DEL that is answered; DelLost stands for those before it.           *)
Release(r) ==
    /\ \/ /\ pc[r] = "release"
          /\ lock' = lock \ {Key(r)}
          /\ Finish(r, Failure("failed"))
       \/ /\ pc[r] = "duplicate"
          /\ lock' = lock \ {Key(r)}
          /\ Finish(r, Failure("unique violation"))
       \/ /\ pc[r] \in {"release", "duplicate"}
          /\ "redis" \in faults
          /\ lock' \in {lock, lock \ {Key(r)}}
          /\ Finish(r, Failure("failed"))
    /\ UNCHANGED <<fixed, pid, caches, rows, events, clock, promised, took>>

-----------------------------------------------------------------------------
(* The environment.                                                        *)

(* The process dies with its cache and the requests it was handling.       *)
Crash(n) ==
    /\ "crash" \in faults
    /\ pc' = [r \in Requests |->
                 IF node[r] = n /\ Handled(r) THEN "lost" ELSE pc[r]]
    /\ handlerCache' = [handlerCache EXCEPT ![n] = [k \in Keys |-> NoReply]]
    /\ replayCache' = [replayCache EXCEPT ![n] = [k \in Keys |-> NoReply]]
    /\ UNCHANGED <<fixed, pid, reply, remote, clock, promised, took>>

(* The connection breaks after Redis executed a command and before it      *)
(* answered: the request keeps waiting while the client connects again and *)
(* sends the command a second time.                                        *)
SetLost(r) ==
    /\ "resend" \in faults
    /\ pc[r] = "lock"
    /\ Key(r) \notin lock
    /\ lock' = lock \cup {Key(r)}
    /\ took' = took \cup {r}
    /\ UNCHANGED <<fixed, pc, pid, reply, caches, rows, events, clock, promised>>

DelLost(r) ==
    /\ "resend" \in faults
    /\ pc[r] \in {"release", "duplicate"}
    /\ lock' = lock \ {Key(r)}
    /\ UNCHANGED <<fixed, pc, pid, reply, caches, rows, events, clock, promised, took>>

(* Redis comes back with what it had on disk, if anything.                 *)
RedisRestarts ==
    /\ "redisLoss" \in faults
    /\ lock' \in SUBSET lock
    /\ UNCHANGED <<fixed, pc, pid, reply, caches, rows, events, clock, promised, took>>

(* Mutant: the SET without EX. *)
LockStays(k) == k \in lock /\ FALSE /\ UNCHANGED vars

(* EX 60 runs out: under somebody who is still working only when a minute  *)
(* is not enough for the work.                                             *)
LockExpires(k) ==
    /\ k \in lock
    /\ "slow" \in faults \/ ~ \E r \in Requests : InCritical(r) /\ Key(r) = k
    /\ lock' = lock \ {k}
    /\ UNCHANGED <<fixed, pc, pid, reply, caches, rows, events, clock, promised, took>>

(* 300 milliseconds.                                                       *)
HandlerCacheExpires(n, k) ==
    /\ IsSuccess(handlerCache[n][k])
    /\ handlerCache' = [handlerCache EXCEPT ![n][k] = NoReply]
    /\ UNCHANGED <<fixed, pc, pid, reply, replayCache, remote, clock, promised, took>>

(* 24 hours.                                                               *)
ReplayCacheExpires(n, k) ==
    /\ "cacheLoss" \in faults
    /\ IsSuccess(replayCache[n][k])
    /\ replayCache' = [replayCache EXCEPT ![n][k] = NoReply]
    /\ UNCHANGED <<fixed, pc, pid, reply, handlerCache, remote, clock, promised, took>>

Tick ==
    /\ clock < MaxClock
    /\ clock' = clock + 1
    /\ UNCHANGED <<fixed, pc, pid, reply, caches, remote, promised, took>>

-----------------------------------------------------------------------------
(* What the service does with a request it has; Arrive is the client's.    *)
Handle(r) ==
    \/ KeyMissing(r) \/ Replay(r) \/ NoReplay(r) \/ Deliver(r)
    \/ Refuse(r) \/ InitiateHit(r) \/ InitiateMiss(r) \/ ScheduleOrReverse(r)
    \/ AcquireLock(r) \/ LockTaken(r) \/ LockFails(r)
    \/ Persist(r) \/ UniqueViolation(r) \/ PersistFails(r)
    \/ Emit(r) \/ EmitFails(r) \/ CacheResponse(r) \/ Release(r)

Next ==
    \/ \E r \in Requests : Arrive(r) \/ Handle(r)
    \/ \E n \in Instances : Crash(n)
    \/ \E r \in Requests : SetLost(r) \/ DelLost(r)
    \/ RedisRestarts
    \/ \E k \in Keys : LockExpires(k)
    \/ \E n \in Instances, k \in Keys : HandlerCacheExpires(n, k) \/ ReplayCacheExpires(n, k)
    \/ Tick

Spec == Init /\ [][Next]_vars

(* An await that has been answered is resumed, and Redis expires its keys. *)
Fairness ==
    /\ \A r \in Requests : WF_vars(Handle(r))
    /\ \A k \in Keys : WF_vars(LockExpires(k))

FairSpec == Spec /\ Fairness

-----------------------------------------------------------------------------
(* Every variable stays in its type; `promised` holds successes only.      *)
TypeOK ==
    /\ faults \in FaultSets
    /\ call \in [Requests -> Calls]
    /\ node \in [Requests -> Instances]
    /\ pc \in [Requests -> Labels]
    /\ pid \in [Requests -> Times]
    /\ reply \in [Requests -> Replies]
    /\ handlerCache \in [Instances -> [Keys -> Replies]]
    /\ replayCache \in [Instances -> [Keys -> Replies]]
    /\ lock \in SUBSET Keys
    /\ rows \in [Keys -> Requests \cup {None}]
    /\ events \in SUBSET Events
    /\ clock \in Times
    /\ promised \in [Requests -> SUBSET Replies]
    /\ took \subseteq Requests

Initiations(k) ==
    {e \in events : Endpoint(e.req) = "initiate" /\ Key(e.req) = k}

(* One key initiates at most one payment, with one id: whatever instance   *)
(* the retries reach, whatever is lost, and even when a slow request       *)
(* outlives its lock.  It is the unique index that holds this up, not the  *)
(* caches or the lock (payment.controller.ts, lines 85 to 110).            *)
AtMostOneInitiation ==
    \A k \in Keys : \A e, f \in Initiations(k) : e = f

(* The answer x to a request with key k is that of a published event.      *)
Backed(k, x) ==
    \E e \in events :
        /\ Key(e.req) = k
        /\ Endpoint(e.req) = x.endpoint
        /\ e.id = x.id
        /\ x.endpoint = "initiate" => rows[k] = e.req

(* A client that is told of a success can rely on it: the event its answer *)
(* names was published under its key, and an initiated payment has its row *)
(* in idempotent_requests, inserted by the request that published it.      *)
SuccessIsBacked ==
    \A r \in Requests : IsSuccess(reply[r]) => Backed(Key(r), reply[r])

(* Two clients answered under a key that is only ever used to initiate are *)
(* told of the same payment, be the answer from the handler, from either   *)
(* cache, from either instance.                                            *)
InitiateOnly(k) == \A r \in Requests : Key(r) = k => Endpoint(r) = "initiate"

SameKeySameResult ==
    \A r, s \in Requests :
        /\ Key(r) = Key(s)
        /\ InitiateOnly(Key(r))
        /\ IsSuccess(reply[r])
        /\ IsSuccess(reply[s])
        => reply[r] = reply[s]

(* What Redis and its client do not promise: that work ends before EX 60,  *)
(* that a DEL is executed once, and that Redis keeps its keys.             *)
LockMayGo == faults \cap {"slow", "resend", "redisLoss"} # {}

(* Where no lock goes from under its holder, it does what                  *)
(* payment.controller.ts:84 calls critical: no two requests with one key   *)
(* are between the SET and the end of the try block together, whichever    *)
(* process dies and whichever call throws, also when the SET takes effect  *)
(* behind its error.  AtMostOneInitiation does not rest on the lock.       *)
MutualExclusion ==
    ~ LockMayGo => \A r, s \in Requests :
        InCritical(r) /\ InCritical(s) /\ Key(r) = Key(s) => r = s

HasRival(r) == \E s \in took \ {r} : Key(s) = Key(r)

(* The client sent the SET of r again after it had taken effect; r itself  *)
(* has inserted nothing.                                                   *)
MetOwnLock(r) == "resend" \in faults /\ r \in took /\ rows[Key(r)] # r

(* A client that sends its key and is told 409 was refused because another *)
(* request with that key had taken the lock: no error of Redis, of the     *)
(* database or of the broker is reported as a conflict, and no request     *)
(* conflicts with its own row.  It may conflict with its own lock, but     *)
(* only where the Redis client sends commands again, as ioredis does by    *)
(* default (payment.controller.ts:85-129, redis.provider.ts:6,             *)
(* problem-details.filter.ts:52-64).                                       *)
ConflictHasRival ==
    \A r \in Requests :
        Key(r) # None /\ reply[r].status = "conflict" => HasRival(r) \/ MetOwnLock(r)

(* openbanking.yml:2440: "replaying the same key returns the original      *)
(* result instead of creating a duplicate payment".  A request equal to    *)
(* one that was answered before it arrived gets that very answer.          *)
GivenOriginal(r) == pc[r] = "done" /\ promised[r] # {} => reply[r] \in promised[r]

ReplayReturnsOriginal == \A r \in Requests : GivenOriginal(r)

(* Where requests meet one instance that keeps its memory, those that      *)
(* initiate payments do get it: although the handler forgets a response    *)
(* after 300 milliseconds and slow requests outlive their locks, a retry   *)
(* is never answered anything else (idempotency.interceptor.ts, lines 40   *)
(* to 55).  Keys that another endpoint uses too are left out: what the     *)
(* interceptor holds of them is the response that came last.               *)
OneMemory ==
    /\ faults \cap {"crash", "cacheLoss"} = {}
    /\ \A r, s \in Requests : node[r] = node[s]

LocalReplayReturnsOriginal ==
    OneMemory => \A r \in Requests : InitiateOnly(Key(r)) => GivenOriginal(r)

(* The other half of openbanking.yml:2440, for the endpoint that schedules *)
(* a payment: one key publishes one scheduled payment.                     *)
AtMostOneSchedule ==
    \A e, f \in events :
        /\ Endpoint(e.req) = "schedule"
        /\ Endpoint(f.req) = "schedule"
        /\ Key(e.req) = Key(f.req)
        => e = f

(* A key whose request failed, conflicted or died comes free again: no     *)
(* lock is held for ever, although success never deletes it, the SET can   *)
(* succeed behind an error and the catch block may not get through.        *)
LocksAreFreed == \A k \in Keys : k \in lock ~> k \notin lock

-----------------------------------------------------------------------------
(* Why the invariants above hold, strong enough to be inductive.           *)

(* Only a request with a key gets past the interceptor, and only one that  *)
(* initiates a payment to the handler's cache.                             *)
PathsKnown ==
    \A r \in Requests :
        /\ pc[r] \notin {"new", "intercept", "done", "lost"} => Key(r) \in Keys
        /\ pc[r] = "cache" => Endpoint(r) = "initiate"

(* A request is past its INSERT only as the owner of the row.              *)
RowsOwned ==
    \A r \in Requests :
        Endpoint(r) = "initiate" /\ pc[r] \in {"emit", "cache"} => rows[Key(r)] = r

(* An event stands for what its request is still working with, or was.     *)
EventsOwned ==
    \A e \in events :
        /\ e = Publication(e.req)
        /\ pc[e.req] \in {"cache", "release", "deliver", "done", "lost"}
        /\ Key(e.req) \in Keys
        /\ Endpoint(e.req) = "initiate" => rows[Key(e.req)] = e.req

(* Everything on its way to a client was published first.                  *)
ResultsBacked ==
    /\ \A r \in Requests :
           pc[r] \in {"cache", "deliver"} => Backed(Key(r), Success(Endpoint(r), pid[r]))
    /\ \A n \in Instances, k \in Keys :
           IsSuccess(handlerCache[n][k]) =>
               handlerCache[n][k].endpoint = "initiate" /\ Backed(k, handlerCache[n][k])
    /\ \A n \in Instances, k \in Keys :
           IsSuccess(replayCache[n][k]) => Backed(k, replayCache[n][k])
    /\ \A r \in Requests : IsSuccess(reply[r]) => Backed(Key(r), reply[r])

(* A request that has its answer is over.                                  *)
AnsweredOnce == \A r \in Requests : IsSuccess(reply[r]) => pc[r] = "done"

(* The inductive invariant: from the INSERT on, one request owns its key's *)
(* row, its event and its id, and no cache or client holds anything that   *)
(* was not published first (payment.controller.ts, lines 75 to 125).       *)
IInv ==
    /\ TypeOK
    /\ PathsKnown
    /\ RowsOwned
    /\ EventsOwned
    /\ ResultsBacked
    /\ AnsweredOnce

(* For the lock and the conflicts: whose work a lock, a row or a refusal   *)
(* goes back to, and that a lock which nothing takes away stays with its   *)
(* holder (payment.controller.ts, lines 84 to 129).                        *)
Initiating ==
    \A r \in Requests :
        /\ pc[r] \in {"lock", "persist"} => call[r].refusal = "none"
        /\ pc[r] \in {"lock", "persist", "release", "duplicate"} =>
               Endpoint(r) = "initiate"

(* Only a SET that is sent again leaves its request waiting.               *)
TakersMoveOn == "resend" \in faults \/ \A r \in took : pc[r] # "lock"

TakersGotThere ==
    \A r \in Requests :
        /\ r \in took => pc[r] \notin {"new", "intercept", "handler"}
        /\ InCritical(r) => r \in took

LocksTaken == \A k \in lock : \E s \in took : Key(s) = k

RowsTaken ==
    \A k \in Keys : rows[k] # None =>
        /\ rows[k] \in took
        /\ Key(rows[k]) = k
        /\ pc[rows[k]] \notin {"lock", "persist"}

DuplicatesHaveRivals == \A r \in Requests : pc[r] = "duplicate" => HasRival(r)

ConflictsEnd == \A r \in Requests : reply[r].status = "conflict" => pc[r] = "done"

HoldersHold ==
    ~ LockMayGo => \A r \in Requests : InCritical(r) => Key(r) \in lock

LockInv ==
    /\ Initiating
    /\ TakersMoveOn
    /\ TakersGotThere
    /\ LocksTaken
    /\ RowsTaken
    /\ DuplicatesHaveRivals
    /\ ConflictsEnd
    /\ ConflictHasRival
    /\ HoldersHold
    /\ MutualExclusion

-----------------------------------------------------------------------------
(* What the header promises, as a state machine of its own.  An initiated  *)
(* payment takes effect when its event is published.                       *)
OutcomeOf(k) ==
    LET published == Initiations(k)
    IN  IF published = {} THEN NoReply
        ELSE Success("initiate", (CHOOSE e \in published : TRUE).id)

(* The promise is about the keys that are used for POST /payments only: the *)
(* others are in the hands of endpoints that keep none, see AtMostOneSchedule. *)
Promised(r) == Key(r) \in Keys /\ InitiateOnly(Key(r))

KeyOf ==
    [r \in Requests |->
        IF pc[r] # "new" /\ Promised(r) THEN Key(r) ELSE NoReply]

Outcome == [k \in Keys |-> IF InitiateOnly(k) THEN OutcomeOf(k) ELSE NoReply]

AnswerTo ==
    [r \in Requests |->
        IF IsSuccess(reply[r]) /\ Promised(r) THEN reply[r] ELSE NoReply]

Header == INSTANCE IdempotentOperation WITH
              Results <- {Success("initiate", t) : t \in Times},
              None <- NoReply,
              keyOf <- KeyOf,
              outcome <- Outcome,
              answer <- AnswerTo

(* POST /payments keeps the header's promise under every fault: each step  *)
(* of the service is a step or a stutter of IdempotentOperation, over the  *)
(* keys that are used for this endpoint only.                              *)
KeepsPromise == Header!Spec
=============================================================================
