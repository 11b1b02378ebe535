----------------------- MODULE PaymentControllerProofs -----------------------
(* What TLAPS proves of PaymentController, for every number of requests,   *)
(* keys and instances, every choice of calls and every set of faults.      *)
EXTENDS PaymentController, TLAPS

-----------------------------------------------------------------------------
(* What the handlers and the interceptor throw. *)
Errors == {"conflict", "forbidden", "unprocessable", "unique violation", "failed"}

(* An error is never answered as a success. *)
LEMMA StatusOfErrors ==
    ASSUME NEW error
    PROVE  StatusOf(error) \in {"forbidden", "unprocessable", "conflict", "failed"}
BY DEF StatusOf

(* The records the service answers with are well typed. *)
LEMMA ReplyTypes ==
    /\ NoReply \in Replies
    /\ \A e \in Endpoints, t \in Times :
           Success(e, t) \in Replies /\ IsSuccess(Success(e, t))
    /\ \A error \in Errors :
           Failure(error) \in Replies /\ ~ IsSuccess(Failure(error))
    /\ ~ IsSuccess(NoReply)
BY ClockAssumption, StatusOfErrors
   DEF NoReply, Success, Failure, IsSuccess, Replies, Statuses, Endpoints,
      Times

(* A publication is an event, whatever the endpoint. *)
LEMMA PublicationType ==
    ASSUME TypeOK, NEW r \in Requests
    PROVE  Publication(r) \in Events
BY CallsAssumption
   DEF TypeOK, Publication, Events, EventType, EventTypes, Endpoint,
      CallType, Endpoints

(* The parts of a call are what CallType says. *)
LEMMA CallTypes ==
    ASSUME TypeOK, NEW r \in Requests
    PROVE  /\ Key(r) \in Keys \cup {None}
           /\ Endpoint(r) \in Endpoints
           /\ call[r].refusal \in {"none", "forbidden", "unprocessable"}
           /\ node[r] \in Instances
BY CallsAssumption DEF TypeOK, Key, Endpoint, CallType

LEMMA TypeInit == Init => TypeOK
<1> SUFFICES ASSUME Init PROVE TypeOK
  OBVIOUS
<1>1. NoReply \in Replies
  BY ReplyTypes
<1>2. 0 \in Times
  BY ClockAssumption DEF Times
<1> QED
  BY <1>1, <1>2 DEF Init, TypeOK, Labels

(* Every step of a request's own handling keeps the types; a lock is only *)
(* ever taken for a key of Keys because the interceptor saw to it.        *)
LEMMA TypeHandle ==
    ASSUME TypeOK, PathsKnown, NEW r \in Requests, Handle(r)
    PROVE  TypeOK'
<1> USE ReplyTypes, CallTypes, PublicationType DEF fixed, caches, remote,
   Goto, Finish
<1>1. CASE KeyMissing(r)
  BY <1>1 DEF KeyMissing, TypeOK, Labels, Errors
<1>2. CASE Replay(r)
  BY <1>2 DEF Replay, TypeOK, Labels
<1>3. CASE NoReplay(r)
  BY <1>3 DEF NoReplay, TypeOK, Labels
<1>4. CASE Deliver(r)
  BY <1>4 DEF Deliver, TypeOK, Labels
<1>5. CASE Refuse(r)
  BY <1>5 DEF Refuse, TypeOK, Labels, Errors
<1>6. CASE InitiateHit(r)
  <2>1. Key(r) \in Keys
    BY <1>6 DEF InitiateHit, PathsKnown
  <2>2. handlerCache[node[r]][Key(r)] \in Replies
    BY <2>1 DEF TypeOK
  <2>3. handlerCache[node[r]][Key(r)].id \in Times
    BY <2>2 DEF Replies
  <2> QED
    BY <1>6, <2>3 DEF InitiateHit, TypeOK, Labels
<1>7. CASE InitiateMiss(r)
  BY <1>7 DEF InitiateMiss, TypeOK, Labels
<1>8. CASE ScheduleOrReverse(r)
  BY <1>8 DEF ScheduleOrReverse, TypeOK, Labels
<1>9. CASE AcquireLock(r)
  BY <1>9 DEF AcquireLock, PathsKnown, TypeOK, Labels
<1>10. CASE LockTaken(r)
  BY <1>10 DEF LockTaken, TypeOK, Labels, Errors
<1>11. CASE LockFails(r)
  BY <1>11 DEF LockFails, PathsKnown, TypeOK, Labels, Errors
<1>12. CASE Persist(r)
  BY <1>12 DEF Persist, TypeOK, Labels
<1>13. CASE UniqueViolation(r)
  BY <1>13 DEF UniqueViolation, TypeOK, Labels
<1>14. CASE PersistFails(r)
  BY <1>14 DEF PersistFails, TypeOK, Labels
<1>15. CASE Emit(r)
  BY <1>15 DEF Emit, TypeOK, Labels
<1>16. CASE EmitFails(r)
  BY <1>16 DEF EmitFails, BrokerError, TypeOK, Labels, Errors
<1>17. CASE CacheResponse(r)
  BY <1>17 DEF CacheResponse, TypeOK, Labels, Endpoints
<1>18. CASE Release(r)
  <2>1. /\ pc' = [pc EXCEPT ![r] = "done"]
        /\ \E error \in Errors : reply' = [reply EXCEPT ![r] = Failure(error)]
        /\ lock' \subseteq lock
        /\ UNCHANGED <<faults, call, node, pid, handlerCache, replayCache, rows, events,
                       clock, promised, took>>
    BY <1>18 DEF Release, Errors
  <2> QED
    BY <2>1 DEF TypeOK, Labels
<1> QED
  BY <1>1, <1>2, <1>3, <1>4, <1>5, <1>6, <1>7, <1>8, <1>9, <1>10, <1>11,
     <1>12, <1>13, <1>14, <1>15, <1>16, <1>17, <1>18 DEF Handle

LEMMA TypeNext == TypeOK /\ PathsKnown /\ [Next]_vars => TypeOK'
<1> SUFFICES ASSUME TypeOK, PathsKnown, [Next]_vars PROVE TypeOK'
  OBVIOUS
<1> USE ReplyTypes DEF fixed, caches, remote
<1>1. CASE \E r \in Requests : Arrive(r)
  <2>1. PICK r \in Requests : Arrive(r)
    BY <1>1
  <2>2. promised' \in [Requests -> SUBSET Replies]
    BY <2>1 DEF Arrive, TypeOK
  <2> QED
    BY <2>1, <2>2 DEF Arrive, Goto, TypeOK, Labels
<1>2. CASE \E r \in Requests : Handle(r)
  BY <1>2, TypeHandle
<1>3. CASE \E n \in Instances : Crash(n)
  BY <1>3 DEF Crash, TypeOK, Labels
<1>4. CASE \E k \in Keys : LockExpires(k)
  BY <1>4 DEF LockExpires, TypeOK
<1>5. CASE \E n \in Instances, k \in Keys : HandlerCacheExpires(n, k)
  BY <1>5 DEF HandlerCacheExpires, TypeOK
<1>6. CASE \E n \in Instances, k \in Keys : ReplayCacheExpires(n, k)
  BY <1>6 DEF ReplayCacheExpires, TypeOK
<1>7. CASE Tick
  BY <1>7, ClockAssumption DEF Tick, TypeOK, Times
<1>8. CASE UNCHANGED vars
  BY <1>8 DEF vars, TypeOK
<1>9. CASE \E r \in Requests : SetLost(r)
  BY <1>9 DEF SetLost, PathsKnown, TypeOK
<1>10. CASE \E r \in Requests : DelLost(r)
  BY <1>10 DEF DelLost, TypeOK
<1>11. CASE RedisRestarts
  BY <1>11 DEF RedisRestarts, TypeOK
<1> QED
  BY <1>1, <1>2, <1>3, <1>4, <1>5, <1>6, <1>7, <1>8, <1>9, <1>10, <1>11 DEF Next

-----------------------------------------------------------------------------
(* What any step does to the program counters: it leaves a request alone,  *)
(* or lets it arrive, loses it, or advances it, and past the interceptor   *)
(* only with a key.                                                        *)
LEMMA HandleMoves ==
    ASSUME TypeOK, NEW r \in Requests, Handle(r)
    PROVE  /\ UNCHANGED fixed
           /\ pc[r] \notin {"new", "done", "lost"}
           /\ \A q \in Requests \ {r} : pc'[q] = pc[q]
           /\ pc[r] = "intercept" /\ pc'[r] # "done" => Key(r) # None
           /\ pc'[r] = "cache" => Endpoint(r) = "initiate"
           /\ pc'[r] # "new"
<1> USE DEF Goto, Finish
<1> QED
  BY DEF TypeOK, Handle, KeyMissing, Replay, NoReplay, Deliver, Refuse,
     InitiateHit, InitiateMiss, ScheduleOrReverse, AcquireLock, LockTaken,
     LockFails, Persist, UniqueViolation, PersistFails, Emit, EmitFails,
     BrokerError, CacheResponse, Release

LEMMA PathsKnownNext ==
    ASSUME TypeOK, PathsKnown, [Next]_vars
    PROVE  PathsKnown'
<1> USE DEF PathsKnown, fixed
<1>1. CASE \E r \in Requests : Arrive(r)
  BY <1>1 DEF Arrive, Goto, TypeOK, Key, Endpoint
<1>2. CASE \E r \in Requests : Handle(r)
  <2>1. PICK r \in Requests : Handle(r)
    BY <1>2
  <2>2. /\ Key(r) \in Keys \cup {None}
        /\ \A q \in Requests : Key(q)' = Key(q) /\ Endpoint(q)' = Endpoint(q)
    BY <2>1, HandleMoves, CallTypes DEF Key, Endpoint
  <2> QED
    BY <2>1, <2>2, HandleMoves DEF TypeOK
<1>3. CASE \E n \in Instances : Crash(n)
  BY <1>3 DEF Crash, TypeOK, Key, Endpoint
<1>4. CASE UNCHANGED <<call, pc>>
  BY <1>4 DEF Key, Endpoint
<1> QED
  BY <1>1, <1>2, <1>3, <1>4 DEF Next, SetLost, DelLost, RedisRestarts,
     LockExpires, HandlerCacheExpires,
     ReplayCacheExpires, Tick, vars

(* A row once inserted stays its request's, and no event is taken back.    *)
LEMMA Growth ==
    ASSUME TypeOK, PathsKnown, [Next]_vars
    PROVE  /\ call' = call
           /\ events \subseteq events'
           /\ \A k \in Keys : rows[k] # None => rows'[k] = rows[k]
<1> USE DEF fixed, remote, caches
<1>1. CASE \E r \in Requests : Handle(r)
  <2>1. PICK r \in Requests : Handle(r)
    BY <1>1
  <2>2. CASE Persist(r)
    BY <2>2 DEF Persist, TypeOK
  <2>3. CASE PersistFails(r)
    BY <2>3 DEF PersistFails, TypeOK
  <2>4. CASE Emit(r)
    BY <2>4 DEF Emit
  <2>5. CASE EmitFails(r)
    BY <2>5 DEF EmitFails, BrokerError
  <2>6. CASE UNCHANGED <<call, rows, events>>
    BY <2>6
  <2> QED
    BY <2>1, <2>2, <2>3, <2>4, <2>5, <2>6 DEF Handle, KeyMissing, Replay,
       NoReplay, Deliver, Refuse, InitiateHit, InitiateMiss,
       ScheduleOrReverse,
       AcquireLock, LockTaken, LockFails, UniqueViolation, CacheResponse,
       Release
<1>2. CASE UNCHANGED <<call, rows, events>>
  BY <1>2
<1> QED
  BY <1>1, <1>2 DEF Next, Arrive, Crash, SetLost, DelLost, RedisRestarts,
     LockExpires, HandlerCacheExpires,
     ReplayCacheExpires, Tick, vars

(* Who is past its INSERT owns its row: only Persist gets there, and it    *)
(* finds no row of another request.                                        *)
LEMMA RowsOwnedNext ==
    ASSUME TypeOK, PathsKnown, RowsOwned, [Next]_vars
    PROVE  RowsOwned'
<1> SUFFICES ASSUME NEW q \in Requests, Endpoint(q)' = "initiate",
                    pc'[q] \in {"emit", "cache"}
             PROVE  rows'[Key(q)] = q
  BY Growth DEF RowsOwned, Key
<1>1. Endpoint(q) = "initiate" /\ Key(q) \in Keys \cup {None}
  BY Growth, CallTypes DEF Endpoint
<1>2. ASSUME pc[q] \in {"emit", "cache"}
      PROVE  rows'[Key(q)] = q
  <2>1. rows[Key(q)] = q /\ Key(q) \in Keys
    BY <1>1, <1>2 DEF RowsOwned, PathsKnown
  <2> QED
    BY <2>1, Growth, RequestsAssumption
<1>3. ASSUME pc[q] \notin {"emit", "cache"}
      PROVE  Persist(q)
  <2>1. CASE \E r \in Requests : Handle(r)
    <3>1. Handle(q)
      BY <2>1, <1>3, HandleMoves
    <3> QED
      BY <3>1, <1>1, <1>3 DEF Handle, KeyMissing, Replay, NoReplay, Deliver,
         Refuse, InitiateHit, InitiateMiss, ScheduleOrReverse, AcquireLock,
         LockTaken, LockFails, UniqueViolation, PersistFails, Emit, EmitFails,
         BrokerError, CacheResponse, Release, Goto, Finish, TypeOK
  <2>2. CASE \E r \in Requests : Arrive(r)
    BY <2>2, <1>3 DEF Arrive, Goto, TypeOK
  <2>3. CASE \E n \in Instances : Crash(n)
    BY <2>3, <1>3 DEF Crash
  <2>4. CASE UNCHANGED pc
    BY <2>4, <1>3
  <2> QED
    BY <2>1, <2>2, <2>3, <2>4 DEF Next, SetLost, DelLost, RedisRestarts,
       LockExpires, HandlerCacheExpires,
       ReplayCacheExpires, Tick, vars
<1>4. CASE pc[q] \notin {"emit", "cache"}
  <2>1. Persist(q) /\ Key(q) \in Keys
    BY <1>1, <1>3, <1>4 DEF Persist, PathsKnown
  <2> QED
    BY <2>1 DEF Persist, TypeOK
<1> QED
  BY <1>2, <1>4

(* Where a request whose event is out may be.                              *)
After == {"cache", "release", "deliver", "done", "lost"}

(* It stays there, and its id is settled.                                  *)
LEMMA AfterStays ==
    ASSUME TypeOK, [Next]_vars, NEW q \in Requests, pc[q] \in After
    PROVE  pc'[q] \in After /\ pid'[q] = pid[q]
<1> USE DEF After
<1>1. CASE \E r \in Requests : Handle(r)
  <2>1. PICK r \in Requests : Handle(r)
    BY <1>1
  <2> QED
    BY <2>1 DEF Handle, KeyMissing, Replay, NoReplay, Deliver, Refuse,
       InitiateHit, InitiateMiss, ScheduleOrReverse, AcquireLock, LockTaken,
       LockFails, Persist, UniqueViolation, PersistFails, Emit, EmitFails,
       BrokerError, CacheResponse, Release, Goto, Finish, TypeOK
<1>2. CASE \E r \in Requests : Arrive(r)
  BY <1>2 DEF Arrive, Goto, TypeOK
<1>3. CASE \E n \in Instances : Crash(n)
  BY <1>3 DEF Crash
<1>4. CASE UNCHANGED <<pc, pid>>
  BY <1>4
<1> QED
  BY <1>1, <1>2, <1>3, <1>4 DEF Next, SetLost, DelLost, RedisRestarts,
     LockExpires, HandlerCacheExpires,
     ReplayCacheExpires, Tick, vars

(* An event is published by a request at its emit, which then moves on.     *)
LEMMA NewEvents ==
    ASSUME TypeOK, [Next]_vars, NEW e \in events' \ events
    PROVE  \E r \in Requests : /\ pc[r] = "emit"
                               /\ pc'[r] \in After
                               /\ pid' = pid
                               /\ e = Publication(r)
<1>1. CASE \E r \in Requests : Emit(r) \/ EmitFails(r)
  BY <1>1 DEF After, Emit, EmitFails, BrokerError, Goto, Finish, TypeOK
<1>2. CASE UNCHANGED events
  BY <1>2
<1> QED
  BY <1>1, <1>2 DEF Next, Handle, KeyMissing, Replay, NoReplay, Deliver,
     Refuse, InitiateHit, InitiateMiss, ScheduleOrReverse, AcquireLock,
     LockTaken, LockFails, Persist, UniqueViolation, PersistFails,
     CacheResponse, Release, Arrive, Crash, SetLost, DelLost, RedisRestarts,
     LockExpires, HandlerCacheExpires,
     ReplayCacheExpires, Tick, vars, remote

(* The owner of an event has moved on, and never again changes its id.     *)
LEMMA EventsOwnedNext ==
    ASSUME TypeOK, PathsKnown, RowsOwned, EventsOwned, [Next]_vars
    PROVE  EventsOwned'
<1> USE DEF After
<1>3. ASSUME NEW e \in events
      PROVE  /\ e = Publication(e.req)'
             /\ pc'[e.req] \in After
             /\ Key(e.req)' \in Keys
             /\ Endpoint(e.req)' = "initiate" => rows'[Key(e.req)'] = e.req
  <2>1. e.req \in Requests
    BY DEF TypeOK, Events
  <2>2. /\ e = Publication(e.req)
        /\ pc[e.req] \in After
        /\ Key(e.req) \in Keys
        /\ Endpoint(e.req) = "initiate" => rows[Key(e.req)] = e.req
    BY DEF EventsOwned
  <2> QED
    BY <2>1, <2>2, AfterStays, Growth, RequestsAssumption DEF Publication,
       Key, Endpoint
<1>4. ASSUME NEW e \in events' \ events
      PROVE  /\ e = Publication(e.req)'
             /\ pc'[e.req] \in After
             /\ Key(e.req)' \in Keys
             /\ Endpoint(e.req)' = "initiate" => rows'[Key(e.req)'] = e.req
  <2>1. PICK r \in Requests : /\ pc[r] = "emit"
                              /\ pc'[r] \in After
                              /\ pid' = pid
                              /\ e = Publication(r)
    BY NewEvents
  <2>2. e.req = r /\ Publication(r)' = Publication(r)
    BY <2>1, Growth DEF Publication, Endpoint
  <2>3. Key(r) \in Keys /\ (Endpoint(r) = "initiate" => rows[Key(r)] = r)
    BY <2>1 DEF PathsKnown, RowsOwned
  <2> QED
    BY <2>1, <2>2, <2>3, Growth, RequestsAssumption DEF Key, Endpoint
<1> QED
  BY <1>3, <1>4 DEF EventsOwned

LEMMA BackedStays ==
    ASSUME TypeOK, PathsKnown, EventsOwned, [Next]_vars, NEW k, NEW x, Backed(k, x)
    PROVE  Backed(k, x)'
<1>1. PICK e \in events :
          /\ Key(e.req) = k
          /\ Endpoint(e.req) = x.endpoint
          /\ e.id = x.id
          /\ x.endpoint = "initiate" => rows[k] = e.req
  BY DEF Backed
<1>2. e.req \in Requests /\ Key(e.req) \in Keys
  BY DEF EventsOwned, TypeOK, Events
<1>3. e \in events' /\ (x.endpoint = "initiate" => rows'[k] = e.req)
  BY <1>1, <1>2, Growth, RequestsAssumption
<1> QED
  BY <1>1, <1>3, Growth DEF Backed, Key, Endpoint

(* Where a handler's result comes from: a publication of its own, or the   *)
(* handler's cache.                                                        *)
LEMMA ResultsBackedInFlight ==
    ASSUME IInv, [Next]_vars, NEW q \in Requests, pc'[q] \in {"cache", "deliver"}
    PROVE  Backed(Key(q), Success(Endpoint(q), pid[q]))'
<1>0. TypeOK /\ PathsKnown /\ RowsOwned /\ EventsOwned /\ ResultsBacked
  BY DEF IInv
<1>1. /\ Key(q)' = Key(q)
      /\ Endpoint(q)' = Endpoint(q)
      /\ Success(Endpoint(q), pid[q])' = Success(Endpoint(q), pid'[q])
  BY <1>0, Growth DEF Key, Endpoint, Success
<1>2. CASE pc[q] \in {"cache", "deliver"}
  <2>1. Backed(Key(q), Success(Endpoint(q), pid[q]))
    BY <1>0, <1>2 DEF ResultsBacked
  <2>2. pid'[q] = pid[q]
    BY <1>0, <1>2, AfterStays DEF After
  <2> QED
    BY <1>0, <1>1, <2>1, <2>2, BackedStays DEF Backed
<1>3. CASE Emit(q)
  <2>1. Publication(q) \in events' /\ pid'[q] = pid[q]
    BY <1>3 DEF Emit
  <2>2. Endpoint(q) = "initiate" => rows'[Key(q)] = q
    BY <1>0, <1>3 DEF Emit, RowsOwned
  <2>3. /\ Publication(q).req = q
        /\ Publication(q).id = pid[q]
        /\ Success(Endpoint(q), pid[q]).endpoint = Endpoint(q)
        /\ Success(Endpoint(q), pid[q]).id = pid[q]
    BY DEF Publication, Success
  <2> QED
    BY <1>1, <2>1, <2>2, <2>3 DEF Backed
<1>4. CASE InitiateHit(q)
  <2> DEFINE x == handlerCache[node[q]][Key(q)]
  <2>1. Key(q) \in Keys /\ node[q] \in Instances
    BY <1>0, <1>4, CallTypes DEF InitiateHit, PathsKnown
  <2>2. x.endpoint = "initiate" /\ Backed(Key(q), x)
    BY <1>0, <1>4, <2>1 DEF InitiateHit, ResultsBacked
  <2>3. pid'[q] = x.id /\ Endpoint(q) = "initiate"
    BY <1>0, <1>4 DEF InitiateHit, TypeOK
  <2>4. Backed(Key(q), Success(Endpoint(q), pid'[q]))
    BY <2>2, <2>3 DEF Backed, Success
  <2> QED
    BY <1>0, <1>1, <2>4, BackedStays DEF Backed
<1>5. ASSUME pc[q] \notin {"cache", "deliver"}
      PROVE  Emit(q) \/ InitiateHit(q)
  <2>1. CASE \E r \in Requests : Handle(r)
    <3>1. Handle(q)
      BY <1>0, <2>1, <1>5, HandleMoves
    <3> QED
      BY <1>0, <3>1, <1>5 DEF Handle, KeyMissing, Replay, NoReplay, Deliver,
         Refuse, InitiateMiss, ScheduleOrReverse, AcquireLock, LockTaken,
         LockFails, Persist, UniqueViolation, PersistFails, EmitFails,
         BrokerError, CacheResponse, Release, Goto, Finish, TypeOK
  <2>2. CASE \E r \in Requests : Arrive(r)
    BY <1>0, <2>2, <1>5 DEF Arrive, Goto, TypeOK
  <2>3. CASE \E n \in Instances : Crash(n)
    BY <2>3, <1>5 DEF Crash
  <2>4. CASE UNCHANGED pc
    BY <2>4, <1>5
  <2> QED
    BY <2>1, <2>2, <2>3, <2>4 DEF Next, SetLost, DelLost, RedisRestarts,
       LockExpires, HandlerCacheExpires,
       ReplayCacheExpires, Tick, vars
<1> QED
  BY <1>2, <1>3, <1>4, <1>5

(* What a cache holds was there before, or is the result of a request at   *)
(* that instance with that key.                                            *)
LEMMA CacheSources ==
    ASSUME TypeOK, PathsKnown, [Next]_vars, NEW n \in Instances, NEW k \in Keys
    PROVE  /\ \/ handlerCache'[n][k] \in {handlerCache[n][k], NoReply}
              \/ \E r \in Requests :
                     /\ CacheResponse(r)
                     /\ Key(r) = k
                     /\ handlerCache'[n][k] = Success("initiate", pid[r])
           /\ \/ replayCache'[n][k] \in {replayCache[n][k], NoReply}
              \/ \E r \in Requests :
                     /\ Deliver(r)
                     /\ Key(r) = k
                     /\ replayCache'[n][k] = Success(Endpoint(r), pid[r])
<1> USE DEF caches
<1>1. CASE \E r \in Requests : CacheResponse(r)
  <2>1. PICK r \in Requests : CacheResponse(r)
    BY <1>1
  <2>2. Key(r) \in Keys /\ node[r] \in Instances
    BY <2>1, CallTypes DEF CacheResponse, PathsKnown
  <2> QED
    BY <2>1, <2>2 DEF CacheResponse, TypeOK
<1>2. CASE \E r \in Requests : Deliver(r)
  <2>1. PICK r \in Requests : Deliver(r)
    BY <1>2
  <2>2. Key(r) \in Keys /\ node[r] \in Instances
    BY <2>1, CallTypes DEF Deliver, PathsKnown
  <2> QED
    BY <2>1, <2>2 DEF Deliver, TypeOK
<1>3. CASE \E m \in Instances : Crash(m)
  BY <1>3 DEF Crash, TypeOK
<1>4. CASE \E m \in Instances, j \in Keys : HandlerCacheExpires(m, j)
  BY <1>4 DEF HandlerCacheExpires, TypeOK
<1>5. CASE \E m \in Instances, j \in Keys : ReplayCacheExpires(m, j)
  BY <1>5 DEF ReplayCacheExpires, TypeOK
<1>6. CASE UNCHANGED caches
  BY <1>6
<1> QED
  BY <1>1, <1>2, <1>3, <1>4, <1>5, <1>6 DEF Next, Handle, KeyMissing, Replay,
     NoReplay, Refuse, InitiateHit, InitiateMiss, ScheduleOrReverse,
     AcquireLock, LockTaken, LockFails, Persist, UniqueViolation,
     PersistFails,
     Emit, EmitFails, BrokerError, Release, Arrive, SetLost, DelLost,
     RedisRestarts, LockExpires, Tick, vars

LEMMA ResultsBackedInCaches ==
    ASSUME IInv, [Next]_vars, NEW n \in Instances, NEW k \in Keys
    PROVE  /\ IsSuccess(handlerCache'[n][k]) =>
                  /\ handlerCache'[n][k].endpoint = "initiate"
                  /\ Backed(k, handlerCache[n][k])'
           /\ IsSuccess(replayCache'[n][k]) => Backed(k, replayCache[n][k])'
<1>0. TypeOK /\ PathsKnown /\ EventsOwned /\ ResultsBacked
  BY DEF IInv
<1>1. ASSUME IsSuccess(handlerCache'[n][k])
      PROVE  /\ handlerCache'[n][k].endpoint = "initiate"
             /\ Backed(k, handlerCache[n][k])'
  <2>1. \/ handlerCache'[n][k] = handlerCache[n][k]
        \/ \E r \in Requests : /\ CacheResponse(r)
                               /\ Key(r) = k
                               /\ handlerCache'[n][k] = Success("initiate", pid[r])
    BY <1>0, <1>1, CacheSources, ReplyTypes
  <2>2. handlerCache'[n][k].endpoint = "initiate" /\ Backed(k, handlerCache'[n][k])
    <3>1. CASE handlerCache'[n][k] = handlerCache[n][k]
      BY <1>0, <1>1, <3>1 DEF ResultsBacked
    <3>2. ASSUME NEW r \in Requests, CacheResponse(r), Key(r) = k,
                 handlerCache'[n][k] = Success("initiate", pid[r])
          PROVE  handlerCache'[n][k].endpoint = "initiate"
                 /\ Backed(k, handlerCache'[n][k])
      <4>1. pc[r] = "cache" /\ Endpoint(r) = "initiate"
        BY <1>0, <3>2 DEF CacheResponse, PathsKnown
      <4> QED
        BY <1>0, <3>2, <4>1 DEF ResultsBacked, Success
    <3> QED
      BY <2>1, <3>1, <3>2
  <2> QED
    BY <1>0, <2>2, BackedStays DEF Backed
<1>2. ASSUME IsSuccess(replayCache'[n][k])
      PROVE  Backed(k, replayCache[n][k])'
  <2>1. \/ replayCache'[n][k] = replayCache[n][k]
        \/ \E r \in Requests : /\ Deliver(r)
                               /\ Key(r) = k
                               /\ replayCache'[n][k] = Success(Endpoint(r), pid[r])
    BY <1>0, <1>2, CacheSources, ReplyTypes
  <2>2. Backed(k, replayCache'[n][k])
    <3>1. CASE replayCache'[n][k] = replayCache[n][k]
      BY <1>0, <1>2, <3>1 DEF ResultsBacked
    <3>2. ASSUME NEW r \in Requests, Deliver(r), Key(r) = k,
                 replayCache'[n][k] = Success(Endpoint(r), pid[r])
          PROVE  Backed(k, replayCache'[n][k])
      BY <1>0, <3>2 DEF ResultsBacked, Deliver
    <3> QED
      BY <2>1, <3>1, <3>2
  <2> QED
    BY <1>0, <2>2, BackedStays DEF Backed
<1> QED
  BY <1>1, <1>2

(* What a client is told is what its handler returned or what the          *)
(* interceptor's cache held, or is no success.                             *)
LEMMA ReplySources ==
    ASSUME TypeOK, [Next]_vars, NEW q \in Requests, IsSuccess(reply'[q])
    PROVE  \/ reply'[q] = reply[q]
           \/ Deliver(q) /\ reply'[q] = Success(Endpoint(q), pid[q])
           \/ Replay(q) /\ reply'[q] = replayCache[node[q]][Key(q)]
<1>1. CASE \E r \in Requests : Handle(r)
  <2>1. PICK r \in Requests : Handle(r)
    BY <1>1
  <2>2. CASE reply'[q] = reply[q]
    BY <2>2
  <2>3. ASSUME reply'[q] # reply[q]
        PROVE  Deliver(q) \/ Replay(q)
    BY <2>1, <2>3, ReplyTypes, CallTypes DEF Handle, KeyMissing, NoReplay,
       Refuse,
       InitiateHit, InitiateMiss, ScheduleOrReverse, AcquireLock, LockTaken,
       LockFails, Persist, UniqueViolation, PersistFails, Emit, EmitFails,
       BrokerError, CacheResponse, Release, Deliver, Replay, Finish, TypeOK,
       Errors
  <2> QED
    BY <2>2, <2>3 DEF Deliver, Replay, Finish, TypeOK
<1>2. CASE UNCHANGED reply
  BY <1>2
<1> QED
  BY <1>1, <1>2 DEF Next, Arrive, Crash, SetLost, DelLost, RedisRestarts,
     LockExpires, HandlerCacheExpires,
     ReplayCacheExpires, Tick, vars

LEMMA ResultsBackedInReplies ==
    ASSUME IInv, [Next]_vars, NEW q \in Requests, IsSuccess(reply'[q])
    PROVE  Backed(Key(q), reply[q])'
<1>0. TypeOK /\ PathsKnown /\ EventsOwned /\ ResultsBacked
  BY DEF IInv
<1>1. \/ reply'[q] = reply[q]
      \/ Deliver(q) /\ reply'[q] = Success(Endpoint(q), pid[q])
      \/ Replay(q) /\ reply'[q] = replayCache[node[q]][Key(q)]
  BY <1>0, ReplySources
<1>2. Backed(Key(q), reply'[q])
  <2>1. CASE reply'[q] = reply[q]
    BY <1>0, <2>1 DEF ResultsBacked
  <2>2. CASE Deliver(q) /\ reply'[q] = Success(Endpoint(q), pid[q])
    BY <1>0, <2>2 DEF ResultsBacked, Deliver
  <2>3. CASE Replay(q) /\ reply'[q] = replayCache[node[q]][Key(q)]
    BY <1>0, <2>3, CallTypes DEF ResultsBacked, Replay
  <2> QED
    BY <1>1, <2>1, <2>2, <2>3
<1> QED
  BY <1>0, <1>2, BackedStays, Growth DEF Backed, Key

LEMMA AnsweredOnceNext ==
    ASSUME TypeOK, AnsweredOnce, [Next]_vars
    PROVE  AnsweredOnce'
<1> USE DEF AnsweredOnce
<1>1. CASE \E r \in Requests : Handle(r)
  <2>1. PICK r \in Requests : Handle(r)
    BY <1>1
  <2>2. \A q \in Requests \ {r} : reply'[q] = reply[q] /\ pc'[q] = pc[q]
    BY <2>1, HandleMoves DEF Handle, KeyMissing, Replay, NoReplay, Deliver,
       Refuse, InitiateHit, InitiateMiss, ScheduleOrReverse, AcquireLock,
       LockTaken, LockFails, Persist, UniqueViolation, PersistFails, Emit,
       EmitFails, BrokerError, CacheResponse, Release, Finish, TypeOK
  <2>3. reply'[r] = reply[r] \/ pc'[r] = "done"
    BY <2>1 DEF Handle, KeyMissing, Replay, NoReplay, Deliver,
       Refuse, InitiateHit, InitiateMiss, ScheduleOrReverse, AcquireLock,
       LockTaken, LockFails, Persist, UniqueViolation, PersistFails, Emit,
       EmitFails, BrokerError, CacheResponse, Release, Finish, Goto, TypeOK
  <2> QED
    BY <2>1, <2>2, <2>3, HandleMoves
<1>2. CASE \E r \in Requests : Arrive(r)
  BY <1>2 DEF Arrive, Goto, TypeOK
<1>3. CASE \E n \in Instances : Crash(n)
  BY <1>3 DEF Crash, Handled, Settled, TypeOK
<1>4. CASE UNCHANGED <<pc, reply>>
  BY <1>4
<1> QED
  BY <1>1, <1>2, <1>3, <1>4 DEF Next, SetLost, DelLost, RedisRestarts,
     LockExpires, HandlerCacheExpires,
     ReplayCacheExpires, Tick, vars

-----------------------------------------------------------------------------
LEMMA IInvInit == Init => IInv
<1> SUFFICES ASSUME Init PROVE IInv
  OBVIOUS
<1>1. TypeOK
  BY TypeInit
<1>2. PathsKnown /\ RowsOwned /\ EventsOwned
  BY DEF Init, PathsKnown, RowsOwned, EventsOwned
<1>3. ResultsBacked /\ AnsweredOnce
  BY ReplyTypes DEF Init, ResultsBacked, AnsweredOnce
<1> QED
  BY <1>1, <1>2, <1>3 DEF IInv

LEMMA IInvNext == IInv /\ [Next]_vars => IInv'
<1> SUFFICES ASSUME IInv, [Next]_vars PROVE IInv'
  OBVIOUS
<1>0. TypeOK /\ PathsKnown /\ RowsOwned /\ EventsOwned /\ AnsweredOnce
  BY DEF IInv
<1>1. TypeOK'
  BY <1>0, TypeNext
<1>2. PathsKnown'
  BY <1>0, PathsKnownNext
<1>3. RowsOwned'
  BY <1>0, RowsOwnedNext
<1>4. EventsOwned'
  BY <1>0, EventsOwnedNext
<1>5. ResultsBacked'
  BY ResultsBackedInFlight, ResultsBackedInCaches, ResultsBackedInReplies
     DEF ResultsBacked
<1>6. AnsweredOnce'
  BY <1>0, AnsweredOnceNext
<1> QED
  BY <1>1, <1>2, <1>3, <1>4, <1>5, <1>6 DEF IInv

(* In every behaviour each key's row, event and results belong together.   *)
THEOREM Inductive == Spec => []IInv
<1> QED
  BY IInvInit, IInvNext, PTL DEF Spec

(* Type correctness. *)
THEOREM TypeCorrect == Spec => []TypeOK
<1>1. IInv => TypeOK
  BY DEF IInv
<1> QED
  BY <1>1, Inductive, PTL

(* A key never initiates two payments: two events under it would both be   *)
(* the publication of the request that owns the key's row.                 *)
THEOREM OneInitiation == Spec => []AtMostOneInitiation
<1>1. IInv => AtMostOneInitiation
  BY DEF IInv, EventsOwned, AtMostOneInitiation, Initiations
<1> QED
  BY <1>1, Inductive, PTL

(* No client is told of a success that was not published.                  *)
THEOREM Backing == Spec => []SuccessIsBacked
<1>1. IInv => SuccessIsBacked
  BY DEF IInv, ResultsBacked, SuccessIsBacked
<1> QED
  BY <1>1, Inductive, PTL

(* Two successes under a key used for this endpoint only are backed by two *)
(* events, and those are one.                                              *)
LEMMA SameResult == IInv => SameKeySameResult
<1> SUFFICES ASSUME IInv, NEW r \in Requests, NEW s \in Requests, Key(r) = Key(s),
                    InitiateOnly(Key(r)), IsSuccess(reply[r]), IsSuccess(reply[s])
             PROVE  reply[r] = reply[s]
  BY DEF SameKeySameResult
<1>1. /\ reply[r] \in Replies /\ reply[s] \in Replies
      /\ Backed(Key(r), reply[r]) /\ Backed(Key(r), reply[s])
  BY DEF IInv, TypeOK, ResultsBacked
<1>2. PICK e \in events : /\ Key(e.req) = Key(r)
                          /\ Endpoint(e.req) = reply[r].endpoint
                          /\ e.id = reply[r].id
  BY <1>1 DEF Backed
<1>3. PICK f \in events : /\ Key(f.req) = Key(r)
                          /\ Endpoint(f.req) = reply[s].endpoint
                          /\ f.id = reply[s].id
  BY <1>1 DEF Backed
<1>4. /\ e.req \in Requests /\ f.req \in Requests
      /\ Endpoint(e.req) = "initiate" /\ Endpoint(f.req) = "initiate"
  BY <1>2, <1>3 DEF IInv, TypeOK, Events, InitiateOnly
<1>5. e = f
  BY <1>2, <1>3, <1>4 DEF IInv, EventsOwned
<1>6. reply[r].status = reply[s].status
  BY DEF IsSuccess
<1> QED
  BY <1>1, <1>2, <1>3, <1>5, <1>6 DEF Replies

(* All clients told of a success under a key used for this endpoint only   *)
(* are told of the same payment.                                           *)
THEOREM OneResult == Spec => []SameKeySameResult
BY SameResult, Inductive, PTL

-----------------------------------------------------------------------------
(* The refinement. *)

(* A published initiation is its key's outcome.                            *)
LEMMA OutcomePublished ==
    ASSUME IInv, NEW e \in events, InitiateOnly(Key(e.req))
    PROVE  OutcomeOf(Key(e.req)) = Success("initiate", e.id)
<1>1. e.req \in Requests /\ Endpoint(e.req) = "initiate"
  BY DEF IInv, TypeOK, Events, InitiateOnly
<1>2. Initiations(Key(e.req)) = {e}
  BY <1>1 DEF IInv, EventsOwned, Initiations
<1> QED
  BY <1>2 DEF OutcomeOf

(* What backs an answer is the outcome of the key it answers.              *)
LEMMA BackedIsOutcome ==
    ASSUME IInv, NEW k, NEW x \in Replies, IsSuccess(x), Backed(k, x), InitiateOnly(k)
    PROVE  k \in Keys /\ OutcomeOf(k) = x
<1>1. PICK e \in events : /\ Key(e.req) = k
                          /\ Endpoint(e.req) = x.endpoint
                          /\ e.id = x.id
  BY DEF Backed
<1>2. Endpoint(e.req) = "initiate" /\ k \in Keys
  BY <1>1 DEF IInv, TypeOK, Events, EventsOwned, InitiateOnly
<1>3. x = Success("initiate", x.id)
  BY <1>1, <1>2 DEF IsSuccess, Success, Replies
<1> QED
  BY <1>1, <1>2, <1>3, OutcomePublished

(* The publication of an event is the operation's one effect under its key.*)
LEMMA PublishPerforms ==
    ASSUME IInv, [Next]_vars, NEW r \in Requests, pc[r] = "emit",
           InitiateOnly(Key(r)), events' = events \cup {Publication(r)}
    PROVE  /\ Key(r) \in Keys
           /\ OutcomeOf(Key(r)) = NoReply
           /\ \A k \in Keys :
                  OutcomeOf(k)' = IF k = Key(r) THEN Success("initiate", pid[r])
                                               ELSE OutcomeOf(k)
<1>1. /\ TypeOK
      /\ call' = call
      /\ Key(r) \in Keys
      /\ \A q \in Requests : Key(q) = Key(r) => Endpoint(q) = "initiate"
      /\ Publication(r).req = r
      /\ Publication(r).id = pid[r]
  BY Growth DEF IInv, PathsKnown, Publication, InitiateOnly
<1>2. \A e \in events : e.req \in Requests /\ Key(e.req) # Key(r)
  <2> SUFFICES ASSUME NEW e \in events PROVE e.req \in Requests /\ Key(e.req) # Key(r)
    OBVIOUS
  <2>1. e.req \in Requests
    BY <1>1 DEF TypeOK, Events
  <2>2. ASSUME Key(e.req) = Key(r) PROVE FALSE
    <3>1. rows[Key(e.req)] = e.req /\ pc[e.req] # "emit" /\ rows[Key(r)] = r
      BY <1>1, <2>1, <2>2 DEF IInv, EventsOwned, RowsOwned
    <3> QED
      BY <2>2, <3>1
  <2> QED
    BY <2>1, <2>2
<1>3. Initiations(Key(r)) = {}
  BY <1>2 DEF Initiations
<1>4. \A k \in Keys : k = Key(r) => Initiations(k)' = {Publication(r)}
  BY <1>1, <1>2 DEF Initiations, Key, Endpoint
<1>5. \A k \in Keys \ {Key(r)} : Initiations(k)' = Initiations(k)
  BY <1>1 DEF Initiations, Key, Endpoint
<1>6. OutcomeOf(Key(r)) = NoReply
  BY <1>3 DEF OutcomeOf
<1>7. \A k \in Keys \ {Key(r)} : OutcomeOf(k)' = OutcomeOf(k)
  BY <1>5 DEF OutcomeOf, Success, NoReply
<1>8. \A k \in Keys : k = Key(r) => OutcomeOf(k)' = Success("initiate", pid[r])
  BY <1>1, <1>4 DEF OutcomeOf, Success, NoReply
<1> QED
  BY <1>1, <1>6, <1>7, <1>8

(* No request changes its key or endpoint. *)
SameKeys ==
    /\ \A r \in Requests : Key(r)' = Key(r) /\ (Promised(r)' <=> Promised(r))
    /\ \A k \in Keys : InitiateOnly(k)' <=> InitiateOnly(k)

(* Steps that publish nothing and answer nothing are stutters.             *)
LEMMA QuietStutters ==
    ASSUME TypeOK, call' = call, events' = events,
           \A r \in Requests : pc[r] = "new" <=> pc'[r] = "new",
           \A r \in Requests : \/ reply'[r] = reply[r]
                               \/ ~ IsSuccess(reply[r]) /\ ~ IsSuccess(reply'[r])
    PROVE  UNCHANGED <<KeyOf, Outcome, AnswerTo>>
<1>1. SameKeys
  BY DEF SameKeys, Promised, InitiateOnly, Key, Endpoint
<1>2. KeyOf' = KeyOf
  BY <1>1 DEF KeyOf, SameKeys, NoReply
<1>3. AnswerTo' = AnswerTo
  BY <1>1 DEF AnswerTo, SameKeys, IsSuccess, NoReply
<1>4. \A k \in Keys : Initiations(k)' = Initiations(k)
  BY DEF Initiations, Key, Endpoint
<1>5. Outcome' = Outcome
  BY <1>1, <1>4 DEF Outcome, OutcomeOf, SameKeys, Success, NoReply
<1> QED
  BY <1>2, <1>3, <1>5

(* A request that arrives with a key submits it. *)
LEMMA ArriveSubmits ==
    ASSUME TypeOK, NEW r \in Requests, Arrive(r)
    PROVE  Header!Next \/ UNCHANGED <<KeyOf, Outcome, AnswerTo>>
<1>1. /\ call' = call
      /\ UNCHANGED <<events, reply>>
      /\ pc[r] = "new"
      /\ pc' = [pc EXCEPT ![r] = "intercept"]
  BY DEF Arrive, Goto, fixed, remote
<1>2. SameKeys /\ UNCHANGED <<Outcome, AnswerTo>>
  <2>1. \A k \in Keys : Initiations(k)' = Initiations(k)
    BY <1>1 DEF Initiations, Key, Endpoint
  <2>2. SameKeys
    BY <1>1 DEF SameKeys, Promised, InitiateOnly, Key, Endpoint
  <2>3. Outcome' = Outcome
    BY <2>1, <2>2 DEF Outcome, OutcomeOf, SameKeys, Success, NoReply
  <2>4. AnswerTo' = AnswerTo
    BY <1>1, <2>2 DEF AnswerTo, SameKeys, IsSuccess, NoReply
  <2> QED
    BY <2>2, <2>3, <2>4
<1>3. CASE ~ Promised(r)
  <2>1. KeyOf' = KeyOf
    BY <1>1, <1>2, <1>3 DEF KeyOf, SameKeys, NoReply, TypeOK
  <2> QED
    BY <1>2, <2>1
<1>4. CASE Promised(r)
  <2>1. Key(r) \in Keys
    BY <1>4 DEF Promised
  <2>2. KeyOf[r] = NoReply
    BY <1>1 DEF KeyOf
  <2>3. KeyOf' = [KeyOf EXCEPT ![r] = Key(r)]
    BY <1>1, <1>2, <1>4 DEF KeyOf, SameKeys, NoReply, TypeOK
  <2> QED
    BY <1>2, <2>1, <2>2, <2>3 DEF Header!Next, Header!Submit
<1> QED
  BY <1>3, <1>4

(* The publication of an event performs the operation, when its key is one *)
(* of POST /payments alone.                                                *)
LEMMA PublishIsPerform ==
    ASSUME IInv, [Next]_vars, NEW r \in Requests, pc[r] = "emit",
           events' = events \cup {Publication(r)},
           \A q \in Requests : pc[q] = "new" <=> pc'[q] = "new",
           \A q \in Requests : \/ reply'[q] = reply[q]
                               \/ ~ IsSuccess(reply[q]) /\ ~ IsSuccess(reply'[q])
    PROVE  Header!Next \/ UNCHANGED <<KeyOf, Outcome, AnswerTo>>
<1>1. TypeOK /\ PathsKnown /\ call' = call
  BY Growth DEF IInv
<1>2. SameKeys
  BY <1>1 DEF SameKeys, Promised, InitiateOnly, Key, Endpoint
<1>3. KeyOf' = KeyOf
  BY <1>1, <1>2 DEF KeyOf, SameKeys, NoReply
<1>4. AnswerTo' = AnswerTo
  BY <1>1, <1>2 DEF AnswerTo, SameKeys, IsSuccess, NoReply
<1>5. CASE InitiateOnly(Key(r))
  <2>1. Promised(r) /\ Key(r) \in Keys
    BY <1>1, <1>5 DEF PathsKnown, Promised
  <2>2. Outcome' = [Outcome EXCEPT ![Key(r)] = Success("initiate", pid[r])]
    <3>1. \A k \in Keys :
              OutcomeOf(k)' = IF k = Key(r) THEN Success("initiate", pid[r])
                                           ELSE OutcomeOf(k)
      BY <1>5, PublishPerforms
    <3> QED
      BY <1>2, <1>5, <2>1, <3>1 DEF Outcome, SameKeys
  <2>3. Outcome[Key(r)] = NoReply
    BY <1>5, <2>1, PublishPerforms DEF Outcome
  <2>4. pid[r] \in Times
    BY <1>1 DEF TypeOK
  <2> QED
    BY <1>3, <1>4, <2>1, <2>2, <2>3, <2>4 DEF Header!Next, Header!Perform
<1>6. CASE ~ InitiateOnly(Key(r))
  <2>1. Publication(r).req = r
    BY DEF Publication
  <2>2. \A k \in Keys : InitiateOnly(k) => Initiations(k)' = Initiations(k)
    BY <1>1, <1>6, <2>1 DEF Initiations, Key, Endpoint
  <2>3. Outcome' = Outcome
    BY <1>2, <2>2 DEF Outcome, OutcomeOf, SameKeys, Success, NoReply
  <2> QED
    BY <1>3, <1>4, <2>3
<1> QED
  BY <1>5, <1>6

(* A success that leaves the service answers with the outcome of its key. *)
LEMMA SuccessAnswers ==
    ASSUME IInv, NEW r \in Requests, NEW x \in Replies,
           call' = call, events' = events, pc[r] \notin {"new", "done"},
           \A q \in Requests : pc[q] = "new" <=> pc'[q] = "new", Key(r) \in Keys,
           reply' = [reply EXCEPT ![r] = x], IsSuccess(x), Backed(Key(r), x)
    PROVE  Header!Next \/ UNCHANGED <<KeyOf, Outcome, AnswerTo>>
<1>1. TypeOK /\ AnsweredOnce
  BY DEF IInv
<1>2. SameKeys
  BY DEF SameKeys, Promised, InitiateOnly, Key, Endpoint
<1>3. KeyOf' = KeyOf
  BY <1>2 DEF KeyOf, SameKeys, NoReply
<1>4. Outcome' = Outcome
  <2>1. \A k \in Keys : Initiations(k)' = Initiations(k)
    BY DEF Initiations, Key, Endpoint
  <2> QED
    BY <1>2, <2>1 DEF Outcome, OutcomeOf, SameKeys, Success, NoReply
<1>5. CASE InitiateOnly(Key(r))
  <2>1. Promised(r) /\ OutcomeOf(Key(r)) = x
    BY <1>5, BackedIsOutcome DEF Promised
  <2>2. KeyOf[r] = Key(r)
    BY <2>1 DEF KeyOf
  <2>3. AnswerTo[r] = NoReply
    BY <1>1 DEF AnswerTo, AnsweredOnce
  <2>4. Outcome[KeyOf[r]] = x /\ x # NoReply
    BY <1>5, <2>1, <2>2, ReplyTypes DEF Outcome
  <2>5. AnswerTo' = [AnswerTo EXCEPT ![r] = x]
    BY <1>1, <1>2, <2>1 DEF AnswerTo, SameKeys, IsSuccess, NoReply, TypeOK
  <2> QED
    BY <1>3, <1>4, <2>2, <2>3, <2>4, <2>5 DEF Header!Next, Header!Answer
<1>6. CASE ~ InitiateOnly(Key(r))
  <2>1. ~ Promised(r)
    BY <1>6 DEF Promised
  <2>2. AnswerTo' = AnswerTo
    BY <1>1, <1>2, <2>1 DEF AnswerTo, SameKeys, IsSuccess, NoReply, TypeOK
  <2> QED
    BY <1>3, <1>4, <2>2
<1> QED
  BY <1>5, <1>6

LEMMA HandleRefines ==
    ASSUME IInv, NEW r \in Requests, Handle(r)
    PROVE  Header!Next \/ UNCHANGED <<KeyOf, Outcome, AnswerTo>>
<1>1. /\ TypeOK /\ PathsKnown /\ AnsweredOnce /\ ResultsBacked
      /\ [Next]_vars
      /\ call' = call
      /\ ~ IsSuccess(reply[r])
      /\ \A q \in Requests : pc[q] = "new" <=> pc'[q] = "new"
      /\ pc[r] \notin {"new", "done", "lost"}
  <2>1. TypeOK /\ PathsKnown /\ AnsweredOnce /\ ResultsBacked
    BY DEF IInv
  <2>2. [Next]_vars
    BY DEF Next
  <2>3. /\ call' = call
        /\ pc[r] \notin {"new", "done", "lost"}
        /\ pc'[r] # "new"
        /\ \A q \in Requests \ {r} : pc'[q] = pc[q]
    BY <2>1, HandleMoves DEF fixed
  <2>4. ~ IsSuccess(reply[r])
    BY <2>1, <2>3 DEF AnsweredOnce
  <2> QED
    BY <2>1, <2>2, <2>3, <2>4
<1>2. CASE Deliver(r)
  <2>1. Success(Endpoint(r), pid[r]) \in Replies /\ IsSuccess(Success(Endpoint(r), pid[r]))
    BY <1>1, ReplyTypes, CallTypes DEF TypeOK, Endpoints
  <2>2. Backed(Key(r), Success(Endpoint(r), pid[r]))
    BY <1>1, <1>2 DEF Deliver, ResultsBacked
  <2>3. Key(r) \in Keys
    BY <1>1, <1>2 DEF Deliver, PathsKnown
  <2> QED
    BY <1>1, <1>2, <2>1, <2>2, <2>3, SuccessAnswers DEF Deliver, Finish,
       remote
<1>3. CASE Replay(r)
  <2>1. node[r] \in Instances /\ Key(r) \in Keys
    BY <1>1, <1>3, CallTypes DEF Replay
  <2>2. replayCache[node[r]][Key(r)] \in Replies
    BY <1>1, <2>1 DEF TypeOK
  <2>3. Backed(Key(r), replayCache[node[r]][Key(r)])
    BY <1>1, <1>3, <2>1 DEF Replay, ResultsBacked
  <2> QED
    BY <1>1, <1>3, <2>1, <2>2, <2>3, SuccessAnswers DEF Replay, Finish, remote
<1>4. CASE Emit(r) \/ EmitFails(r)
  <2>1. /\ pc[r] = "emit"
        /\ \A q \in Requests : \/ reply'[q] = reply[q]
                               \/ ~ IsSuccess(reply[q]) /\ ~ IsSuccess(reply'[q])
    BY <1>1, <1>4, ReplyTypes
       DEF Emit, EmitFails, BrokerError, Finish, Errors, TypeOK
  <2>2. events' \in {events, events \cup {Publication(r)}}
    BY <1>4 DEF Emit, EmitFails, BrokerError
  <2>3. CASE events' = events
    BY <1>1, <2>1, <2>3, QuietStutters
  <2>4. CASE events' = events \cup {Publication(r)}
    BY <1>1, <2>1, <2>4, PublishIsPerform
  <2> QED
    BY <2>2, <2>3, <2>4
<1>5. ASSUME ~ (Deliver(r) \/ Replay(r) \/ Emit(r) \/ EmitFails(r))
      PROVE  /\ events' = events
             /\ \/ reply' = reply
                \/ \E s \in Errors : reply' = [reply EXCEPT ![r] = Failure(s)]
  <2>1. CASE Refuse(r)
    BY <1>1, <2>1, CallTypes DEF Refuse, Finish, remote, Errors
  <2> QED
    BY <1>5, <2>1 DEF Handle, KeyMissing, NoReplay, InitiateHit, InitiateMiss,
       ScheduleOrReverse, AcquireLock, LockTaken, LockFails, Persist,
       UniqueViolation, PersistFails, CacheResponse, Release, Finish, remote,
       Errors
<1>6. CASE ~ (Deliver(r) \/ Replay(r) \/ Emit(r) \/ EmitFails(r))
  <2>1. \A q \in Requests : \/ reply'[q] = reply[q]
                            \/ ~ IsSuccess(reply[q]) /\ ~ IsSuccess(reply'[q])
    BY <1>1, <1>5, <1>6, ReplyTypes DEF TypeOK
  <2> QED
    BY <1>1, <1>5, <1>6, <2>1, QuietStutters
<1> QED
  BY <1>2, <1>3, <1>4, <1>6

LEMMA NextRefines ==
    ASSUME IInv, [Next]_vars
    PROVE  [Header!Next]_<<KeyOf, Outcome, AnswerTo>>
<1>1. CASE \E r \in Requests : Handle(r)
  BY <1>1, HandleRefines
<1>2. CASE \E r \in Requests : Arrive(r)
  BY <1>2, ArriveSubmits DEF IInv
<1>3. CASE /\ UNCHANGED <<call, events, reply>>
           /\ \A r \in Requests : pc[r] = "new" <=> pc'[r] = "new"
  BY <1>3, QuietStutters DEF IInv
<1>4. CASE \E n \in Instances : Crash(n)
  <2>1. \A r \in Requests : pc[r] = "new" <=> pc'[r] = "new"
    BY <1>4 DEF Crash, Handled
  <2> QED
    BY <1>3, <1>4, <2>1 DEF Crash, fixed, remote
<1> QED
  BY <1>1, <1>2, <1>3, <1>4 DEF Next, SetLost, DelLost, RedisRestarts,
     LockExpires, HandlerCacheExpires,
     ReplayCacheExpires, Tick, vars, fixed, remote

(* POST /payments implements IdempotentOperation: no interleaving of        *)
(* retries, instances, crashes, expiries and broker or database errors      *)
(* performs a key's payment twice or answers with another result.           *)
THEOREM PromiseKept == Spec => KeepsPromise
<1>1. Init => Header!Init
  <2> SUFFICES ASSUME Init PROVE Header!Init
    OBVIOUS
  <2>1. KeyOf = [r \in Requests |-> NoReply]
    BY DEF Init, KeyOf
  <2>2. Outcome = [k \in Keys |-> NoReply]
    BY DEF Init, Outcome, OutcomeOf, Initiations
  <2>3. AnswerTo = [r \in Requests |-> NoReply]
    BY ReplyTypes DEF Init, AnswerTo
  <2> QED
    BY <2>1, <2>2, <2>3 DEF Header!Init
<1>2. IInv /\ [Next]_vars => [Header!Next]_(Header!vars)
  BY NextRefines DEF Header!vars
<1> QED
  BY <1>1, <1>2, Inductive, PTL DEF Spec, KeepsPromise, Header!Spec

-----------------------------------------------------------------------------
(* What becomes of a key whose payment did not get through.                *)

(* Its row was inserted, and the request that inserted it has ended or is  *)
(* ending without having initiated the payment.                            *)
UsedUp(k) ==
    /\ rows[k] # None
    /\ pc[rows[k]] \in {"release", "done", "lost"}
    /\ Initiations(k) = {}

(* Nobody is told of a payment under it, and no step gives it another one. *)
NothingInitiated(k) ==
    \A r \in Requests :
        Key(r) = k => ~ (IsSuccess(reply[r]) /\ reply[r].endpoint = "initiate")

LEMMA UsedUpStays ==
    ASSUME IInv, [Next]_vars, NEW k \in Keys, UsedUp(k)
    PROVE  UsedUp(k)' /\ rows'[k] = rows[k]
<1> DEFINE o == rows[k]
<1>0. TypeOK /\ PathsKnown /\ RowsOwned /\ o \in Requests
  BY DEF IInv, TypeOK, UsedUp
<1>1. rows'[k] = o /\ call' = call
  BY <1>0, Growth DEF UsedUp
<1>2. pc'[o] \in {"release", "done", "lost"}
  <2>1. ASSUME NEW r \in Requests, Handle(r)
        PROVE  pc'[o] \in {"release", "done", "lost"}
    <3>1. CASE o = r
      BY <1>0, <2>1, <3>1, HandleMoves
         DEF UsedUp, Handle, KeyMissing, Replay, NoReplay, Deliver, Refuse,
             InitiateHit, InitiateMiss, ScheduleOrReverse, AcquireLock,
             LockTaken,
             LockFails, Persist, UniqueViolation, PersistFails, Emit,
             EmitFails,
             BrokerError, CacheResponse, Release, Goto, Finish, TypeOK
    <3>2. CASE o # r
      BY <1>0, <2>1, <3>2, HandleMoves DEF UsedUp
    <3> QED
      BY <3>1, <3>2
  <2>2. CASE \E r \in Requests : Arrive(r)
    BY <1>0, <2>2 DEF Arrive, Goto, TypeOK, UsedUp
  <2>3. CASE \E n \in Instances : Crash(n)
    BY <1>0, <2>3 DEF Crash, UsedUp
  <2>4. CASE pc' = pc
    BY <2>4 DEF UsedUp
  <2> QED
    BY <2>1, <2>2, <2>3, <2>4 DEF Next, SetLost, DelLost, RedisRestarts,
       LockExpires, HandlerCacheExpires,
       ReplayCacheExpires, Tick, vars
<1>3. Initiations(k)' = {}
  <2> SUFFICES ASSUME NEW e \in events', Endpoint(e.req) = "initiate", Key(e.req) = k
               PROVE  FALSE
    BY <1>1 DEF Initiations, Endpoint, Key
  <2>1. e \notin events
    BY DEF UsedUp, Initiations
  <2>2. PICK r \in Requests : pc[r] = "emit" /\ e = Publication(r)
    BY <1>0, <2>1, NewEvents
  <2>3. e.req = r /\ rows[k] = r
    BY <1>0, <2>2 DEF Publication, RowsOwned
  <2> QED
    BY <2>2, <2>3 DEF UsedUp
<1> QED
  BY <1>0, <1>1, <1>2, <1>3, RequestsAssumption DEF UsedUp

(* A key does not survive the death of its process, or an error of the     *)
(* broker or the database, between the row and the event: the catch block  *)
(* deletes the lock and not the row (payment.controller.ts, lines 96 to    *)
(* 129), so that no retry, wherever and whenever, initiates the payment.   *)
THEOREM LostKeys ==
    Spec => /\ [](\A k \in Keys : UsedUp(k) => NothingInitiated(k))
            /\ [][\A k \in Keys : UsedUp(k) => UsedUp(k)' /\ rows'[k] = rows[k]]_vars
<1>1. IInv => \A k \in Keys : UsedUp(k) => NothingInitiated(k)
  BY DEF IInv, ResultsBacked, Backed, UsedUp, NothingInitiated, Initiations
<1>2. IInv /\ [Next]_vars => \A k \in Keys : UsedUp(k) => UsedUp(k)' /\ rows'[k] = rows[k]
  BY UsedUpStays
<1> QED
  BY <1>1, <1>2, Inductive, PTL DEF Spec
=============================================================================
