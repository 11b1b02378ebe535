-------------------------- MODULE PaymentLockProofs --------------------------
(* What TLAPS proves of the Redis lock, of the answer 409 and of what the  *)
(* interceptor's cache remembers, for every number of requests, keys and   *)
(* instances and every set of faults.                                      *)
EXTENDS PaymentControllerProofs

-----------------------------------------------------------------------------
(* Where a request may stand after its own step, by where it stood.        *)
LEMMA Paths ==
    ASSUME TypeOK, NEW r \in Requests, Handle(r)
    PROVE  /\ pc[r] = "intercept" => pc'[r] \in {"handler", "done"}
           /\ pc[r] = "handler" => pc'[r] \in {"lock", "emit", "deliver", "done"}
           /\ pc[r] = "lock" => pc'[r] \in {"persist", "done"}
           /\ pc[r] = "persist" => pc'[r] \in {"emit", "release", "duplicate"}
           /\ pc[r] = "emit" => pc'[r] \in {"cache", "deliver", "release", "done"}
           /\ pc[r] = "cache" => pc'[r] = "deliver"
           /\ pc[r] \in {"release", "duplicate", "deliver"} => pc'[r] = "done"
BY DEF Handle, KeyMissing, Replay, NoReplay, Deliver, Refuse,
       InitiateHit, InitiateMiss, ScheduleOrReverse, AcquireLock, LockTaken,
       LockFails, Persist, UniqueViolation, PersistFails, Emit, EmitFails,
       BrokerError, CacheResponse, Release, Goto, Finish, TypeOK

(* A request whose counter changes has arrived, died or done its own step. *)
LEMMA WhoMoves ==
    ASSUME TypeOK, [Next]_vars, NEW q \in Requests, pc'[q] # pc[q]
    PROVE  \/ Handle(q)
           \/ pc[q] = "new" /\ pc'[q] = "intercept"
           \/ Handled(q) /\ pc'[q] = "lost"
<1>1. CASE \E r \in Requests : Handle(r)
  BY <1>1, HandleMoves
<1>2. CASE \E r \in Requests : Arrive(r)
  BY <1>2 DEF Arrive, Goto, TypeOK
<1>3. CASE \E n \in Instances : Crash(n)
  BY <1>3 DEF Crash, TypeOK
<1> QED
  BY <1>1, <1>2, <1>3 DEF Next, SetLost, DelLost, RedisRestarts, LockExpires,
     HandlerCacheExpires,
     ReplayCacheExpires, Tick, vars

LEMMA FaultsFixed == [Next]_vars => faults' = faults
BY DEF Next, Handle, KeyMissing, Replay, NoReplay, Deliver, Refuse,
       InitiateHit, InitiateMiss, ScheduleOrReverse, AcquireLock, LockTaken,
       LockFails, Persist, UniqueViolation, PersistFails, Emit, EmitFails,
       BrokerError, CacheResponse, Release, Arrive, Crash, SetLost, DelLost,
       RedisRestarts, LockExpires,
       HandlerCacheExpires, ReplayCacheExpires, Tick, vars, fixed

(* Only three actions are a SET that takes effect. *)
LEMMA TookGrows ==
    ASSUME TypeOK, [Next]_vars
    PROVE  /\ took \subseteq took'
           /\ \A r \in took' \ took :
                  /\ pc[r] = "lock"
                  /\ \/ pc'[r] \in {"persist", "done"}
                     \/ "resend" \in faults /\ pc'[r] = "lock"
<1>1. CASE \E r \in Requests : AcquireLock(r) \/ LockFails(r) \/ SetLost(r)
  BY <1>1 DEF AcquireLock, LockFails, SetLost, Goto, Finish, TypeOK
<1>2. CASE UNCHANGED took
  BY <1>2
<1> QED
  BY <1>1, <1>2 DEF Next, Handle, KeyMissing, Replay, NoReplay, Deliver, Refuse,
     InitiateHit, InitiateMiss, ScheduleOrReverse, LockTaken, Persist,
     UniqueViolation, PersistFails, Emit, EmitFails, BrokerError,
     CacheResponse, Release, Arrive, Crash, DelLost, RedisRestarts,
     LockExpires, HandlerCacheExpires, ReplayCacheExpires, Tick, vars

LEMMA RivalStays ==
    ASSUME TypeOK, PathsKnown, [Next]_vars, NEW r \in Requests, HasRival(r)
    PROVE  HasRival(r)'
BY TookGrows, Growth DEF HasRival, Key

-----------------------------------------------------------------------------
(* Only a request that initiates a payment, and may, gets to the lock.     *)
LEMMA InitiatingNext ==
    ASSUME TypeOK, PathsKnown, Initiating, [Next]_vars
    PROVE  Initiating'
<1> SUFFICES ASSUME NEW q \in Requests
             PROVE  /\ pc'[q] \in {"lock", "persist"} => call[q].refusal = "none"
                    /\ pc'[q] \in {"lock", "persist", "release", "duplicate"} =>
                           Endpoint(q) = "initiate"
  BY Growth DEF Initiating, Endpoint
<1>1. CASE pc'[q] = pc[q]
  BY <1>1 DEF Initiating
<1>2. CASE Handle(q)
  BY <1>2 DEF Initiating, Handle, KeyMissing, Replay, NoReplay, Deliver,
     Refuse,
       InitiateHit, InitiateMiss, ScheduleOrReverse, AcquireLock, LockTaken,
       LockFails, Persist, UniqueViolation, PersistFails, Emit, EmitFails,
       BrokerError, CacheResponse, Release, Goto, Finish, TypeOK
<1> QED
  BY <1>1, <1>2, WhoMoves

(* The only way into the try block is the SET of a free lock.              *)
LEMMA Entering ==
    ASSUME TypeOK, PathsKnown, Initiating, [Next]_vars, NEW q \in Requests,
           InCritical(q)', ~ InCritical(q)
    PROVE  AcquireLock(q)
<1>1. /\ Endpoint(q) = "initiate" /\ pc'[q] # pc[q]
      /\ pc'[q] \in {"persist", "emit", "cache", "release", "duplicate"}
      /\ pc[q] \notin {"persist", "emit", "cache", "release", "duplicate"}
  BY Growth DEF InCritical, Endpoint
<1>2. Handle(q)
  BY <1>1, WhoMoves
<1> QED
  BY <1>1, <1>2 DEF Handle, KeyMissing, Replay, NoReplay, Deliver, Refuse,
     InitiateHit, InitiateMiss, ScheduleOrReverse, LockTaken,
     LockFails, Persist, UniqueViolation, PersistFails, Emit, EmitFails,
     BrokerError, CacheResponse, Release, Goto, Finish, TypeOK

(* Who took the lock has got there, and waits no longer unless its SET is  *)
(* sent again.                                                             *)
LEMMA TakersNext ==
    ASSUME TypeOK, PathsKnown, Initiating, TakersMoveOn, TakersGotThere, [Next]_vars
    PROVE  TakersMoveOn' /\ TakersGotThere'
<1>1. ASSUME NEW r \in took
      PROVE  /\ pc'[r] \notin {"new", "intercept", "handler"}
             /\ pc[r] # "lock" => pc'[r] # "lock"
  <2>1. r \in Requests /\ pc[r] \notin {"new", "intercept", "handler"} /\ pc[r] \in Labels
    BY <1>1 DEF TakersGotThere, TypeOK
  <2> QED
    BY <2>1, WhoMoves, Paths, HandleMoves DEF Labels
<1>2. TakersMoveOn'
  BY <1>1, TookGrows, FaultsFixed DEF TakersMoveOn
<1>3. ASSUME NEW r \in Requests, InCritical(r)' PROVE r \in took'
  <2>1. CASE InCritical(r)
    BY <2>1, TookGrows DEF TakersGotThere
  <2>2. CASE ~ InCritical(r)
    BY <1>3, <2>2, Entering DEF AcquireLock
  <2> QED
    BY <2>1, <2>2
<1>4. ASSUME NEW r \in took' PROVE pc'[r] \notin {"new", "intercept", "handler"}
  BY <1>1, <1>4, TookGrows
<1> QED
  BY <1>2, <1>3, <1>4 DEF TakersGotThere

(* A lock goes back to a SET that took effect. *)
LEMMA LocksTakenNext ==
    ASSUME TypeOK, PathsKnown, LocksTaken, [Next]_vars
    PROVE  LocksTaken'
<1> SUFFICES ASSUME NEW k \in lock' PROVE \E s \in took' : Key(s) = k
  BY Growth DEF LocksTaken, Key
<1>1. CASE k \in lock
  BY <1>1, TookGrows DEF LocksTaken
<1>2. CASE k \notin lock
  <2>1. PICK r \in Requests : AcquireLock(r) \/ LockFails(r) \/ SetLost(r)
    BY <1>2 DEF Next, Handle, KeyMissing, Replay, NoReplay, Deliver, Refuse,
       InitiateHit, InitiateMiss, ScheduleOrReverse, LockTaken, Persist,
       UniqueViolation, PersistFails, Emit, EmitFails, BrokerError,
       CacheResponse, Release, Arrive, Crash, DelLost, RedisRestarts,
       LockExpires, HandlerCacheExpires, ReplayCacheExpires, Tick, vars, remote
  <2> QED
    BY <1>2, <2>1 DEF AcquireLock, LockFails, SetLost
<1> QED
  BY <1>1, <1>2

(* Only two actions insert a row. *)
LEMMA RowsGrow ==
    ASSUME TypeOK, PathsKnown, [Next]_vars, NEW k \in Keys, rows'[k] # rows[k]
    PROVE  \E r \in Requests :
               /\ Key(r) = k /\ pc[r] = "persist" /\ rows'[k] = r
               /\ pc'[r] \in {"emit", "release"}
<1>1. PICK r \in Requests : Persist(r) \/ PersistFails(r)
  BY DEF Next, Handle, KeyMissing, Replay, NoReplay, Deliver, Refuse,
       InitiateHit, InitiateMiss, ScheduleOrReverse, AcquireLock, LockTaken,
       LockFails, UniqueViolation, Emit, EmitFails, BrokerError,
       CacheResponse, Release, Arrive, Crash, SetLost, DelLost,
       RedisRestarts, LockExpires, HandlerCacheExpires,
       ReplayCacheExpires, Tick, vars, remote
<1> QED
  BY <1>1 DEF Persist, PersistFails, Goto, TypeOK

(* A row is that of a request which had taken the lock. *)
LEMMA RowsTakenNext ==
    ASSUME TypeOK, PathsKnown, Initiating, TakersGotThere, RowsTaken, [Next]_vars
    PROVE  RowsTaken'
<1> SUFFICES ASSUME NEW k \in Keys, rows'[k] # None
             PROVE  \E s \in took' : /\ s = rows'[k] /\ Key(s) = k
                                     /\ pc'[s] \notin {"lock", "persist"}
  BY Growth DEF RowsTaken, Key
<1>1. CASE rows'[k] = rows[k]
  <2>1. PICK s \in took : /\ s = rows[k] /\ Key(s) = k
                          /\ pc[s] \notin {"lock", "persist"}
    BY <1>1 DEF RowsTaken
  <2>2. s \in Requests /\ pc[s] \in Labels /\ pc[s] \notin {"new", "intercept", "handler"}
    BY <2>1 DEF TypeOK, TakersGotThere
  <2>3. pc'[s] \notin {"lock", "persist"}
    BY <2>1, <2>2, WhoMoves, Paths, HandleMoves DEF Labels
  <2> QED
    BY <1>1, <2>1, <2>3, TookGrows
<1>2. CASE rows'[k] # rows[k]
  <2>1. PICK r \in Requests : /\ Key(r) = k /\ pc[r] = "persist" /\ rows'[k] = r
                              /\ pc'[r] \in {"emit", "release"}
    BY <1>2, RowsGrow
  <2>2. r \in took
    BY <2>1 DEF Initiating, TakersGotThere, InCritical
  <2> QED
    BY <2>1, <2>2, TookGrows
<1> QED
  BY <1>1, <1>2

(* The row a request runs into is another one's. *)
LEMMA DuplicatesNext ==
    ASSUME TypeOK, PathsKnown, RowsTaken, DuplicatesHaveRivals, [Next]_vars
    PROVE  DuplicatesHaveRivals'
<1> SUFFICES ASSUME NEW q \in Requests, pc'[q] = "duplicate" PROVE HasRival(q)'
  BY DEF DuplicatesHaveRivals
<1>1. CASE pc[q] = "duplicate"
  BY <1>1, RivalStays DEF DuplicatesHaveRivals
<1>2. CASE pc[q] # "duplicate"
  <2>1. UniqueViolation(q)
    <3>1. Handle(q)
      BY <1>2, WhoMoves
    <3> QED
      BY <1>2, <3>1 DEF Handle, KeyMissing, Replay, NoReplay, Deliver, Refuse,
         InitiateHit, InitiateMiss, ScheduleOrReverse, AcquireLock, LockTaken,
         LockFails, Persist, PersistFails, Emit, EmitFails,
         BrokerError, CacheResponse, Release, Goto, Finish, TypeOK
  <2>2. Key(q) \in Keys /\ rows[Key(q)] # None /\ pc[q] = "persist"
    BY <2>1 DEF UniqueViolation, PathsKnown
  <2>3. /\ rows[Key(q)] \in took /\ Key(rows[Key(q)]) = Key(q)
        /\ rows[Key(q)] # q
    BY <2>2 DEF RowsTaken
  <2> QED
    BY <2>3, RivalStays DEF HasRival
<1> QED
  BY <1>1, <1>2

(* An answer changes with its own request's last step only. *)
LEMMA AnswerEnds ==
    ASSUME TypeOK, [Next]_vars, NEW q \in Requests, reply'[q] # reply[q]
    PROVE  Handle(q) /\ pc'[q] = "done"
<1>1. PICK r \in Requests : Handle(r)
  BY DEF Next, Arrive, Crash, SetLost, DelLost, RedisRestarts, LockExpires,
     HandlerCacheExpires, ReplayCacheExpires, Tick, vars
<1>2. UNCHANGED reply \/ \E x : Finish(r, x)
  BY <1>1 DEF Handle, KeyMissing, Replay, NoReplay, Deliver, Refuse,
     InitiateHit, InitiateMiss, ScheduleOrReverse, AcquireLock, LockTaken,
     LockFails, Persist, UniqueViolation, PersistFails, Emit, EmitFails,
     BrokerError, CacheResponse, Release
<1> QED
  BY <1>1, <1>2 DEF Finish, Goto, TypeOK

LEMMA ConflictsEndNext ==
    ASSUME TypeOK, ConflictsEnd, [Next]_vars
    PROVE  ConflictsEnd'
<1> SUFFICES ASSUME NEW q \in Requests, reply'[q].status = "conflict"
             PROVE  pc'[q] = "done"
  BY DEF ConflictsEnd
<1>1. CASE reply'[q] = reply[q]
  BY <1>1, WhoMoves, HandleMoves DEF ConflictsEnd, Handled, Settled
<1> QED
  BY <1>1, AnswerEnds

(* How a request comes to be answered 409. *)
LEMMA ConflictsNext ==
    ASSUME TypeOK, PathsKnown, TakersMoveOn, LocksTaken, RowsTaken,
           DuplicatesHaveRivals, ConflictsEnd, ConflictHasRival, [Next]_vars
    PROVE  ConflictHasRival'
<1> SUFFICES ASSUME NEW q \in Requests, Key(q) # None, reply'[q].status = "conflict"
             PROVE  HasRival(q)' \/ MetOwnLock(q)'
  BY Growth DEF ConflictHasRival, Key
<1>0. Key(q) \in Keys /\ Key(q)' = Key(q) /\ faults' = faults /\ took \subseteq took'
  BY CallTypes, Growth, FaultsFixed, TookGrows DEF Key
(* A row never becomes that of a request which is not at its INSERT.       *)
<1>1. ASSUME MetOwnLock(q), pc[q] # "persist" PROVE MetOwnLock(q)'
  <2>1. rows'[Key(q)] # q
    BY <1>0, <1>1, RowsGrow DEF MetOwnLock
  <2> QED
    BY <1>0, <1>1, <2>1 DEF MetOwnLock
<1>2. CASE reply'[q] = reply[q]
  BY <1>1, <1>2, RivalStays DEF ConflictHasRival, ConflictsEnd
<1>3. CASE reply'[q] # reply[q]
  <2>1. Handle(q)
    BY <1>3, AnswerEnds
  <2>2. \/ UNCHANGED reply
        \/ reply' = [reply EXCEPT ![q] = Failure("failed")]
        \/ reply' = [reply EXCEPT ![q] = Failure(call[q].refusal)] /\ call[q].refusal # "none"
        \/ \E x : IsSuccess(x) /\ reply' = [reply EXCEPT ![q] = x]
        \/ KeyMissing(q)
        \/ LockTaken(q)
        \/ pc[q] = "duplicate"
    BY <2>1, ReplyTypes, CallTypes
       DEF Handle, Replay, NoReplay, Deliver, Refuse,
         InitiateHit, InitiateMiss, ScheduleOrReverse, AcquireLock,
         LockFails, Persist, UniqueViolation, PersistFails, Emit, EmitFails,
         BrokerError, CacheResponse, Release, Finish, TypeOK
  <2>3. /\ Failure("failed").status # "conflict"
        /\ call[q].refusal # "none" => Failure(call[q].refusal).status # "conflict"
        /\ \A x : IsSuccess(x) => x.status # "conflict"
    BY CallTypes DEF Failure, StatusOf, IsSuccess
  <2>4. LockTaken(q) \/ pc[q] = "duplicate"
    BY <1>3, <2>2, <2>3 DEF KeyMissing, TypeOK
  <2>5. CASE LockTaken(q)
    <3>1. pc[q] = "lock"
      BY <2>5 DEF LockTaken
    <3>2. PICK s \in took : Key(s) = Key(q)
      BY <2>5 DEF LockTaken, LocksTaken
    <3>3. CASE s # q
      BY <3>2, <3>3, RivalStays DEF HasRival
    <3>4. CASE s = q
      <4>1. MetOwnLock(q)
        BY <1>0, <3>1, <3>2, <3>4, RequestsAssumption
           DEF MetOwnLock, TakersMoveOn, RowsTaken, TypeOK
      <4> QED
        BY <1>1, <3>1, <4>1
    <3> QED
      BY <3>3, <3>4
  <2>6. CASE pc[q] = "duplicate"
    BY <2>6, RivalStays DEF DuplicatesHaveRivals
  <2> QED
    BY <2>4, <2>5, <2>6
<1> QED
  BY <1>2, <1>3

-----------------------------------------------------------------------------
(* A lock goes when its time is up or a request in the try block deletes it. *)
LEMMA LockGoes ==
    ASSUME TypeOK, Initiating, [Next]_vars, ~ LockMayGo, NEW k \in lock, k \notin lock'
    PROVE  \/ LockExpires(k)
           \/ \E r \in Requests : InCritical(r) /\ Key(r) = k /\ pc'[r] = "done"
<1>0. "resend" \notin faults /\ "redisLoss" \notin faults
  BY DEF LockMayGo
<1>1. \/ \E j \in Keys : LockExpires(j)
      \/ \E r \in Requests : Release(r)
  BY <1>0
     DEF Next, Handle, KeyMissing, Replay, NoReplay, Deliver, Refuse,
       InitiateHit, InitiateMiss, ScheduleOrReverse, AcquireLock, LockTaken,
       LockFails, Persist, UniqueViolation, PersistFails, Emit, EmitFails,
       BrokerError, CacheResponse, Arrive, Crash, SetLost, DelLost,
       RedisRestarts, HandlerCacheExpires, ReplayCacheExpires, Tick, vars, remote
<1>2. CASE \E j \in Keys : LockExpires(j)
  BY <1>2 DEF LockExpires
<1>3. CASE \E r \in Requests : Release(r)
  BY <1>3 DEF Release, Finish, Goto, InCritical, Initiating, TypeOK
<1> QED
  BY <1>1, <1>2, <1>3

LEMMA HoldersHoldNext ==
    ASSUME TypeOK, PathsKnown, Initiating, HoldersHold, MutualExclusion, [Next]_vars
    PROVE  HoldersHold'
<1> SUFFICES ASSUME ~ LockMayGo', NEW q \in Requests, InCritical(q)'
             PROVE  Key(q) \in lock'
  BY Growth DEF HoldersHold, Key
<1>0. ~ LockMayGo
  BY FaultsFixed DEF LockMayGo
<1>1. CASE ~ InCritical(q)
  BY <1>1, Entering DEF AcquireLock
<1>2. CASE InCritical(q)
  <2>1. Key(q) \in lock
    BY <1>0, <1>2 DEF HoldersHold
  <2>2. ASSUME Key(q) \notin lock' PROVE FALSE
    <3>1. CASE LockExpires(Key(q))
      BY <1>0, <1>2, <3>1 DEF LockExpires, LockMayGo
    <3>2. CASE \E r \in Requests : InCritical(r) /\ Key(r) = Key(q) /\ pc'[r] = "done"
      BY <1>0, <1>2, <3>2 DEF MutualExclusion, InCritical
    <3> QED
      BY <1>0, <2>1, <2>2, <3>1, <3>2, LockGoes
  <2> QED
    BY <2>2
<1> QED
  BY <1>1, <1>2

LEMMA MutualExclusionNext ==
    ASSUME TypeOK, PathsKnown, Initiating, HoldersHold, MutualExclusion, [Next]_vars
    PROVE  MutualExclusion'
<1> SUFFICES ASSUME ~ LockMayGo', NEW q \in Requests, NEW s \in Requests,
                    InCritical(q)', InCritical(s)', Key(q) = Key(s)
             PROVE  q = s
  BY Growth DEF MutualExclusion, Key
<1>0. ~ LockMayGo
  BY FaultsFixed DEF LockMayGo
(* Who enters finds the lock free, so that nobody else is inside.          *)
<1>1. ASSUME NEW a \in Requests, NEW b \in Requests, a # b, Key(a) = Key(b),
             AcquireLock(a), InCritical(b)'
      PROVE  FALSE
  <2>1. pc'[b] = pc[b] /\ Endpoint(b)' = Endpoint(b)
    BY <1>1, Growth DEF AcquireLock, Goto, TypeOK, Endpoint
  <2>2. InCritical(b)
    BY <1>1, <2>1 DEF InCritical
  <2> QED
    BY <1>0, <1>1, <2>2 DEF HoldersHold, AcquireLock
<1>2. CASE InCritical(q) /\ InCritical(s)
  BY <1>0, <1>2 DEF MutualExclusion
<1>3. CASE ~ InCritical(q)
  BY <1>1, <1>3, Entering
<1>4. CASE ~ InCritical(s)
  BY <1>1, <1>4, Entering
<1> QED
  BY <1>2, <1>3, <1>4

-----------------------------------------------------------------------------
(* Locks, rows and refusals go back to a request whose SET took effect,    *)
(* whatever goes wrong; and where nothing takes a lock away from under its *)
(* holder (LockMayGo: work that outlives it, a DEL sent twice, a Redis     *)
(* that lost it), it is the holder's until it is done.                     *)
THEOREM LockInductive == Spec => []LockInv
<1>1. Init => LockInv
  BY DEF Init, LockInv, Initiating, TakersMoveOn, TakersGotThere, LocksTaken,
         RowsTaken, DuplicatesHaveRivals, ConflictsEnd, ConflictHasRival,
         HoldersHold, MutualExclusion, InCritical, NoReply
<1>2. IInv /\ LockInv /\ [Next]_vars => LockInv'
  BY InitiatingNext, TakersNext, LocksTakenNext, RowsTakenNext, DuplicatesNext,
     ConflictsEndNext, ConflictsNext, HoldersHoldNext, MutualExclusionNext
     DEF IInv, LockInv
<1> QED
  BY <1>1, <1>2, Inductive, PTL DEF Spec

(* The lock of a key admits one request at a time to the try block, also   *)
(* when processes die, calls throw and a SET takes effect behind its       *)
(* error, as long as no lock goes from under its holder: no work outlives  *)
(* it, no DEL is executed twice, Redis keeps its keys.                     *)
THEOREM Exclusion == Spec => []MutualExclusion
<1>1. LockInv => MutualExclusion
  BY DEF LockInv
<1> QED
  BY <1>1, LockInductive, PTL

(* Under every fault, who sends a key and is told 409 has a rival that had *)
(* taken the lock, or met the lock its own SET had left before the client  *)
(* sent it again; without re-sent commands it has a rival.                 *)
THEOREM Rivalry == Spec => []ConflictHasRival
<1>1. LockInv => ConflictHasRival
  BY DEF LockInv
<1> QED
  BY <1>1, LockInductive, PTL

-----------------------------------------------------------------------------
(* What the interceptor's cache remembers.                                 *)

(* A success on its way out is in the cache of its instance.               *)
Stored == \A q \in Requests :
    IsSuccess(reply[q]) => IsSuccess(replayCache[node[q]][Key(q)])

(* What an arriving request was promised, a client has. *)
PromisesGiven == \A r \in Requests : \A x \in promised[r] :
    \E q \in Requests : call[q] = call[r] /\ reply[q] = x /\ IsSuccess(x)

(* Who was promised something does not get past the interceptor.           *)
PromisesMet == \A r \in Requests : promised[r] # {} =>
    \/ pc[r] = "intercept"
    \/ pc[r] = "done" /\ IsSuccess(reply[r])

MemoryInv == PromisesGiven /\ (OneMemory => Stored /\ PromisesMet)

LEMMA MemoryFixed == [Next]_vars => node' = node /\ OneMemory' = OneMemory
<1> SUFFICES ASSUME [Next]_vars PROVE UNCHANGED fixed
  BY DEF fixed, OneMemory
<1> QED
  BY DEF Next, Handle, KeyMissing, Replay, NoReplay, Deliver, Refuse,
       InitiateHit, InitiateMiss, ScheduleOrReverse, AcquireLock, LockTaken,
       LockFails, Persist, UniqueViolation, PersistFails, Emit, EmitFails,
       BrokerError, CacheResponse, Release, Arrive, Crash, SetLost, DelLost,
       RedisRestarts, LockExpires,
       HandlerCacheExpires, ReplayCacheExpires, Tick, vars

(* An answer that told of a success stays what it is. *)
LEMMA AnswersStay ==
    ASSUME IInv, [Next]_vars, NEW q \in Requests, IsSuccess(reply[q])
    PROVE  reply'[q] = reply[q]
<1>1. pc[q] = "done" /\ TypeOK
  BY DEF IInv, AnsweredOnce
<1>2. ASSUME NEW r \in Requests, Handle(r)
      PROVE  reply'[q] = reply[q]
  <2>1. r # q
    BY <1>1, <1>2, HandleMoves
  <2> QED
    BY <1>1, <1>2, <2>1 DEF Handle, KeyMissing, Replay, NoReplay, Deliver,
       Refuse, InitiateHit, InitiateMiss, ScheduleOrReverse, AcquireLock,
       LockTaken, LockFails, Persist, UniqueViolation, PersistFails, Emit,
       EmitFails, BrokerError, CacheResponse, Release, Finish, TypeOK
<1> QED
  BY <1>2 DEF Next, Arrive, Crash, SetLost, DelLost, RedisRestarts,
     LockExpires, HandlerCacheExpires,
     ReplayCacheExpires, Tick, vars

(* Nobody is told of a success without a key. *)
LEMMA SuccessHasKey ==
    ASSUME IInv, NEW q \in Requests, IsSuccess(reply[q])
    PROVE  Key(q) \in Keys
BY DEF IInv, ResultsBacked, Backed, EventsOwned

(* Promises are noted as a request arrives, and only then. *)
LEMMA PromiseSources ==
    ASSUME TypeOK, [Next]_vars, NEW r \in Requests
    PROVE  \/ promised'[r] = promised[r]
           \/ /\ Arrive(r)
              /\ promised'[r] = {reply[s] : s \in {q \in Requests :
                                    IsSuccess(reply[q]) /\ call[q] = call[r]}}
<1> DEFINE answered(s) == {reply[t] : t \in {q \in Requests :
                               IsSuccess(reply[q]) /\ call[q] = call[s]}}
<1>1. CASE \E s \in Requests : Arrive(s)
  <2>1. PICK s \in Requests : Arrive(s)
    BY <1>1
  <2>2. promised' = [promised EXCEPT ![s] = answered(s)]
    BY <2>1 DEF Arrive
  <2> HIDE DEF answered
  <2>3. (s = r /\ promised'[r] = answered(r)) \/ promised'[r] = promised[r]
    BY <2>2 DEF TypeOK
  <2> QED
    BY <2>1, <2>3 DEF answered
<1>2. CASE UNCHANGED promised
  BY <1>2
<1> QED
  BY <1>1, <1>2 DEF Next, Handle, KeyMissing, Replay, NoReplay, Deliver,
     Refuse,
       InitiateHit, InitiateMiss, ScheduleOrReverse, AcquireLock, LockTaken,
       LockFails, Persist, UniqueViolation, PersistFails, Emit, EmitFails,
       BrokerError, CacheResponse, Release, Crash, SetLost, DelLost,
       RedisRestarts, LockExpires,
       HandlerCacheExpires, ReplayCacheExpires, Tick, vars

LEMMA PromisesGivenNext ==
    ASSUME IInv, PromisesGiven, [Next]_vars
    PROVE  PromisesGiven'
<1> SUFFICES ASSUME NEW r \in Requests, NEW x \in promised'[r]
             PROVE  \E q \in Requests : call'[q] = call'[r] /\ reply'[q] = x /\ IsSuccess(x)
  BY DEF PromisesGiven
<1>1. call' = call /\ TypeOK
  BY Growth DEF IInv
<1>2. \E q \in Requests : call[q] = call[r] /\ reply[q] = x /\ IsSuccess(x)
  BY <1>1, PromiseSources DEF PromisesGiven
<1> QED
  BY <1>1, <1>2, AnswersStay

(* An instance that keeps its memory forgets no success. *)
LEMMA MemoryKept ==
    ASSUME TypeOK, PathsKnown, OneMemory, [Next]_vars, NEW n \in Instances, NEW k \in Keys,
           IsSuccess(replayCache[n][k])
    PROVE  IsSuccess(replayCache'[n][k])
<1>1. CASE \E r \in Requests : Deliver(r)
  <2>1. PICK r \in Requests : Deliver(r)
    BY <1>1
  <2>2. IsSuccess(Success(Endpoint(r), pid[r]))
    BY DEF IsSuccess, Success
  <2> QED
    BY <2>1, <2>2, CallTypes DEF Deliver, PathsKnown, TypeOK
<1>2. CASE UNCHANGED replayCache
  BY <1>2
<1> QED
  BY <1>1, <1>2 DEF OneMemory, Next, Handle, KeyMissing, Replay, NoReplay,
     Refuse,
       InitiateHit, InitiateMiss, ScheduleOrReverse, AcquireLock, LockTaken,
       LockFails, Persist, UniqueViolation, PersistFails, Emit, EmitFails,
       BrokerError, CacheResponse, Release, Arrive, Crash, SetLost, DelLost,
       RedisRestarts, LockExpires,
       HandlerCacheExpires, ReplayCacheExpires, Tick, vars, caches

LEMMA StoredNext ==
    ASSUME IInv, OneMemory, Stored, [Next]_vars
    PROVE  Stored'
<1> SUFFICES ASSUME NEW q \in Requests, IsSuccess(reply'[q])
             PROVE  IsSuccess(replayCache'[node[q]][Key(q)])
  BY MemoryFixed, Growth DEF Stored, Key, IInv
<1>0. TypeOK /\ PathsKnown /\ node[q] \in Instances
  BY DEF IInv, TypeOK
<1>1. \/ reply'[q] = reply[q]
      \/ Deliver(q)
      \/ Replay(q) /\ reply'[q] = replayCache[node[q]][Key(q)]
  BY <1>0, ReplySources
<1>2. CASE reply'[q] = reply[q]
  <2>1. IsSuccess(reply[q])
    BY <1>2
  <2>2. IsSuccess(replayCache[node[q]][Key(q)]) /\ Key(q) \in Keys
    BY <2>1, SuccessHasKey DEF Stored
  <2> QED
    BY <1>0, <2>2, MemoryKept
<1>3. CASE Deliver(q)
  <2>1. Key(q) \in Keys
    BY <1>0, <1>3 DEF Deliver, PathsKnown
  <2>2. IsSuccess(Success(Endpoint(q), pid[q]))
    BY DEF IsSuccess, Success
  <2> QED
    BY <1>0, <1>3, <2>1, <2>2 DEF Deliver, TypeOK
<1>4. CASE Replay(q)
  <2>1. IsSuccess(replayCache[node[q]][Key(q)]) /\ Key(q) \in Keys
    BY <1>0, <1>4, CallTypes DEF Replay
  <2> QED
    BY <1>0, <2>1, MemoryKept
<1> QED
  BY <1>1, <1>2, <1>3, <1>4

(* A request that equals one answered before it finds the answer's key in  *)
(* its own instance's cache.                                               *)
LEMMA PromiseIsStored ==
    ASSUME IInv, OneMemory, Stored, PromisesGiven, NEW r \in Requests, promised[r] # {}
    PROVE  Key(r) \in Keys /\ IsSuccess(replayCache[node[r]][Key(r)])
<1>1. PICK q \in Requests : call[q] = call[r] /\ IsSuccess(reply[q])
  BY DEF PromisesGiven
<1>2. Key(q) = Key(r) /\ node[q] = node[r]
  BY <1>1 DEF Key, OneMemory
<1>3. Key(q) \in Keys
  BY <1>1, SuccessHasKey
<1> QED
  BY <1>1, <1>2, <1>3 DEF Stored

LEMMA PromisesMetNext ==
    ASSUME IInv, OneMemory, Stored, PromisesGiven, PromisesMet, [Next]_vars
    PROVE  PromisesMet'
<1> SUFFICES ASSUME NEW r \in Requests, promised'[r] # {}
             PROVE  pc'[r] = "intercept" \/ (pc'[r] = "done" /\ IsSuccess(reply'[r]))
  BY DEF PromisesMet
<1>0. TypeOK
  BY DEF IInv
<1>1. CASE Arrive(r)
  BY <1>0, <1>1 DEF Arrive, Goto, TypeOK
<1>2. CASE ~ Arrive(r)
  <2>1. promised[r] # {}
    BY <1>0, <1>2, PromiseSources
  <2>2. CASE pc[r] = "intercept" /\ pc'[r] # pc[r]
    <3>1. Handle(r)
      <4>1. ~ \E n \in Instances : Crash(n)
        BY DEF Crash, OneMemory
      <4>2. \/ \E s \in Requests : Arrive(s) /\ s # r
            \/ \E s \in Requests : Handle(s)
        BY <1>2, <2>2, <4>1 DEF Next, SetLost, DelLost, RedisRestarts,
           LockExpires, HandlerCacheExpires,
           ReplayCacheExpires, Tick, vars
      <4> QED
        BY <1>0, <2>2, <4>2, HandleMoves DEF Arrive, Goto, TypeOK
    <3>2. Key(r) # None /\ IsSuccess(replayCache[node[r]][Key(r)])
      BY <2>1, PromiseIsStored, RequestsAssumption
    <3>3. Replay(r)
      BY <2>2, <3>1, <3>2 DEF Handle, KeyMissing, NoReplay, Deliver, Refuse,
         InitiateHit, InitiateMiss, ScheduleOrReverse, AcquireLock, LockTaken,
         LockFails, Persist, UniqueViolation, PersistFails, Emit, EmitFails,
         BrokerError, CacheResponse, Release
    <3> QED
      BY <1>0, <3>2, <3>3 DEF Replay, Finish, Goto, TypeOK
  <2>3. CASE pc[r] = "done" /\ IsSuccess(reply[r])
    <3>1. reply'[r] = reply[r]
      BY <2>3, AnswersStay
    <3>2. IInv'
      BY IInvNext
    <3> QED
      BY <2>3, <3>1, <3>2 DEF IInv, AnsweredOnce
  <2>4. CASE pc'[r] = pc[r] /\ pc[r] = "intercept"
    BY <2>4
  <2> QED
    BY <2>1, <2>2, <2>3, <2>4 DEF PromisesMet
<1> QED
  BY <1>1, <1>2

(* The cache of an instance that keeps its memory holds a success under    *)
(* the key of every success it told of, and so a retry stops there; under  *)
(* a key that is used to initiate only, the success is the original one.   *)
THEOREM LocalReplay == Spec => []LocalReplayReturnsOriginal
<1>1. Init => MemoryInv
  BY DEF Init, MemoryInv, PromisesGiven, Stored, PromisesMet, IsSuccess,
     NoReply
<1>2. IInv /\ MemoryInv /\ [Next]_vars => MemoryInv'
  BY MemoryFixed, PromisesGivenNext, StoredNext, PromisesMetNext DEF MemoryInv
<1>3. ASSUME IInv, MemoryInv, OneMemory, NEW r \in Requests, InitiateOnly(Key(r))
      PROVE  GivenOriginal(r)
  <2> SUFFICES ASSUME pc[r] = "done", promised[r] # {}
               PROVE  reply[r] \in promised[r]
    BY DEF GivenOriginal
  <2>1. PICK x \in promised[r], q \in Requests :
            call[q] = call[r] /\ reply[q] = x /\ IsSuccess(x)
    BY <1>3 DEF MemoryInv, PromisesGiven
  <2>2. IsSuccess(reply[r]) /\ Key(q) = Key(r)
    BY <1>3, <2>1 DEF MemoryInv, PromisesMet, Key
  <2> QED
    BY <1>3, <2>1, <2>2, SameResult DEF SameKeySameResult
<1>4. IInv /\ MemoryInv => LocalReplayReturnsOriginal
  BY <1>3 DEF LocalReplayReturnsOriginal
<1> QED
  BY <1>1, <1>2, <1>4, Inductive, PTL DEF Spec
=============================================================================
