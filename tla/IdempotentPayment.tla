-------------------------- MODULE IdempotentPayment --------------------------
(***************************************************************************)
(* processPayment of the two services called IdempotentPaymentService: a   *)
(* row of idempotent_requests per key says `processing`, then `completed`  *)
(* or `failed`, and a payment that is completed is announced by an event.  *)
(* There is no lock; the look-up and the INSERT are two awaits.            *)
(*                                                                         *)
(* PaymentsModule provides the one in modules/payments, and PaymentController *)
(* asks for it without calling it; the one in common/services (`common`)   *)
(* also announces failures and is provided by no module.                   *)
(*                                                                         *)
(* One action is one await, answered.  Each may fail, before or after it   *)
(* took effect, and the process may die at any of them.  A request object  *)
(* is only ever saved by the call that created it, so that a `save` after  *)
(* the first one is an UPDATE of that call's own row.                      *)
(***************************************************************************)
EXTENDS Naturals

CONSTANTS Requests,  \* the calls of processPayment
          Keys,      \* the idempotency keys they are given
          MaxClock,  \* bound: Date.now() runs over 0 .. MaxClock
          None       \* no request

Times == 0 .. MaxClock

NoResult == [paid |-> FALSE, id |-> 0]

(* executePayment simulates: all it does is to make an id of the time.     *)
Result(t) == [paid |-> TRUE, id |-> t]

Results == {Result(t) : t \in Times}

RowStatuses == {"absent", "processing", "completed", "failed"}

Rows == [owner : Requests \cup {None}, status : RowStatuses,
         response : Results \cup {NoResult}]

NoRow == [owner |-> None, status |-> "absent", response |-> NoResult]

Events == [type : {"PAYMENT_COMPLETED", "PAYMENT_FAILED"}, req : Requests,
           result : Results \cup {NoResult}]

Outcomes == {"none", "returned", "conflict", "rejected"}

Labels == {"new", "find", "insert", "complete", "announce", "fail", "announceFailure",
           "over"}

ASSUME RequestsAssumption == None \notin Requests
ASSUME ClockAssumption == MaxClock \in Nat

VARIABLES common,   \* it is the service of common/services
          keyOf,    \* the key of each call
          pc,       \* the await at which it stands
          result,   \* of executePayment, in the call's request object
          outcome,  \* how the call ended
          answer,   \* what it returned
          rows,     \* idempotent_requests
          events,   \* what was published
          clock

fixed == <<common, keyOf>>
ended == <<outcome, answer>>
vars == <<fixed, pc, result, ended, rows, events, clock>>

Init ==
    /\ common \in BOOLEAN
    /\ keyOf \in [Requests -> Keys]
    /\ pc = [r \in Requests |-> "new"]
    /\ result = [r \in Requests |-> NoResult]
    /\ outcome = [r \in Requests |-> "none"]
    /\ answer = [r \in Requests |-> NoResult]
    /\ rows = [k \in Keys |-> NoRow]
    /\ events = {}
    /\ clock = 0

Goto(r, label) == pc' = [pc EXCEPT ![r] = label]

Row(r) == rows[keyOf[r]]

Return(r, x) ==
    /\ Goto(r, "over")
    /\ outcome' = [outcome EXCEPT ![r] = "returned"]
    /\ answer' = [answer EXCEPT ![r] = x]

Throw(r, how) ==
    /\ Goto(r, "over")
    /\ outcome' = [outcome EXCEPT ![r] = how]
    /\ UNCHANGED answer

-----------------------------------------------------------------------------
Call(r) ==
    /\ pc[r] = "new"
    /\ Goto(r, "find")
    /\ UNCHANGED <<fixed, result, ended, rows, events, clock>>

(* Mutant: the row is returned, not its response.                          *)
ReplayRow(r) ==
    /\ pc[r] = "find"
    /\ Row(r).status = "completed"
    /\ Return(r, Row(r))
    /\ UNCHANGED <<fixed, result, rows, events, clock>>

Replay(r) ==
    /\ pc[r] = "find"
    /\ Row(r).status = "completed"
    /\ Return(r, Row(r).response)
    /\ UNCHANGED <<fixed, result, rows, events, clock>>

AlreadyProcessing(r) ==
    /\ pc[r] = "find"
    /\ Row(r).status = "processing"
    /\ Throw(r, "conflict")
    /\ UNCHANGED <<fixed, result, rows, events, clock>>

(* No row, or one that says `failed`, which is no reason to stop here.     *)
NotFound(r) ==
    /\ pc[r] = "find"
    /\ Row(r).status \in {"absent", "failed"}
    /\ Goto(r, "insert")
    /\ UNCHANGED <<fixed, result, ended, rows, events, clock>>

Processing(r) == [owner |-> r, status |-> "processing", response |-> NoResult]

(* Mutant: no unique index.                                                *)
InsertAgain(r) ==
    /\ pc[r] = "insert"
    /\ rows' = [rows EXCEPT ![keyOf[r]] = Processing(r)]
    /\ result' = [result EXCEPT ![r] = Result(clock)]
    /\ Goto(r, "complete")
    /\ UNCHANGED <<fixed, ended, events, clock>>

(* The INSERT, and the payment that follows it without an await that       *)
(* leaves the process.                                                     *)
Insert(r) ==
    /\ pc[r] = "insert"
    /\ Row(r) = NoRow
    /\ rows' = [rows EXCEPT ![keyOf[r]] = Processing(r)]
    /\ result' = [result EXCEPT ![r] = Result(clock)]
    /\ Goto(r, "complete")
    /\ UNCHANGED <<fixed, ended, events, clock>>

(* The unique index refuses the row of a second call, and of a retry after *)
(* a failure; the INSERT is outside the try block.                         *)
UniqueViolation(r) ==
    /\ pc[r] = "insert"
    /\ Row(r) # NoRow
    /\ Throw(r, "rejected")
    /\ UNCHANGED <<fixed, result, rows, events, clock>>

(* The look-up, or the INSERT with its effect or without it.               *)
FindOrInsertFails(r) ==
    /\ pc[r] \in {"find", "insert"}
    /\ \/ UNCHANGED rows
       \/ /\ pc[r] = "insert"
          /\ Row(r) = NoRow
          /\ rows' = [rows EXCEPT ![keyOf[r]] = Processing(r)]
    /\ Throw(r, "rejected")
    /\ UNCHANGED <<fixed, result, events, clock>>

(* What a save of the request object makes of its row.                     *)
Saved(r, status) ==
    [rows EXCEPT ![keyOf[r]] = [owner |-> r, status |-> status, response |-> result[r]]]

(* The UPDATE to `completed`.                                              *)
Complete(r) ==
    /\ pc[r] = "complete"
    /\ rows' = Saved(r, "completed")
    /\ Goto(r, "announce")
    /\ UNCHANGED <<fixed, result, ended, events, clock>>

CompleteFails(r) ==
    /\ pc[r] = "complete"
    /\ rows' \in {rows, Saved(r, "completed")}
    /\ Goto(r, "fail")
    /\ UNCHANGED <<fixed, result, ended, events, clock>>

Completion(r) == [type |-> "PAYMENT_COMPLETED", req |-> r, result |-> result[r]]

(* Mutant: the id is made once more for the event.                         *)
AnnounceNewId(r) ==
    /\ pc[r] = "announce"
    /\ events' = events \cup {[Completion(r) EXCEPT !.result = Result(clock)]}
    /\ Return(r, result[r])
    /\ UNCHANGED <<fixed, result, rows, clock>>

Announce(r) ==
    /\ pc[r] = "announce"
    /\ events' = events \cup {Completion(r)}
    /\ Return(r, result[r])
    /\ UNCHANGED <<fixed, result, rows, clock>>

(* Mutant: the error of the broker is forgotten.                           *)
AnnounceFailsSilently(r) ==
    /\ pc[r] = "announce"
    /\ Return(r, result[r])
    /\ UNCHANGED <<fixed, result, rows, events, clock>>

AnnounceFails(r) ==
    /\ pc[r] = "announce"
    /\ events' \in {events, events \cup {Completion(r)}}
    /\ Goto(r, "fail")
    /\ UNCHANGED <<fixed, result, ended, rows, clock>>

(* The catch block: the row says `failed` from now on, `completed` or not. *)
Fail(r) ==
    /\ pc[r] = "fail"
    /\ rows' = Saved(r, "failed")
    /\ \/ common /\ Goto(r, "announceFailure") /\ UNCHANGED ended
       \/ ~common /\ Throw(r, "rejected")
    /\ UNCHANGED <<fixed, result, events, clock>>

(* It does not get through; the row may say anything.                      *)
FailFails(r) ==
    /\ pc[r] = "fail"
    /\ rows' \in {rows, Saved(r, "failed")}
    /\ Throw(r, "rejected")
    /\ UNCHANGED <<fixed, result, events, clock>>

(* Its paymentId is an empty string.                                       *)
Failure(r) == [type |-> "PAYMENT_FAILED", req |-> r, result |-> NoResult]

(* emitPaymentFailed; published or not, the call ends with an error.       *)
AnnounceFailure(r) ==
    /\ pc[r] = "announceFailure"
    /\ events' \in {events, events \cup {Failure(r)}}
    /\ Throw(r, "rejected")
    /\ UNCHANGED <<fixed, result, rows, clock>>

-----------------------------------------------------------------------------
(* The process dies with the call.                                         *)
Die(r) ==
    /\ pc[r] \notin {"new", "over"}
    /\ Goto(r, "over")
    /\ UNCHANGED <<fixed, result, ended, rows, events, clock>>

Tick ==
    /\ clock < MaxClock
    /\ clock' = clock + 1
    /\ UNCHANGED <<fixed, pc, result, ended, rows, events>>

Next ==
    \/ \E r \in Requests :
        \/ Call(r) \/ Replay(r) \/ AlreadyProcessing(r) \/ NotFound(r)
        \/ Insert(r) \/ UniqueViolation(r) \/ FindOrInsertFails(r)
        \/ Complete(r) \/ CompleteFails(r) \/ Announce(r) \/ AnnounceFails(r)
        \/ Fail(r) \/ FailFails(r) \/ AnnounceFailure(r) \/ Die(r)
    \/ Tick

Spec == Init /\ [][Next]_vars

-----------------------------------------------------------------------------
(* Properties.                                                             *)

(* A call that returns, returns a payment or nothing; a row's columns are  *)
(* those of the entity.                                                    *)
TypeOK ==
    /\ common \in BOOLEAN
    /\ keyOf \in [Requests -> Keys]
    /\ pc \in [Requests -> Labels]
    /\ result \in [Requests -> Results \cup {NoResult}]
    /\ outcome \in [Requests -> Outcomes]
    /\ answer \in [Requests -> Results \cup {NoResult}]
    /\ rows \in [Keys -> Rows]
    /\ events \subseteq Events
    /\ clock \in Times

(* What is announced is on record, for good: under one key one payment at  *)
(* most is ever announced as completed, the one in its row, and an         *)
(* announced failure is never followed by a success, although nothing but  *)
(* the unique index keeps two calls that found no row apart                *)
(* (idempotent-payment.service.ts, lines 15 to 49).                        *)
EventsMatchRows ==
    \A e \in events :
        /\ Row(e.req).owner = e.req
        /\ e.type = "PAYMENT_COMPLETED" =>
               /\ Row(e.req).status \in {"completed", "failed"}
               /\ Row(e.req).response = e.result
        /\ e.type = "PAYMENT_FAILED" => Row(e.req).status = "failed"

(* The call that did the payment does not return it before the broker has  *)
(* confirmed the event: only a replay may be ahead of it.  Its row says    *)
(* `completed` from then on (lines 34 to 42).                              *)
OwnSuccessIsAnnounced ==
    \A r \in Requests :
        outcome[r] = "returned" /\ Row(r).owner = r =>
            Completion(r) \in events /\ Row(r).status = "completed"

(* The promise of the Idempotency-Key.  An operation is done when its      *)
(* result is in the row, also where the row calls it a failure.            *)
Submitted == [r \in Requests |-> IF pc[r] = "new" THEN NoResult ELSE keyOf[r]]

Recorded == [k \in Keys |-> rows[k].response]

Header == INSTANCE IdempotentOperation WITH
              None <- NoResult, keyOf <- Submitted, outcome <- Recorded

(* Both services keep it: all calls with one key that return anything      *)
(* return the same result, and no second one is ever made under that key   *)
(* (openbanking.yml:2440).                                                 *)
KeepsPromise == Header!Spec

-----------------------------------------------------------------------------
(* The inductive invariant.                                                *)

Working == {"complete", "announce", "fail", "announceFailure"}

(* A row was inserted by a call with its key that is past the INSERT, and  *)
(* has that call's result from the first UPDATE on.                        *)
RowsKnown ==
    \A k \in Keys : rows[k] # NoRow =>
        LET o == rows[k].owner
        IN  /\ o \in Requests
            /\ keyOf[o] = k
            /\ pc[o] \in Working \cup {"over"}
            /\ rows[k].status # "absent"
            /\ rows[k].response =
                   IF rows[k].status = "processing" THEN NoResult ELSE result[o]
            /\ rows[k].status # "processing" => result[o] \in Results

(* A call past its INSERT has the row and a result.                        *)
WorkersKnown ==
    \A r \in Requests : pc[r] \in Working =>
        /\ Row(r).owner = r
        /\ result[r] \in Results
        /\ pc[r] = "complete" => Row(r).status = "processing"
        /\ pc[r] = "announce" => Row(r).status = "completed"
        /\ pc[r] = "announceFailure" => Row(r).status = "failed"

(* An event is out only when its call has left the await that sends it.    *)
EventsKnown ==
    \A e \in events :
        /\ e.type = "PAYMENT_COMPLETED" =>
               /\ pc[e.req] \in {"fail", "announceFailure", "over"}
               /\ e = Completion(e.req)
        /\ e.type = "PAYMENT_FAILED" => pc[e.req] = "over"

(* What a call returned is what its row says, and had a result to say.     *)
AnswersKnown ==
    \A r \in Requests :
        /\ outcome[r] # "none" => pc[r] = "over"
        /\ outcome[r] = "returned" => answer[r] = Row(r).response /\ Row(r) # NoRow
        /\ outcome[r] = "returned" => answer[r] # NoResult
        /\ outcome[r] # "returned" => answer[r] = NoResult

(* What the proofs need: a row is its inserter's alone, events and answers *)
(* repeat it (lines 15 to 49).                                             *)
IInv ==
    /\ TypeOK
    /\ RowsKnown
    /\ WorkersKnown
    /\ EventsKnown
    /\ AnswersKnown
    /\ EventsMatchRows
    /\ OwnSuccessIsAnnounced
=============================================================================
