---------------------- MODULE IdempotentPaymentProofs ----------------------
(* What TLAPS proves of IdempotentPayment: for any number of calls and     *)
(* keys, for both services, whatever fails and dies.                       *)
EXTENDS IdempotentPayment, TLAPS

(* A result of executePayment is a payment. *)
LEMMA ResultsArePayments ==
    /\ NoResult \notin Results
    /\ 0 \in Times
    /\ \A t \in Times : Result(t) \in Results
<1>1. ASSUME NEW t, Result(t) = NoResult PROVE FALSE
  <2>1. Result(t).paid = TRUE /\ NoResult.paid = FALSE
    BY Zenon DEF Result, NoResult
  <2> QED
    BY <1>1, <2>1, Zenon
<1>2. NoResult \notin Results
  BY <1>1 DEF Results
<1> QED
  BY <1>2, ClockAssumption DEF Results, Times

LEMMA Initially == Init => IInv
<1> SUFFICES ASSUME Init PROVE IInv
  OBVIOUS
<1>1. NoRow \in Rows
  BY DEF NoRow, Rows, RowStatuses
<1>2. TypeOK
  BY <1>1, ResultsArePayments DEF Init, TypeOK, Labels, Outcomes
<1>3. /\ RowsKnown /\ WorkersKnown /\ EventsKnown /\ AnswersKnown
      /\ EventsMatchRows /\ OwnSuccessIsAnnounced
  BY DEF Init, RowsKnown, WorkersKnown, EventsKnown, AnswersKnown,
         EventsMatchRows, OwnSuccessIsAnnounced, Working
<1> QED
  BY <1>2, <1>3 DEF IInv

-----------------------------------------------------------------------------
(* A call that goes on without touching table or broker, or ends without   *)
(* a result.                                                               *)
LEMMA QuietKeeps ==
    ASSUME IInv, NEW r \in Requests, NEW l \in {"find", "insert", "fail", "over"},
           UNCHANGED <<fixed, result, answer, rows, events, clock>>,
           Goto(r, l), pc[r] # "over",
           pc[r] \in Working => l \in {"fail", "over"},
           l = "fail" => pc[r] \in {"complete", "announce"},
           \/ UNCHANGED outcome
           \/ l = "over" /\ \E how \in {"conflict", "rejected"} :
                                outcome' = [outcome EXCEPT ![r] = how]
    PROVE  IInv'
<1> USE DEF fixed, Goto
<1>1. TypeOK'
  BY DEF IInv, TypeOK, Labels, Outcomes
<1>2. RowsKnown' /\ WorkersKnown'
  BY DEF IInv, TypeOK, RowsKnown, WorkersKnown, Row, Working
<1>3. EventsKnown'
  BY DEF IInv, TypeOK, EventsKnown, Completion, Working, Events
<1>4. AnswersKnown'
  BY DEF IInv, TypeOK, AnswersKnown, Row
<1>5. EventsMatchRows'
  BY DEF IInv, EventsMatchRows, Row
<1>6. OwnSuccessIsAnnounced'
  BY DEF IInv, TypeOK, OwnSuccessIsAnnounced, Completion, Row
<1> QED
  BY <1>1, <1>2, <1>3, <1>4, <1>5, <1>6 DEF IInv
(* A row that is inserted, where there was none.                           *)
LEMMA InsertKeeps ==
    ASSUME IInv, NEW r \in Requests,
           UNCHANGED <<fixed, answer, events, clock>>,
           pc[r] = "insert", Row(r) = NoRow,
           rows' = [rows EXCEPT ![keyOf[r]] = Processing(r)],
           \/ /\ Goto(r, "complete")
              /\ UNCHANGED outcome
              /\ result' = [result EXCEPT ![r] = Result(clock)]
           \/ /\ Goto(r, "over")
              /\ outcome' = [outcome EXCEPT ![r] = "rejected"]
              /\ UNCHANGED result
    PROVE  IInv'
<1> USE DEF fixed, Goto
<1>1. /\ keyOf[r] \in Keys /\ Processing(r) \in Rows /\ Processing(r) # NoRow
      /\ Result(clock) \in Results /\ Processing(r).owner = r
      /\ Processing(r).status = "processing" /\ Processing(r).response = NoResult
  BY RequestsAssumption, ResultsArePayments
     DEF IInv, TypeOK, Processing, Rows, RowStatuses, NoRow
<1>2. TypeOK'
  BY <1>1 DEF IInv, TypeOK, Labels, Outcomes
<1>3. \A q \in Requests : q # r =>
          /\ pc'[q] = pc[q] /\ outcome'[q] = outcome[q] /\ result'[q] = result[q]
          /\ rows'[keyOf[q]] = rows[keyOf[q]] \/ rows[keyOf[q]] = NoRow
  BY <1>1 DEF IInv, TypeOK, Row
<1>4. RowsKnown'
  <2> SUFFICES ASSUME NEW k \in Keys, rows'[k] # NoRow
               PROVE  LET o == rows'[k].owner
                      IN  /\ o \in Requests
                          /\ keyOf[o] = k
                          /\ pc'[o] \in Working \cup {"over"}
                          /\ rows'[k].status # "absent"
                          /\ rows'[k].response =
                                 IF rows'[k].status = "processing" THEN NoResult ELSE result'[o]
                          /\ rows'[k].status # "processing" => result'[o] \in Results
    BY DEF RowsKnown
  <2>1. CASE k = keyOf[r]
    BY <1>1, <2>1 DEF IInv, TypeOK, Working
  <2>2. CASE k # keyOf[r]
    <3>1. rows'[k] = rows[k]
      BY <2>2 DEF IInv, TypeOK
    <3>2. rows[k].owner # r /\ rows[k].owner \in Requests
      BY <3>1 DEF IInv, RowsKnown, Working
    <3> QED
      BY <1>3, <3>1, <3>2 DEF IInv, RowsKnown
  <2> QED
    BY <2>1, <2>2
<1>5. WorkersKnown'
  BY <1>1, <1>3, RequestsAssumption
     DEF IInv, TypeOK, WorkersKnown, Row, Working, NoRow
<1>6. EventsKnown'
  BY <1>3 DEF IInv, TypeOK, EventsKnown, Completion, Events
<1>7. AnswersKnown'
  BY <1>1, <1>3 DEF IInv, TypeOK, AnswersKnown, Row
<1>8. EventsMatchRows'
  BY <1>1, <1>3, RequestsAssumption DEF IInv, TypeOK, EventsMatchRows, Row, Events, NoRow
<1>9. OwnSuccessIsAnnounced'
  BY <1>1, <1>3 DEF IInv, TypeOK, OwnSuccessIsAnnounced, AnswersKnown, Completion, Row
<1> QED
  BY <1>2, <1>4, <1>5, <1>6, <1>7, <1>8, <1>9 DEF IInv

(* A call that writes its result and a status into its row, or tries to.   *)
LEMMA SaveKeeps ==
    ASSUME IInv, NEW r \in Requests, NEW status \in {"completed", "failed"},
           NEW l \in {"announce", "fail", "announceFailure", "over"},
           UNCHANGED <<fixed, result, answer, events, clock>>,
           Goto(r, l), rows' = Saved(r, status),
           \/ pc[r] = "complete" /\ status = "completed" /\ l \in {"announce", "fail"}
           \/ pc[r] = "fail" /\ status = "failed" /\ l \in {"announceFailure", "over"},
           \/ UNCHANGED outcome
           \/ l = "over" /\ outcome' = [outcome EXCEPT ![r] = "rejected"]
    PROVE  IInv'
<1> USE DEF fixed, Goto
<1>1. /\ keyOf[r] \in Keys /\ Row(r).owner = r /\ Row(r) # NoRow
      /\ result[r] \in Results /\ pc[r] \in Working
      /\ Row(r).response \in {NoResult, result[r]}
  BY RequestsAssumption
     DEF IInv, TypeOK, WorkersKnown, RowsKnown, Row, Working, NoRow
<1>2. /\ rows'[keyOf[r]] = [owner |-> r, status |-> status, response |-> result[r]]
      /\ rows'[keyOf[r]] \in Rows /\ rows'[keyOf[r]] # NoRow
      /\ \A k \in Keys : k # keyOf[r] => rows'[k] = rows[k]
  BY <1>1, RequestsAssumption DEF Saved, IInv, TypeOK, Rows, RowStatuses, NoRow
<1>3. TypeOK'
  BY <1>1, <1>2 DEF IInv, TypeOK, Labels, Outcomes, Saved
<1>4. \A q \in Requests : q # r =>
          /\ pc'[q] = pc[q] /\ outcome'[q] = outcome[q]
          /\ keyOf[q] = keyOf[r] => Row(q).owner # q
  BY <1>1 DEF IInv, TypeOK, Row
<1>5. RowsKnown'
  <2> SUFFICES ASSUME NEW k \in Keys, rows'[k] # NoRow
               PROVE  LET o == rows'[k].owner
                      IN  /\ o \in Requests
                          /\ keyOf[o] = k
                          /\ pc'[o] \in Working \cup {"over"}
                          /\ rows'[k].status # "absent"
                          /\ rows'[k].response =
                                 IF rows'[k].status = "processing" THEN NoResult ELSE result[o]
                          /\ rows'[k].status # "processing" => result[o] \in Results
    BY DEF RowsKnown
  <2>1. CASE k = keyOf[r]
    BY <1>1, <1>2, <2>1 DEF IInv, TypeOK, Working
  <2>2. CASE k # keyOf[r]
    BY <1>1, <1>2, <1>4, <2>2 DEF IInv, RowsKnown
  <2> QED
    BY <2>1, <2>2
<1>6. WorkersKnown'
  BY <1>1, <1>2, <1>4 DEF IInv, TypeOK, WorkersKnown, Row, Working
<1>7. EventsKnown'
  BY <1>4 DEF IInv, TypeOK, EventsKnown, Completion, Events
<1>8. AnswersKnown'
  <2>1. \A q \in Requests : outcome[q] = "returned" /\ keyOf[q] = keyOf[r]
            => answer[q] = result[r]
    BY <1>1 DEF IInv, AnswersKnown, Row
  <2> QED
    BY <1>1, <1>2, <1>4, <2>1 DEF IInv, TypeOK, AnswersKnown, Row, Working
<1>9. EventsMatchRows'
  BY <1>1, <1>2, <1>4 DEF IInv, TypeOK, EventsMatchRows, EventsKnown, Completion, Row, Events
<1>10. OwnSuccessIsAnnounced'
  BY <1>1, <1>2, <1>4
     DEF IInv, TypeOK, OwnSuccessIsAnnounced, AnswersKnown, Completion, Row, Working
<1> QED
  BY <1>3, <1>5, <1>6, <1>7, <1>8, <1>9, <1>10 DEF IInv

(* A call that publishes an event, or tries to.                            *)
LEMMA PublishKeeps ==
    ASSUME IInv, NEW r \in Requests, NEW e,
           UNCHANGED <<fixed, result, rows, clock>>,
           events' = events \cup {e},
           \/ /\ pc[r] = "announce" /\ e = Completion(r)
              /\ Goto(r, "fail") /\ UNCHANGED ended
           \/ /\ pc[r] = "announce" /\ e = Completion(r)
              /\ Return(r, result[r])
           \/ /\ pc[r] = "announceFailure" /\ e = Failure(r)
              /\ Throw(r, "rejected")
    PROVE  IInv'
<1> USE DEF fixed, ended, Goto, Return, Throw
<1>1. /\ Row(r).owner = r /\ result[r] \in Results /\ e \in Events /\ e.req = r
      /\ keyOf[r] \in Keys /\ Row(r) # NoRow
      /\ pc[r] = "announce" =>
             e.type = "PAYMENT_COMPLETED" /\ e.result = result[r] /\ Row(r).status = "completed"
      /\ pc[r] = "announceFailure" => e.type = "PAYMENT_FAILED" /\ Row(r).status = "failed"
  BY RequestsAssumption
     DEF IInv, TypeOK, WorkersKnown, Working, Completion, Failure, Events, Row, NoRow
<1>2. Row(r).response = result[r]
  BY <1>1 DEF IInv, RowsKnown, Row
<1>3. TypeOK'
  BY <1>1 DEF IInv, TypeOK, Labels, Outcomes
<1>4. \A q \in Requests : q # r => pc'[q] = pc[q] /\ outcome'[q] = outcome[q] /\ answer'[q] = answer[q]
  BY DEF IInv, TypeOK
<1>5. RowsKnown' /\ WorkersKnown'
  BY DEF IInv, TypeOK, RowsKnown, WorkersKnown, Row, Working
<1>6. EventsKnown'
  BY <1>1, <1>4 DEF IInv, TypeOK, EventsKnown, Completion, Events
<1>7. AnswersKnown'
  BY <1>1, <1>2, <1>4, ResultsArePayments DEF IInv, TypeOK, AnswersKnown, Row
<1>8. EventsMatchRows'
  BY <1>1, <1>2 DEF IInv, EventsMatchRows, Row
<1>9. OwnSuccessIsAnnounced'
  BY <1>1, <1>4 DEF IInv, TypeOK, OwnSuccessIsAnnounced, AnswersKnown, Completion, Row
<1> QED
  BY <1>3, <1>5, <1>6, <1>7, <1>8, <1>9 DEF IInv
(* A call that is given what its row says.                                 *)
LEMMA ReplayKeeps ==
    ASSUME IInv, NEW r \in Requests, Replay(r)
    PROVE  IInv'
<1> USE DEF fixed, Goto, Return, Replay
<1>1. /\ keyOf[r] \in Keys /\ Row(r) # NoRow
      /\ Row(r).response # NoResult /\ Row(r).response \in Results
      /\ Row(r).owner # r
  <2>1. Row(r) # NoRow /\ keyOf[r] \in Keys
    BY DEF NoRow, IInv, TypeOK
  <2>2. /\ Row(r).owner \in Requests
        /\ pc[Row(r).owner] \in Working \cup {"over"}
        /\ Row(r).response = result[Row(r).owner]
        /\ keyOf[Row(r).owner] = keyOf[r]
    BY <2>1 DEF IInv, RowsKnown, Row
  <2>3. result[Row(r).owner] \in Results
    BY <2>1, <2>2 DEF IInv, RowsKnown, Row
  <2> QED
    BY <2>1, <2>2, <2>3, ResultsArePayments DEF Working
<1>2. TypeOK'
  BY <1>1 DEF IInv, TypeOK, Labels, Outcomes
<1>3. \A q \in Requests : q # r => pc'[q] = pc[q] /\ outcome'[q] = outcome[q] /\ answer'[q] = answer[q]
  BY DEF IInv, TypeOK
<1>4. RowsKnown' /\ WorkersKnown'
  BY DEF IInv, TypeOK, RowsKnown, WorkersKnown, Row, Working
<1>5. EventsKnown'
  BY <1>3 DEF IInv, TypeOK, EventsKnown, Completion, Events
<1>6. AnswersKnown'
  BY <1>1, <1>3 DEF IInv, TypeOK, AnswersKnown, Row
<1>7. EventsMatchRows'
  BY DEF IInv, EventsMatchRows, Row
<1>8. OwnSuccessIsAnnounced'
  BY <1>1, <1>3 DEF IInv, TypeOK, OwnSuccessIsAnnounced, Completion, Row
<1> QED
  BY <1>2, <1>4, <1>5, <1>6, <1>7, <1>8 DEF IInv

LEMMA Preserved == IInv /\ [Next]_vars => IInv'
<1> SUFFICES ASSUME IInv, [Next]_vars PROVE IInv'
  OBVIOUS
<1>1. ASSUME NEW r \in Requests,
             Call(r) \/ AlreadyProcessing(r) \/ NotFound(r) \/ UniqueViolation(r) \/ Die(r)
      PROVE  IInv'
  <2>1. \E l \in {"find", "insert", "over"} : Goto(r, l) /\ (pc[r] \in Working => l = "over")
    BY <1>1 DEF Call, AlreadyProcessing, NotFound, UniqueViolation, Die, Throw, Working
  <2>2. /\ UNCHANGED <<fixed, result, answer, rows, events, clock>>
        /\ pc[r] # "over"
        /\ \/ UNCHANGED outcome
           \/ /\ Goto(r, "over")
              /\ \E how \in {"conflict", "rejected"} : outcome' = [outcome EXCEPT ![r] = how]
    BY <1>1 DEF Call, AlreadyProcessing, NotFound, UniqueViolation, Die, Throw, ended
  <2> QED
    BY <2>1, <2>2, QuietKeeps
<1>2. ASSUME NEW r \in Requests, Replay(r) PROVE IInv'
  BY <1>2, ReplayKeeps
<1>3. ASSUME NEW r \in Requests, Insert(r) PROVE IInv'
  BY <1>3, InsertKeeps DEF Insert, ended
<1>4. ASSUME NEW r \in Requests, FindOrInsertFails(r) PROVE IInv'
  <2>1. CASE UNCHANGED rows
    BY <1>4, <2>1, QuietKeeps DEF FindOrInsertFails, Throw, Working
  <2>2. CASE rows' = [rows EXCEPT ![keyOf[r]] = Processing(r)] /\ pc[r] = "insert" /\ Row(r) = NoRow
    BY <1>4, <2>2, InsertKeeps DEF FindOrInsertFails, Throw
  <2> QED
    BY <1>4, <2>1, <2>2 DEF FindOrInsertFails
<1>5. ASSUME NEW r \in Requests, Complete(r) PROVE IInv'
  BY <1>5, SaveKeeps DEF Complete, ended
<1>6. ASSUME NEW r \in Requests, CompleteFails(r) PROVE IInv'
  <2>1. CASE UNCHANGED rows
    BY <1>6, <2>1, QuietKeeps DEF CompleteFails, ended, Working
  <2>2. CASE rows' = Saved(r, "completed")
    BY <1>6, <2>2, SaveKeeps DEF CompleteFails, ended
  <2> QED
    BY <1>6, <2>1, <2>2 DEF CompleteFails
<1>7. ASSUME NEW r \in Requests, Announce(r) PROVE IInv'
  BY <1>7, PublishKeeps DEF Announce
<1>8. ASSUME NEW r \in Requests, AnnounceFails(r) PROVE IInv'
  <2>1. CASE UNCHANGED events
    BY <1>8, <2>1, QuietKeeps DEF AnnounceFails, ended, Working
  <2>2. CASE events' = events \cup {Completion(r)}
    BY <1>8, <2>2, PublishKeeps DEF AnnounceFails
  <2> QED
    BY <1>8, <2>1, <2>2 DEF AnnounceFails
<1>9. ASSUME NEW r \in Requests, Fail(r) PROVE IInv'
  <2>1. CASE common
    BY <1>9, <2>1, SaveKeeps DEF Fail, Throw, ended
  <2>2. CASE ~common
    BY <1>9, <2>2, SaveKeeps DEF Fail, Throw
  <2> QED
    BY <2>1, <2>2
<1>10. ASSUME NEW r \in Requests, FailFails(r) PROVE IInv'
  <2>1. CASE UNCHANGED rows
    BY <1>10, <2>1, QuietKeeps DEF FailFails, Throw
  <2>2. CASE rows' = Saved(r, "failed")
    BY <1>10, <2>2, SaveKeeps DEF FailFails, Throw
  <2> QED
    BY <1>10, <2>1, <2>2 DEF FailFails
<1>11. ASSUME NEW r \in Requests, AnnounceFailure(r) PROVE IInv'
  <2>1. CASE UNCHANGED events
    BY <1>11, <2>1, QuietKeeps DEF AnnounceFailure, Throw
  <2>2. CASE events' = events \cup {Failure(r)}
    BY <1>11, <2>2, PublishKeeps DEF AnnounceFailure
  <2> QED
    BY <1>11, <2>1, <2>2 DEF AnnounceFailure
<1>12. CASE Tick \/ UNCHANGED vars
  <2>1. UNCHANGED <<common, keyOf, pc, result, outcome, answer, rows, events>> /\ clock' \in Times
    BY <1>12, ClockAssumption DEF Tick, vars, fixed, ended, IInv, TypeOK, Times
  <2> QED
    BY <2>1 DEF IInv, TypeOK, RowsKnown, WorkersKnown, EventsKnown, AnswersKnown,
       EventsMatchRows, OwnSuccessIsAnnounced, Row, Completion
<1> QED
  BY <1>1, <1>2, <1>3, <1>4, <1>5, <1>6, <1>7, <1>8, <1>9, <1>10, <1>11, <1>12 DEF Next

-----------------------------------------------------------------------------
(* The inductive invariant of processPayment: row, result and event of a   *)
(* key belong to one call.                                                 *)
THEOREM Inductive == Spec => []IInv
  BY Initially, Preserved, PTL DEF Spec

(* Type correctness. *)
THEOREM TypeCorrect == Spec => []TypeOK
<1>1. IInv => TypeOK
  BY DEF IInv
<1> QED
  BY <1>1, Inductive, PTL

(* One payment per key is announced, the recorded one, and no success      *)
(* follows an announced failure.                                           *)
THEOREM Announced == Spec => []EventsMatchRows
<1>1. IInv => EventsMatchRows
  BY DEF IInv
<1> QED
  BY <1>1, Inductive, PTL

(* Who did the payment returns it announced. *)
THEOREM OwnSuccess == Spec => []OwnSuccessIsAnnounced
<1>1. IInv => OwnSuccessIsAnnounced
  BY DEF IInv
<1> QED
  BY <1>1, Inductive, PTL

-----------------------------------------------------------------------------
(* A call's UPDATE performs the operation, or leaves it as it was.         *)
LEMMA SaveRefines ==
    ASSUME IInv, NEW r \in Requests, NEW status \in {"completed", "failed"},
           rows' \in {rows, Saved(r, status)},
           pc[r] \in Working, pc'[r] # "new",
           \A q \in Requests \ {r} : pc'[q] = pc[q],
           UNCHANGED <<keyOf, answer>>
    PROVE  [Header!Next]_(Header!vars)
<1>1. /\ Row(r).owner = r /\ Row(r) # NoRow /\ keyOf[r] \in Keys
      /\ result[r] \in Results /\ pc[r] # "new"
  BY RequestsAssumption DEF IInv, TypeOK, WorkersKnown, Working, Row, NoRow
<1>2. Submitted' = Submitted
  BY <1>1 DEF Submitted
<1>3. CASE rows' = rows
  BY <1>2, <1>3 DEF Recorded, Header!vars
<1>4. CASE rows' = Saved(r, status)
  <2>1. Recorded' = [Recorded EXCEPT ![keyOf[r]] = result[r]]
    BY <1>1, <1>4 DEF Recorded, Saved, IInv, TypeOK
  <2>2. Recorded[keyOf[r]] \in {NoResult, result[r]}
    BY <1>1 DEF Recorded, IInv, RowsKnown, Row
  <2>3. CASE Recorded[keyOf[r]] = NoResult
    BY <1>1, <1>2, <2>1, <2>3 DEF Header!Next, Header!Perform
  <2>4. CASE Recorded[keyOf[r]] = result[r]
    <3>1. Recorded' = Recorded
      BY <2>1, <2>4 DEF Recorded
    <3> QED
      BY <1>2, <3>1 DEF Header!vars
  <2> QED
    BY <2>2, <2>3, <2>4
<1> QED
  BY <1>3, <1>4

(* A call that returns what its row says.                                  *)
LEMMA ReturnRefines ==
    ASSUME IInv, NEW r \in Requests, NEW x,
           pc[r] \in {"find", "announce"}, x = Row(r).response, x # NoResult,
           Return(r, x), UNCHANGED <<keyOf, rows>>
    PROVE  [Header!Next]_(Header!vars)
<1>1. keyOf[r] \in Keys /\ answer[r] = NoResult
  BY DEF IInv, TypeOK, AnswersKnown
<1>2. Submitted' = Submitted /\ Submitted[r] = keyOf[r]
  BY DEF Submitted, Return, Goto, IInv, TypeOK
<1>3. Recorded' = Recorded /\ Recorded[keyOf[r]] = x
  BY <1>1 DEF Recorded, Row
<1> QED
  BY <1>1, <1>2, <1>3 DEF Return, Header!Next, Header!Answer

LEMMA NextRefines ==
    ASSUME IInv, [Next]_vars
    PROVE  [Header!Next]_(Header!vars)
<1>1. TypeOK
  BY DEF IInv
<1>2. ASSUME NEW r \in Requests, Call(r) PROVE [Header!Next]_(Header!vars)
  <2>1. keyOf[r] \in Keys /\ Submitted[r] = NoResult
    BY <1>1, <1>2 DEF Call, TypeOK, Submitted
  <2>2. Submitted' = [Submitted EXCEPT ![r] = keyOf[r]]
    BY <1>1, <1>2 DEF Call, Goto, TypeOK, Submitted, fixed
  <2>3. Recorded' = Recorded /\ answer' = answer
    BY <1>2 DEF Call, Recorded, ended
  <2> QED
    BY <2>1, <2>2, <2>3 DEF Header!Next, Header!Submit
<1>3. ASSUME NEW r \in Requests, Replay(r) PROVE [Header!Next]_(Header!vars)
  <2>1. Row(r).response # NoResult
    BY <1>1, <1>3, ResultsArePayments DEF Replay, IInv, RowsKnown, Row, NoRow, TypeOK
  <2> QED
    BY <1>3, <2>1, ReturnRefines DEF Replay, fixed
<1>4. ASSUME NEW r \in Requests, Announce(r) PROVE [Header!Next]_(Header!vars)
  <2>1. Row(r).response = result[r] /\ result[r] # NoResult
    BY <1>1, <1>4, ResultsArePayments
       DEF Announce, IInv, WorkersKnown, RowsKnown, Row, NoRow, Working, TypeOK
  <2> QED
    BY <1>4, <2>1, ReturnRefines DEF Announce, fixed
<1>5. ASSUME NEW r \in Requests,
             Complete(r) \/ CompleteFails(r) \/ Fail(r) \/ FailFails(r)
      PROVE  [Header!Next]_(Header!vars)
  <2>1. /\ \E status \in {"completed", "failed"} : rows' \in {rows, Saved(r, status)}
        /\ pc[r] \in Working
        /\ UNCHANGED <<keyOf, answer>>
        /\ \E l \in {"announce", "fail", "announceFailure", "over"} : Goto(r, l)
    BY <1>5 DEF Complete, CompleteFails, Fail, FailFails, Working, Throw, fixed, ended
  <2>2. pc'[r] # "new" /\ \A q \in Requests \ {r} : pc'[q] = pc[q]
    BY <1>1, <2>1 DEF Goto, TypeOK
  <2> QED
    BY <2>1, <2>2, SaveRefines
<1>6. ASSUME NEW r \in Requests, Insert(r) \/ FindOrInsertFails(r)
      PROVE  [Header!Next]_(Header!vars)
  <2>1. Recorded' = Recorded
    BY <1>1, <1>6 DEF Insert, FindOrInsertFails, Recorded, Processing, Row, NoRow, TypeOK
  <2>2. Submitted' = Submitted /\ answer' = answer
    BY <1>1, <1>6 DEF Insert, FindOrInsertFails, Throw, Goto, Submitted, TypeOK, fixed, ended
  <2> QED
    BY <2>1, <2>2 DEF Header!vars
<1>7. ASSUME NEW r \in Requests,
             \/ AlreadyProcessing(r) \/ NotFound(r) \/ UniqueViolation(r)
             \/ AnnounceFails(r) \/ AnnounceFailure(r) \/ Die(r)
      PROVE  [Header!Next]_(Header!vars)
  <2>1. Recorded' = Recorded /\ answer' = answer
    BY <1>7 DEF AlreadyProcessing, NotFound, UniqueViolation, AnnounceFails, AnnounceFailure,
                Die, Throw, Recorded, ended
  <2>2. Submitted' = Submitted
    BY <1>1, <1>7
       DEF AlreadyProcessing, NotFound, UniqueViolation, AnnounceFails, AnnounceFailure, Die,
           Throw, Goto, Submitted, TypeOK, fixed
  <2> QED
    BY <2>1, <2>2 DEF Header!vars
<1>8. CASE Tick \/ UNCHANGED vars
  BY <1>8 DEF Tick, vars, fixed, ended, Submitted, Recorded, Header!vars
<1> QED
  BY <1>2, <1>3, <1>4, <1>5, <1>6, <1>7, <1>8 DEF Next

(* Both services keep the promise of the Idempotency-Key: under one key    *)
(* one payment, and one result, whatever fails, dies or overlaps.          *)
THEOREM PromiseKept == Spec => KeepsPromise
<1>1. Init => Header!Init
  BY DEF Init, Header!Init, Submitted, Recorded, NoRow
<1>2. IInv /\ [Next]_vars => [Header!Next]_(Header!vars)
  BY NextRefines
<1> QED
  BY <1>1, <1>2, Inductive, PTL DEF Spec, KeepsPromise, Header!Spec

-----------------------------------------------------------------------------
(* What becomes of a key whose payment did not get through.                *)

(* Its row says `failed`, or says `processing` of a call that has ended.   *)
Dead(k) ==
    \/ rows[k].status = "failed"
    \/ rows[k].status = "processing" /\ pc[rows[k].owner] = "over"

(* The row stays as it is, and no further call succeeds.                   *)
StaysDead ==
    \A k \in Keys : Dead(k) =>
        /\ rows'[k] = rows[k]
        /\ \A r \in Requests :
               keyOf[r] = k /\ outcome'[r] = "returned" => outcome[r] = "returned"

(* A call that works on a dead key is the one that failed. *)
LEMMA WorkersOfDead ==
    ASSUME IInv, NEW r \in Requests, Dead(keyOf[r]), pc[r] \in Working
    PROVE  pc[r] \in {"fail", "announceFailure"} /\ Row(r).status = "failed"
BY DEF IInv, TypeOK, WorkersKnown, Working, Dead, Row

LEMMA DeadKept ==
    ASSUME IInv, [Next]_vars
    PROVE  StaysDead
<1>0. TypeOK /\ WorkersKnown /\ RowsKnown
  BY DEF IInv
<1>1. ASSUME NEW r \in Requests,
             \/ Call(r) \/ AlreadyProcessing(r) \/ NotFound(r) \/ UniqueViolation(r)
             \/ AnnounceFailure(r) \/ Die(r)
      PROVE  StaysDead
  BY <1>0, <1>1 DEF StaysDead, Call, AlreadyProcessing, NotFound, UniqueViolation,
     AnnounceFailure, Die, Throw, ended, TypeOK
<1>2. ASSUME NEW r \in Requests, Insert(r) \/ FindOrInsertFails(r)
      PROVE  StaysDead
  <2>1. ~ Dead(keyOf[r]) \/ rows' = rows
    BY <1>2 DEF Insert, FindOrInsertFails, Row, NoRow, Dead
  <2>2. \A k \in Keys \ {keyOf[r]} : rows'[k] = rows[k]
    BY <1>0, <1>2 DEF Insert, FindOrInsertFails, TypeOK
  <2>3. \A q \in Requests : outcome'[q] = "returned" => outcome[q] = "returned"
    BY <1>0, <1>2 DEF Insert, FindOrInsertFails, Throw, ended, TypeOK
  <2> QED
    BY <2>1, <2>2, <2>3 DEF StaysDead
<1>3. ASSUME NEW r \in Requests, Replay(r)
      PROVE  StaysDead
  <2>1. ~ Dead(keyOf[r])
    BY <1>3 DEF Replay, Row, Dead
  <2> QED
    BY <1>0, <1>3, <2>1 DEF StaysDead, Replay, Return, TypeOK
<1>4. ASSUME NEW r \in Requests,
             Complete(r) \/ CompleteFails(r) \/ Announce(r) \/ AnnounceFails(r)
      PROVE  StaysDead
  <2>1. ~ Dead(keyOf[r])
    BY <1>4, WorkersOfDead, IInv
       DEF Complete, CompleteFails, Announce, AnnounceFails, Working
  <2>2. \A k \in Keys \ {keyOf[r]} : rows'[k] = rows[k]
    BY <1>0, <1>4 DEF Complete, CompleteFails, Announce, AnnounceFails, Saved, TypeOK
  <2>3. \A q \in Requests \ {r} : outcome'[q] = outcome[q]
    BY <1>0, <1>4 DEF Complete, CompleteFails, Announce, AnnounceFails, Return, ended,
       TypeOK
  <2> QED
    BY <2>1, <2>2, <2>3 DEF StaysDead
<1>5. ASSUME NEW r \in Requests, Fail(r) \/ FailFails(r)
      PROVE  StaysDead
  <2>1. pc[r] \in Working /\ Row(r).owner = r /\ keyOf[r] \in Keys
    BY <1>0, <1>5 DEF Fail, FailFails, Working, WorkersKnown, TypeOK
  <2>2. Dead(keyOf[r]) => Saved(r, "failed") = rows
    <3>1. Dead(keyOf[r]) => Row(r).status = "failed"
      BY <2>1, WorkersOfDead, IInv
    <3>2. Dead(keyOf[r]) => Row(r).response = result[r] /\ Row(r) \in Rows
      BY <1>0, <2>1, <3>1, RequestsAssumption DEF RowsKnown, Row, NoRow, TypeOK
    <3> QED
      BY <1>0, <2>1, <3>1, <3>2 DEF Saved, Row, Rows, TypeOK
  <2>3. \A k \in Keys \ {keyOf[r]} : rows'[k] = rows[k]
    BY <1>0, <1>5 DEF Fail, FailFails, Saved, TypeOK
  <2>4. \A q \in Requests : outcome'[q] = "returned" => outcome[q] = "returned"
    BY <1>0, <1>5 DEF Fail, FailFails, Throw, ended, TypeOK
  <2>5. Dead(keyOf[r]) => rows' = rows
    BY <1>5, <2>2 DEF Fail, FailFails
  <2> QED
    BY <2>3, <2>4, <2>5 DEF StaysDead
<1>6. CASE Tick \/ UNCHANGED vars
  BY <1>6 DEF StaysDead, Tick, ended, vars
<1> QED
  BY <1>1, <1>2, <1>3, <1>4, <1>5, <1>6 DEF Next

(* A key is lost with its first payment: once that has failed, or its call *)
(* has died before it was completed, the row never changes again and every *)
(* retry is refused, by the look-up or by the unique index (lines 17 to    *)
(* 49 of idempotent-payment.service.ts).                                   *)
THEOREM LostKeys == Spec => [][StaysDead]_vars
  BY DeadKept, Inductive, PTL DEF Spec
=============================================================================
