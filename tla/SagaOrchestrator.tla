-------------------------- MODULE SagaOrchestrator --------------------------
(***************************************************************************)
(* One call of SagaOrchestrator.startSaga, down to the rows SagaRepository *)
(* writes.  executeNextStep calls itself from inside its try block, so an  *)
(* error can leave a nested call and reach the catch block of every call   *)
(* around it: `frames` holds the steps whose try block is being executed.  *)
(* A nested call takes a later step, so the innermost frame is the latest  *)
(* of them.                                                                *)
(*                                                                         *)
(* Every await is a step.  A handler that throws has had no effect; a      *)
(* database or broker call that throws may have had its effect or not.     *)
(***************************************************************************)
EXTENDS Naturals, FiniteSets

CONSTANTS N,            \* the steps are 1 .. N, by stepOrder
          ExecutionId,  \* the id Postgres generates for the execution
          BusinessIds,  \* the ids callers may pass
          Managers,     \* the EntityManagers callers may pass
          FaultSets     \* what may go wrong together, see FaultKinds

FaultKinds == {"execute", "compensate", "db", "broker", "crash"}

(* "none": the argument is left out; "transaction": writes stay invisible  *)
(* to the repositories' own connection until the caller commits, after     *)
(* startSaga; "autocommit": they do not.                                   *)
ManagerKinds == {"none", "transaction", "autocommit"}

ASSUME StepsAssumption == N \in Nat \ {0}
ASSUME ManagersAssumption == Managers \subseteq ManagerKinds
ASSUME FaultsAssumption == FaultSets \subseteq SUBSET FaultKinds

Steps == 1 .. N

SagaStatuses == {"none", "STARTED", "COMPENSATING", "COMPLETED", "FAILED"}

StepStatuses == {"none", "PENDING", "COMPLETED", "COMPENSATED", "FAILED"}

VARIABLES manager,     \* how this call is made: the EntityManager
          businessId,  \* ... and the business id
          registered,  \* the steps with a handler in stepHandlers
          faults,      \* what may go wrong around this call
          pc,          \* the next await of the call
          frames,      \* the steps whose try block is active
          current,     \* the step at hand, 0 before the first
          todo,        \* steps compensateSaga has still to visit
          saga,        \* saga_executions.status
          step,        \* saga_steps.status
          applied,     \* times each handler has taken effect
          undone,      \* times each compensation has
          alarmed      \* steps in a published SAGA_COMPENSATION_FAILED

inputs == <<manager, businessId, registered, faults>>
control == <<pc, frames, current, todo>>
tables == <<saga, step>>
effects == <<applied, undone, alarmed>>
vars == <<inputs, control, tables, effects>>

Ended == {"returned", "rejected", "crashed"}

Labels == {"start", "createExecution", "createSteps", "findNext", "execute",
           "markCompleted", "emitCompleted", "markSagaCompleted",
           "emitSagaCompleted", "markFailed", "markCompensating",
           "findCompleted", "compensate", "markCompensated", "alarm",
           "emitSagaFailed"} \cup Ended

Init ==
    /\ manager \in Managers
    /\ businessId \in BusinessIds
    /\ registered \in SUBSET Steps
    /\ faults \in FaultSets
    /\ pc = "start"
    /\ frames = {}
    /\ current = 0
    /\ todo = {}
    /\ saga = "none"
    /\ step = [s \in Steps |-> "none"]
    /\ applied = [s \in Steps |-> 0]
    /\ undone = [s \in Steps |-> 0]
    /\ alarmed = {}

Goto(label) == pc' = label

Latest(S) == CHOOSE s \in S : \A t \in S : t <= s

(* Mutant: the comparison of the sort turned round. *)
FirstReversed(S) == CHOOSE s \in S : \A t \in S : t <= s

First(S) == CHOOSE s \in S : \A t \in S : s <= t

InStatus(x) == {s \in Steps : step[s] = x}

(* Mutant: the catch block stays inside its own try. *)
RaiseAgain ==
    \/ /\ frames = {}
       /\ Goto("rejected")
       /\ UNCHANGED <<frames, current>>
    \/ /\ frames # {}
       /\ Goto("markFailed")
       /\ current' = Latest(frames)
       /\ UNCHANGED frames

(* An error reaches the catch block of the innermost active try, whose     *)
(* call goes on with its own step, or rejects startSaga's promise.         *)
Raise ==
    \/ /\ frames = {}
       /\ Goto("rejected")
       /\ UNCHANGED <<frames, current>>
    \/ /\ frames # {}
       /\ Goto("markFailed")
       /\ current' = Latest(frames)
       /\ frames' = frames \ {Latest(frames)}

(* A write to the saga's row that is awaited: it is done and the call goes *)
(* on, or it throws.                                                       *)
WriteSaga(status, label) ==
    /\ \/ /\ saga' = status
          /\ Goto(label)
          /\ UNCHANGED <<frames, current>>
       \/ /\ "db" \in faults
          /\ saga' \in {saga, status}
          /\ Raise
    /\ UNCHANGED <<inputs, todo, step, effects>>

Emitted(label) ==
    \/ /\ Goto(label)
       /\ UNCHANGED <<frames, current>>
    \/ /\ "broker" \in faults
       /\ Raise

-----------------------------------------------------------------------------
(* startSaga and SagaRepository.createSaga.                                *)

(* Without a manager the call returns '' and has done nothing.             *)
StartSaga ==
    /\ pc = "start"
    /\ Goto(IF manager = "none" THEN "returned" ELSE "createExecution")
    /\ UNCHANGED <<inputs, frames, current, todo, tables, effects>>

CreateExecution ==
    /\ pc = "createExecution"
    /\ WriteSaga("STARTED", "createSteps")

CreateSteps ==
    /\ pc = "createSteps"
    /\ \/ /\ step' = [s \in Steps |-> "PENDING"]
          /\ Goto("findNext")
       \/ /\ "db" \in faults
          /\ step' \in {step, [s \in Steps |-> "PENDING"]}
          /\ Goto("rejected")
    /\ UNCHANGED <<inputs, frames, current, todo, saga, effects>>

-----------------------------------------------------------------------------
(* executeNextStep.                                                        *)

(* findSagaByBusinessId is handed the execution's id, and looks through    *)
(* the repository's own connection, not through the manager.               *)
Found == businessId = ExecutionId /\ manager = "autocommit"

FindNext ==
    /\ pc = "findNext"
    /\ \/ /\ ~ (Found /\ saga = "STARTED")
          /\ Goto("returned")
          /\ UNCHANGED <<frames, current>>
       \/ /\ Found /\ saga = "STARTED"
          /\ InStatus("PENDING") = {}
          /\ Goto("markSagaCompleted")
          /\ UNCHANGED <<frames, current>>
       \/ /\ Found /\ saga = "STARTED"
          /\ InStatus("PENDING") # {}
          /\ Goto("execute")
          /\ current' = First(InStatus("PENDING"))
          /\ frames' = frames \cup {First(InStatus("PENDING"))}
       \/ /\ "db" \in faults
          /\ Raise
    /\ UNCHANGED <<inputs, todo, tables, effects>>

(* What a handler that does not throw has done; those of PaymentSaga are   *)
(* stubs, one for each step of a payment.                                  *)
TakeEffect(s) == applied' = [applied EXCEPT ![s] = @ + 1]

Execute ==
    /\ pc = "execute"
    /\ \/ /\ current \in registered
          /\ TakeEffect(current)
          /\ Goto("markCompleted")
          /\ UNCHANGED <<frames, current>>
       \/ /\ current \notin registered \/ "execute" \in faults
          /\ Raise
          /\ UNCHANGED applied
    /\ UNCHANGED <<inputs, todo, tables, undone, alarmed>>

(* Mutant: a status the table does not know. *)
MarkExecuted ==
    /\ pc = "markCompleted"
    /\ step' = [step EXCEPT ![current] = "EXECUTED"]
    /\ Goto("emitCompleted")
    /\ UNCHANGED <<inputs, frames, current, todo, saga, effects>>

MarkCompleted ==
    /\ pc = "markCompleted"
    /\ \/ /\ step' = [step EXCEPT ![current] = "COMPLETED"]
          /\ Goto("emitCompleted")
          /\ UNCHANGED <<frames, current>>
       \/ /\ "db" \in faults
          /\ step' \in {step, [step EXCEPT ![current] = "COMPLETED"]}
          /\ Raise
    /\ UNCHANGED <<inputs, todo, saga, effects>>

(* SAGA_STEP_COMPLETED, then the nested call.                              *)
EmitCompleted ==
    /\ pc = "emitCompleted"
    /\ Emitted("findNext")
    /\ UNCHANGED <<inputs, todo, tables, effects>>

(* No step is left: outside the try block of this call, inside those of    *)
(* the calls around it.                                                    *)
MarkSagaCompleted ==
    /\ pc = "markSagaCompleted"
    /\ WriteSaga("COMPLETED", "emitSagaCompleted")

EmitSagaCompleted ==
    /\ pc = "emitSagaCompleted"
    /\ Emitted("returned")
    /\ UNCHANGED <<inputs, todo, tables, effects>>

(* Mutant: the catch block goes on with the next step. *)
MarkFailedAndGoOn ==
    /\ pc = "markFailed"
    /\ step' = [step EXCEPT ![current] = "FAILED"]
    /\ Goto("findNext")
    /\ UNCHANGED <<inputs, frames, current, todo, saga, effects>>

(* The catch block: whatever the step's status was, it is FAILED now.      *)
MarkFailed ==
    /\ pc = "markFailed"
    /\ \/ /\ step' = [step EXCEPT ![current] = "FAILED"]
          /\ Goto("markCompensating")
          /\ UNCHANGED <<frames, current>>
       \/ /\ "db" \in faults
          /\ step' \in {step, [step EXCEPT ![current] = "FAILED"]}
          /\ Raise
    /\ UNCHANGED <<inputs, todo, saga, effects>>

-----------------------------------------------------------------------------
(* compensateSaga.                                                         *)

MarkCompensating ==
    /\ pc = "markCompensating"
    /\ WriteSaga("COMPENSATING", "findCompleted")

(* The same lookup as in executeNextStep.                                  *)
FindCompleted ==
    /\ pc = "findCompleted"
    /\ \/ /\ todo' = IF Found THEN InStatus("COMPLETED") ELSE {}
          /\ Goto("compensate")
          /\ UNCHANGED <<frames, current>>
       \/ /\ "db" \in faults
          /\ UNCHANGED todo
          /\ Raise
    /\ UNCHANGED <<inputs, tables, effects>>

(* The next of the completed steps in reverse order.  A step without a     *)
(* handler is passed over; one whose compensation throws is reported.      *)
Visit(s) ==
    /\ todo' = todo \ {s}
    /\ current' = s
    /\ \/ /\ s \in registered
          /\ undone' = [undone EXCEPT ![s] = @ + 1]
          /\ Goto("markCompensated")
       \/ /\ s \in registered
          /\ "compensate" \in faults
          /\ Goto("alarm")
          /\ UNCHANGED undone
       \/ /\ s \notin registered
          /\ Goto("compensate")
          /\ UNCHANGED undone
    /\ UNCHANGED <<inputs, frames, tables, applied, alarmed>>

(* Mutant: compensation in the order of execution. *)
CompensateForward ==
    /\ pc = "compensate"
    /\ todo # {}
    /\ Visit(First(todo))

Compensate ==
    /\ pc = "compensate"
    /\ todo # {}
    /\ Visit(Latest(todo))

(* Mutant: the step's status is left COMPLETED. *)
MarkNothing ==
    /\ pc = "markCompensated"
    /\ Goto("compensate")
    /\ UNCHANGED <<inputs, frames, current, todo, tables, effects>>

MarkCompensated ==
    /\ pc = "markCompensated"
    /\ \/ /\ step' = [step EXCEPT ![current] = "COMPENSATED"]
          /\ Goto("compensate")
       \/ /\ "db" \in faults
          /\ step' \in {step, [step EXCEPT ![current] = "COMPENSATED"]}
          /\ Goto("alarm")
    /\ UNCHANGED <<inputs, frames, current, todo, saga, effects>>

(* SAGA_COMPENSATION_FAILED; the emit is in the catch block.               *)
Alarm ==
    /\ pc = "alarm"
    /\ \/ /\ alarmed' = alarmed \cup {current}
          /\ Goto("compensate")
          /\ UNCHANGED <<frames, current>>
       \/ /\ "broker" \in faults
          /\ alarmed' \in {alarmed, alarmed \cup {current}}
          /\ Raise
    /\ UNCHANGED <<inputs, todo, tables, applied, undone>>

MarkSagaFailed ==
    /\ pc = "compensate"
    /\ todo = {}
    /\ WriteSaga("FAILED", "emitSagaFailed")

EmitSagaFailed ==
    /\ pc = "emitSagaFailed"
    /\ Emitted("returned")
    /\ UNCHANGED <<inputs, todo, tables, effects>>

(* The process dies; nothing looks for sagas left STARTED or COMPENSATING. *)
Crash ==
    /\ "crash" \in faults
    /\ pc \notin Ended
    /\ Goto("crashed")
    /\ UNCHANGED <<inputs, frames, current, todo, tables, effects>>

-----------------------------------------------------------------------------
Progress ==
    \/ StartSaga \/ CreateExecution \/ CreateSteps
    \/ FindNext \/ Execute \/ MarkCompleted \/ EmitCompleted
    \/ MarkSagaCompleted \/ EmitSagaCompleted
    \/ MarkFailed \/ MarkCompensating \/ FindCompleted
    \/ Compensate \/ MarkCompensated \/ Alarm
    \/ MarkSagaFailed \/ EmitSagaFailed

Next == Progress \/ Crash

Spec == Init /\ [][Next]_vars

(* Handlers, Postgres and RabbitMQ answer.                                 *)
FairSpec == Spec /\ WF_vars(Progress)

-----------------------------------------------------------------------------
(* Every variable stays in its type; a handler's effects are counted.      *)
TypeOK ==
    /\ manager \in Managers
    /\ businessId \in BusinessIds
    /\ registered \in SUBSET Steps
    /\ faults \in FaultSets
    /\ pc \in Labels
    /\ frames \in SUBSET Steps
    /\ current \in {0} \cup Steps
    /\ todo \in SUBSET Steps
    /\ saga \in SagaStatuses
    /\ step \in [Steps -> StepStatuses]
    /\ applied \in [Steps -> Nat]
    /\ undone \in [Steps -> Nat]
    /\ alarmed \in SUBSET Steps

(* A saga whose row says COMPLETED has done every step and undone none,    *)
(* whatever throws and wherever, also while an error that came after the   *)
(* row was written runs back through the frames (saga.orchestrator.ts,     *)
(* lines 74 to 82 and 112 to 126).                                         *)
CompletedMeansApplied ==
    saga = "COMPLETED" => \A s \in Steps : applied[s] = 1 /\ undone[s] = 0

(* A step's handler runs only after those of all the earlier steps, and    *)
(* once: no error sends the recursion over a step a second time.           *)
StepsInOrder ==
    \A t \in Steps : applied[t] > 0 => \A s \in 1 .. t : applied[s] = 1

(* As long as the database answers, nothing is undone that was not done,   *)
(* or undone twice, although one saga may be compensated once per frame.   *)
CompensatedOnce ==
    "db" \notin faults => \A s \in Steps : undone[s] <= applied[s]

(* Handlers, database and broker permitting or not, startSaga comes to an  *)
(* end: each error takes one frame with it.                                *)
Terminates == <>(pc \in Ended)

-----------------------------------------------------------------------------
(* Why: the recursion, taken apart by where the call stands.               *)

(* The handlers of the steps up to m have run, once each, and no other.    *)
Ran(m) == applied = [s \in Steps |-> IF s <= m THEN 1 ELSE 0]

NothingUndone == undone = [s \in Steps |-> 0]

Marked(m) == step = [s \in Steps |-> IF s <= m THEN "COMPLETED" ELSE "PENDING"]

ForwardLabels == {"start", "createExecution", "createSteps", "findNext",
                  "execute", "markCompleted", "emitCompleted",
                  "markSagaCompleted", "emitSagaCompleted"}

(* Until something throws, the nested calls walk the steps one by one.     *)
Forward ==
    /\ pc \in ForwardLabels => NothingUndone
    /\ pc \in {"start", "createExecution", "createSteps"} =>
           Ran(0) /\ current = 0 /\ frames = {}
    /\ pc \in {"findNext", "emitCompleted"} => Ran(current) /\ Marked(current)
    /\ pc \in {"execute", "markCompleted", "emitCompleted", "markFailed",
               "markCompensated", "alarm"} => current \in Steps
    /\ pc = "execute" => Ran(current - 1) /\ Marked(current - 1)
    /\ pc = "markCompleted" => Ran(current) /\ Marked(current - 1)
    /\ pc \in {"markSagaCompleted", "emitSagaCompleted"} => Ran(N)

(* Compensations run under the status COMPENSATING only.                   *)
Backward ==
    pc \in {"findCompleted", "compensate", "markCompensated", "alarm"} =>
        saga = "COMPENSATING"

(* The inductive invariant: up to the first error the call has run the     *)
(* steps 1 .. current and marked them; from then on no handler runs, and   *)
(* what is compensated is a saga whose row has stopped saying COMPLETED.   *)
IInv == TypeOK /\ Forward /\ Backward /\ StepsInOrder /\ CompletedMeansApplied

-----------------------------------------------------------------------------
InEffect == {s \in Steps : applied[s] > undone[s]}

Outcome ==
    CASE saga = "COMPLETED" -> "completed"
      [] saga = "FAILED"    -> "failed"
      [] OTHER              -> "open"

(* The contract is kept as long as the database and the broker answer.     *)
Reliable == faults \cap {"db", "broker"} = {}

Contract == INSTANCE SagaContract WITH
                effects <- IF Reliable THEN InEffect ELSE {},
                reported <- IF Reliable THEN alarmed ELSE {},
                outcome <- IF Reliable THEN Outcome ELSE "open"

(* With handlers that throw, compensations that throw and a process that   *)
(* dies, but a database and a broker that answer, the orchestrator is the  *)
(* all-or-nothing machine of SagaContract.                                 *)
KeepsContract == Contract!Spec

(* A saga that ended as FAILED has left no effect in place without         *)
(* reporting it (line 166 of saga.orchestrator.ts).  The code does not     *)
(* claim this, and a broker that refuses SAGA_STEP_COMPLETED breaks it;    *)
(* the proofs establish it where database and broker answer.               *)
LeftoversAreReported ==
    pc = "returned" /\ saga = "FAILED" => InEffect \subseteq alarmed

(* saga.orchestrator.ts:42: "Execute first step".  A saga that was created *)
(* and whose call has returned is past its first step.                     *)
FirstStepExecuted ==
    pc = "returned" /\ saga # "none" => step[1] # "PENDING"
=============================================================================
