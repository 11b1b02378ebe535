------------------------- MODULE SagaContractProofs -------------------------
(* What a saga leaves behind, and that it comes to an end.  Nothing is     *)
(* undone twice as long as the database answers; with a database and a     *)
(* broker that answer the orchestrator implements SagaContract; a saga     *)
(* whose row its own lookup does not find does nothing at all; and every   *)
(* step of a call brings it closer to its end.                             *)
EXTENDS SagaOrchestratorProofs, FiniteSetTheorems

(* Nothing but the caller decides how the call is made and what may fail. *)
LEMMA InputsFixed == [Next]_vars => UNCHANGED inputs
BY DEF Next, Progress, vars, inputs, StartSaga, CreateExecution, WriteSaga,
   CreateSteps, FindNext, Execute, MarkCompleted, EmitCompleted,
   MarkSagaCompleted, EmitSagaCompleted, MarkFailed, MarkCompensating,
   FindCompleted, Compensate, Visit, MarkCompensated, Alarm, MarkSagaFailed,
   EmitSagaFailed, Crash

(* Only these write a step's row. *)
StepWriter == CreateSteps \/ MarkCompleted \/ MarkFailed \/ MarkCompensated

LEMMA OnlyStepWritersWrite ==
    ASSUME [Next]_vars, ~ StepWriter
    PROVE  step' = step
BY DEF StepWriter, Next, Progress, vars, inputs, control, tables, effects,
   StartSaga, CreateExecution, WriteSaga, FindNext, Execute, EmitCompleted,
   MarkSagaCompleted, EmitSagaCompleted, MarkCompensating, FindCompleted,
   Compensate, Visit, Alarm, MarkSagaFailed, EmitSagaFailed, Crash

(* Where compensateSaga has the list of completed steps in hand. *)
Undoing == {"compensate", "markCompensated", "alarm"}

-----------------------------------------------------------------------------
(* A step is COMPLETED between the end of its handler and the write that   *)
(* follows its compensation, and what is still to be visited is COMPLETED: *)
(* the next pass over the rows, for the next frame, does not find it again.*)
RowsTell ==
    /\ pc # "crashed" =>
           \A s \in InStatus("COMPLETED") :
               /\ applied[s] = 1
               /\ undone[s] = 0 \/ (pc = "markCompensated" /\ s = current)
    /\ pc \in Undoing => todo \subseteq InStatus("COMPLETED")
    /\ pc = "markCompensated" => current \notin todo

UndoInv == "db" \notin faults => RowsTell /\ CompensatedOnce

LEMMA UndoInit == Init => UndoInv
BY DEF Init, UndoInv, RowsTell, CompensatedOnce, InStatus, Undoing

LEMMA RowsTellNext ==
    ASSUME IInv, [Next]_vars, "db" \notin faults, RowsTell
    PROVE  RowsTell'
<1> USE DEF inputs, control, tables, effects, Goto
<1>0. TypeOK /\ Forward
  BY DEF IInv
<1>1. CASE CreateSteps
  BY <1>1 DEF CreateSteps, RowsTell, InStatus, Undoing
<1>2. CASE Execute
  <2>1. CASE UNCHANGED applied
    BY <1>0, <1>2, <2>1, RaiseLeaves DEF Execute, TakeEffect, RowsTell, InStatus, Undoing
  <2>2. CASE ~ UNCHANGED applied
    <3>1. /\ current \in Steps /\ pc' = "markCompleted"
          /\ step' = step /\ undone' = undone
          /\ applied' = [applied EXCEPT ![current] = @ + 1]
          /\ step = [s \in Steps |-> IF s <= current - 1 THEN "COMPLETED" ELSE "PENDING"]
      BY <1>0, <1>2, <2>2 DEF Execute, TakeEffect, Forward, Marked
    <3>2. current \notin InStatus("COMPLETED")
      BY <3>1, StepsAssumption DEF InStatus, Steps
    <3> QED
      BY <1>0, <1>2, <3>1, <3>2 DEF Execute, RowsTell, InStatus, Undoing, TypeOK
  <2> QED
    BY <2>1, <2>2
<1>3. CASE MarkCompleted
  <2>1. /\ current \in Steps /\ pc' = "emitCompleted"
        /\ step' = [step EXCEPT ![current] = "COMPLETED"]
        /\ applied' = applied /\ undone' = undone
        /\ applied[current] = 1 /\ undone[current] = 0
    BY <1>0, <1>3, StepsAssumption
       DEF MarkCompleted, Forward, Ran, NothingUndone, ForwardLabels, Steps
  <2> QED
    BY <1>0, <1>3, <2>1 DEF MarkCompleted, RowsTell, InStatus, Undoing, TypeOK
<1>4. CASE MarkFailed
  BY <1>0, <1>4 DEF MarkFailed, RowsTell, InStatus, Undoing, TypeOK
<1>5. CASE FindCompleted
  BY <1>0, <1>5 DEF FindCompleted, RowsTell, InStatus, Undoing
<1>6. CASE Compensate
  <2>1. Latest(todo) \in todo /\ Latest(todo) \in Steps
    BY <1>0, <1>6, LatestStep DEF Compensate, TypeOK
  <2> QED
    BY <1>0, <1>6, <2>1 DEF Compensate, Visit, RowsTell, InStatus, Undoing, TypeOK
<1>7. CASE MarkCompensated
  BY <1>0, <1>7 DEF MarkCompensated, RowsTell, InStatus, Undoing, TypeOK, Forward
<1>8. CASE Alarm
  BY <1>0, <1>8, RaiseLeaves DEF Alarm, RowsTell, InStatus, Undoing
<1>9. CASE ~ (StepWriter \/ Execute \/ FindCompleted \/ Compensate \/ Alarm)
  <2>1. UNCHANGED <<step, applied, undone>>
    BY <1>9, OnlyStepWritersWrite, OnlyExecuteApplies, OnlyCompensateUndoes
  <2>2. \/ pc' \notin Undoing /\ pc # "crashed" /\ pc # "markCompensated"
        \/ pc' = "crashed"
        \/ UNCHANGED <<pc, current, todo>>
    <3>1. CASE Next
      BY <1>9, <3>1, <1>0, RaiseLeaves
         DEF StepWriter, Undoing, Next, Progress, StartSaga, CreateExecution,
         WriteSaga, FindNext, EmitCompleted, Emitted, MarkSagaCompleted,
         EmitSagaCompleted, MarkCompensating, MarkSagaFailed, EmitSagaFailed,
         Crash, Ended
    <3> QED
      BY <3>1 DEF vars
  <2> QED
    BY <2>1, <2>2 DEF RowsTell, InStatus, Undoing
<1> QED
  BY <1>1, <1>2, <1>3, <1>4, <1>5, <1>6, <1>7, <1>8, <1>9 DEF StepWriter

LEMMA UndoNext ==
    ASSUME IInv, [Next]_vars, UndoInv
    PROVE  UndoInv'
<1> SUFFICES ASSUME "db" \notin faults'
             PROVE  RowsTell' /\ CompensatedOnce'
  BY DEF UndoInv
<1>1. "db" \notin faults /\ RowsTell /\ CompensatedOnce /\ TypeOK
  BY InputsFixed DEF inputs, UndoInv, IInv
<1>2. RowsTell'
  BY <1>1, RowsTellNext
<1>3. ASSUME NEW s \in Steps PROVE undone'[s] <= applied'[s]
  <2>1. undone[s] <= applied[s] /\ applied[s] \in Nat /\ undone[s] \in Nat
    BY <1>1 DEF CompensatedOnce, TypeOK
  <2>2. CASE Compensate
    <3>1. Latest(todo) \in todo /\ Latest(todo) \in Steps
      BY <1>1, <2>2, LatestStep DEF Compensate, TypeOK
    <3>2. applied[Latest(todo)] = 1 /\ undone[Latest(todo)] = 0
      BY <1>1, <2>2, <3>1 DEF Compensate, RowsTell, Undoing
    <3> QED
      BY <1>1, <2>1, <2>2, <3>1, <3>2 DEF Compensate, Visit, TypeOK
  <2>3. CASE Execute
    <3>1. current \in Steps /\ undone' = undone
      BY <2>3, OnlyCompensateUndoes DEF Execute, Compensate, IInv, Forward
    <3>2. \/ applied' = applied
          \/ applied' = [applied EXCEPT ![current] = @ + 1]
      BY <2>3 DEF Execute, TakeEffect
    <3> QED
      BY <1>1, <2>1, <3>1, <3>2 DEF TypeOK
  <2>4. CASE ~ Compensate /\ ~ Execute
    BY <2>1, <2>4, OnlyExecuteApplies, OnlyCompensateUndoes
  <2> QED
    BY <2>2, <2>3, <2>4
<1> QED
  BY <1>2, <1>3 DEF CompensatedOnce

(* Nothing is undone that was not done, or undone twice, although an error *)
(* that passes several frames compensates the saga once for each of them:  *)
(* handlers, compensations and the broker may throw, the database may not. *)
THEOREM UndoneOnce == Spec => []CompensatedOnce
<1>1. Init => UndoInv
  BY UndoInit
<1>2. IInv /\ UndoInv /\ [Next]_vars => UndoInv'
  BY UndoNext
<1>3. UndoInv => CompensatedOnce
  BY DEF UndoInv, CompensatedOnce
<1> QED
  BY <1>1, <1>2, <1>3, Inductive, PTL DEF Spec

-----------------------------------------------------------------------------
(* With a database and a broker that answer, only a handler throws.        *)

(* Where the saga's row may say how the saga ended. *)
Closing == {"emitSagaCompleted", "emitSagaFailed"} \cup Ended

(* Between a handler's error and the list of what it leaves to undo. *)
Failing == {"markFailed", "markCompensating", "findCompleted"}

(* The innermost frame is that of the step whose handler throws, the rows  *)
(* of the steps before it are what the compensation finds, and every step  *)
(* in effect is then to be visited, at hand, or reported.                  *)
Accounted ==
    /\ pc \notin Closing => saga \notin {"COMPLETED", "FAILED"}
    /\ saga = "FAILED" => InEffect \subseteq alarmed
    /\ \A s \in Steps : applied[s] > 0 => s \in registered
    /\ pc \in ForwardLabels \cup Failing => NothingUndone /\ alarmed = {}
    /\ pc \in {"findNext", "execute", "markCompleted", "emitCompleted"} =>
           frames = 1 .. current
    /\ pc \in {"execute", "markCompleted", "emitCompleted"} => Found
    /\ pc \in Failing => Found /\ current \in Steps /\ Ran(current - 1)
    /\ pc = "markFailed" => Marked(current - 1)
    /\ pc \in {"markCompensating", "findCompleted"} =>
           InStatus("COMPLETED") = 1 .. current - 1
    /\ pc \in {"compensate", "markCompensated"} =>
           InEffect = todo \cup alarmed
    /\ pc = "alarm" => InEffect = todo \cup alarmed \cup {current}
    /\ pc \in Undoing => todo \cap alarmed = {}
    /\ pc = "alarm" => current \notin todo

ContractInv == Reliable => Accounted

LEMMA ContractInit == Init => ContractInv
BY StepsAssumption DEF Init, ContractInv, Accounted, Closing, Failing, Ended,
   ForwardLabels, NothingUndone, Steps

(* The frames of the walk: the latest is the step at hand. *)
LEMMA LatestOfWalk ==
    ASSUME NEW m \in Steps
    PROVE  Latest(1 .. m) = m
<1>1. m \in 1 .. m /\ 1 .. m \in SUBSET Steps /\ N \in Nat /\ m \in Nat
  BY StepsAssumption DEF Steps
<1>2. Latest(1 .. m) \in 1 .. m /\ m <= Latest(1 .. m)
  BY <1>1, LatestStep
<1> QED
  BY <1>1, <1>2

(* A handler runs once, so what is in effect was done and not undone. *)
LEMMA EffectCounts ==
    ASSUME IInv, NEW s \in InEffect
    PROVE  s \in Steps /\ applied[s] = 1 /\ undone[s] = 0
<1>1. /\ s \in Steps /\ s \in 1 .. s /\ applied[s] \in Nat /\ undone[s] \in Nat
      /\ applied[s] > undone[s]
  BY StepsAssumption DEF IInv, TypeOK, InEffect, Steps
<1>2. applied[s] = 1
  BY <1>1 DEF IInv, StepsInOrder
<1> QED
  BY <1>1, <1>2

(* What the walk up to step m leaves in effect. *)
LEMMA WalkInEffect ==
    ASSUME NEW m \in 0 .. N, Ran(m), NothingUndone
    PROVE  InEffect = 1 .. m
BY StepsAssumption DEF Ran, NothingUndone, InEffect, Steps

LEMMA AccountedNext ==
    ASSUME IInv, [Next]_vars, Reliable, Accounted
    PROVE  Accounted'
<1> USE DEF inputs, control, tables, effects, Goto, Closing, Failing, Ended,
            ForwardLabels, Undoing
<1>0. /\ TypeOK /\ Forward /\ Backward
      /\ "db" \notin faults /\ "broker" \notin faults
      /\ UNCHANGED inputs /\ Found' = Found
  BY InputsFixed DEF IInv, Reliable, Found
<1>1. CASE StartSaga
  BY <1>0, <1>1 DEF StartSaga, Accounted, NothingUndone
<1>2. CASE CreateExecution
  BY <1>0, <1>2 DEF CreateExecution, WriteSaga, Accounted, NothingUndone
<1>3. CASE CreateSteps
  BY <1>0, <1>3 DEF CreateSteps, Forward, Accounted, NothingUndone
<1>4. CASE FindNext
  <2>1. CASE pc' # "execute"
    BY <1>0, <1>4, <2>1 DEF FindNext, Accounted, NothingUndone
  <2>2. CASE pc' = "execute"
    <3>1. Found /\ InStatus("PENDING") # {}
      BY <1>0, <1>4, <2>2 DEF FindNext
    <3>2. /\ current' = current + 1 /\ current + 1 \in Steps
          /\ frames' = frames \cup {current + 1}
      BY <1>0, <1>4, <2>2, <3>1, NextStep DEF FindNext
    <3>3. frames' = 1 .. current'
      BY <1>0, <1>4, <3>2, StepsAssumption DEF FindNext, Accounted, Steps, TypeOK
    <3> QED
      BY <1>0, <1>4, <2>2, <3>1, <3>3 DEF FindNext, Accounted, NothingUndone
  <2> QED
    BY <2>1, <2>2
<1>5. CASE Execute
  <2>0. /\ current \in Steps /\ Ran(current - 1) /\ Marked(current - 1)
        /\ frames = 1 .. current /\ Found /\ NothingUndone /\ alarmed = {}
        /\ saga \notin {"COMPLETED", "FAILED"}
    BY <1>0, <1>5 DEF Execute, Forward, Accounted
  <2>1. CASE pc' = "markCompleted"
    <3>1. /\ current \in registered
          /\ applied' = [applied EXCEPT ![current] = @ + 1]
          /\ UNCHANGED <<frames, current, inputs, tables, undone, alarmed>>
      BY <1>5, <2>1, RaiseLeaves, <1>0 DEF Execute, TakeEffect
    <3> QED
      BY <1>0, <2>0, <2>1, <3>1 DEF Accounted, NothingUndone, TypeOK
  <2>2. CASE pc' # "markCompleted"
    <3>1. current \in 1 .. current
      BY <2>0, StepsAssumption DEF Steps
    <3>2. Raise /\ UNCHANGED <<inputs, todo, tables, applied, undone, alarmed>>
      BY <1>5, <2>2 DEF Execute
    <3>3. pc' = "markFailed" /\ current' = current
      BY <2>0, <3>1, <3>2, LatestOfWalk DEF Raise
    <3>4. Ran(current - 1)' /\ Marked(current - 1)' /\ NothingUndone'
      BY <2>0, <3>2, <3>3 DEF Ran, Marked, NothingUndone
    <3> QED
      BY <1>0, <2>0, <3>2, <3>3, <3>4 DEF Accounted
  <2> QED
    BY <2>1, <2>2
<1>6. CASE MarkCompleted
  BY <1>0, <1>6 DEF MarkCompleted, Accounted, NothingUndone
<1>7. CASE EmitCompleted
  BY <1>0, <1>7 DEF EmitCompleted, Emitted, Accounted, NothingUndone
<1>8. CASE MarkSagaCompleted
  BY <1>0, <1>8 DEF MarkSagaCompleted, WriteSaga, Accounted, NothingUndone
<1>9. CASE EmitSagaCompleted \/ EmitSagaFailed
  BY <1>0, <1>9 DEF EmitSagaCompleted, EmitSagaFailed, Emitted, Accounted, InEffect
<1>10. CASE MarkFailed
  <2>1. /\ Found /\ current \in Steps /\ Ran(current - 1) /\ Marked(current - 1)
        /\ NothingUndone /\ alarmed = {} /\ saga \notin {"COMPLETED", "FAILED"}
    BY <1>10 DEF MarkFailed, Accounted, Closing, Ended
  <2>2. /\ step' = [step EXCEPT ![current] = "FAILED"]
        /\ pc' = "markCompensating"
        /\ UNCHANGED <<inputs, frames, current, todo, saga, effects>>
    BY <1>0, <1>10 DEF MarkFailed
  <2>3. InStatus("COMPLETED")' = 1 .. current - 1
    <3>1. step = [s \in Steps |-> IF s <= current - 1 THEN "COMPLETED" ELSE "PENDING"]
      BY <2>1 DEF Marked
    <3>2. \A s \in Steps : step'[s] = "COMPLETED" <=> s <= current - 1
      BY <2>1, <2>2, <3>1, StepsAssumption DEF Steps
    <3> QED
      BY <2>1, <3>2, StepsAssumption DEF InStatus, Steps
  <2>4. Ran(current - 1)' /\ NothingUndone'
    BY <2>1, <2>2 DEF Ran, NothingUndone
  <2> QED
    BY <1>0, <2>1, <2>2, <2>3, <2>4 DEF Accounted
<1>11. CASE MarkCompensating
  BY <1>0, <1>11 DEF MarkCompensating, WriteSaga, Accounted, NothingUndone, Ran, InStatus
<1>12. CASE FindCompleted
  <2>1. /\ Found /\ current \in Steps /\ Ran(current - 1) /\ NothingUndone
        /\ alarmed = {} /\ InStatus("COMPLETED") = 1 .. current - 1
    BY <1>12 DEF FindCompleted, Accounted
  <2>2. InEffect = 1 .. current - 1
    BY <2>1, WalkInEffect, StepsAssumption DEF Steps
  <2>3. todo' = InEffect /\ pc' = "compensate" /\ UNCHANGED <<inputs, tables, effects>>
    BY <1>0, <1>12, <2>1, <2>2 DEF FindCompleted
  <2>4. InEffect' = InEffect
    BY <2>3 DEF InEffect
  <2> QED
    BY <1>0, <1>12, <2>1, <2>3, <2>4 DEF FindCompleted, Accounted
<1>13. CASE Compensate
  <2>1. Latest(todo) \in todo
    BY <1>0, <1>13, LatestStep DEF Compensate, TypeOK
  <2>2. InEffect = todo \cup alarmed
    BY <1>13 DEF Compensate, Accounted
  <2>3. /\ Latest(todo) \in Steps /\ applied[Latest(todo)] = 1
        /\ undone[Latest(todo)] = 0 /\ Latest(todo) \in registered
    BY <2>1, <2>2, EffectCounts DEF Accounted
  <2> DEFINE s == Latest(todo)
  <2> HIDE DEF s
  <2>4. /\ todo' = todo \ {s} /\ current' = s
        /\ UNCHANGED <<inputs, frames, tables, applied, alarmed>>
        /\ \/ pc' = "markCompensated" /\ undone' = [undone EXCEPT ![s] = @ + 1]
           \/ pc' = "alarm" /\ undone' = undone
    BY <1>13, <2>3 DEF Compensate, Visit, s
  <2>5. s \in todo /\ s \in Steps /\ applied[s] = 1 /\ undone[s] = 0
    BY <2>1, <2>3 DEF s
  <2>6. CASE pc' = "markCompensated"
    <3>1. s \notin alarmed'
      BY <1>13, <2>4, <2>5 DEF Compensate, Accounted
    <3>2. InEffect' = InEffect \ {s}
      BY <1>0, <2>4, <2>5, <2>6 DEF InEffect, TypeOK
    <3> QED
      BY <1>0, <1>13, <2>2, <2>4, <2>5, <2>6, <3>1, <3>2 DEF Compensate, Accounted
  <2>7. CASE pc' = "alarm"
    <3>1. InEffect' = InEffect
      BY <2>4, <2>7 DEF InEffect
    <3> QED
      BY <1>0, <1>13, <2>2, <2>4, <2>5, <2>7, <3>1 DEF Compensate, Accounted
  <2> QED
    BY <2>4, <2>6, <2>7
<1>14. CASE MarkCompensated
  <2>1. InEffect' = InEffect
    BY <1>14 DEF MarkCompensated, InEffect
  <2> QED
    BY <1>0, <1>14, <2>1 DEF MarkCompensated, Accounted
<1>15. CASE Alarm
  <2>1. InEffect' = InEffect
    BY <1>15 DEF Alarm, InEffect
  <2> QED
    BY <1>0, <1>15, <2>1 DEF Alarm, Accounted
<1>16. CASE MarkSagaFailed
  <2>1. InEffect' = InEffect /\ alarmed' = alarmed /\ InEffect = alarmed
    BY <1>16 DEF MarkSagaFailed, WriteSaga, InEffect, Accounted
  <2> QED
    BY <1>0, <1>16, <2>1 DEF MarkSagaFailed, WriteSaga, Accounted
<1>17. CASE Crash
  BY <1>0, <1>17 DEF Crash, Accounted, InEffect
<1>18. CASE UNCHANGED vars
  BY <1>0, <1>18 DEF vars, Accounted, InStatus, InEffect, Ran, Marked, NothingUndone
<1> QED
  BY <1>1, <1>2, <1>3, <1>4, <1>5, <1>6, <1>7, <1>8, <1>9, <1>10, <1>11,
     <1>12, <1>13, <1>14, <1>15, <1>16, <1>17, <1>18 DEF Next, Progress

LEMMA ContractInvNext == IInv /\ ContractInv /\ [Next]_vars => ContractInv'
BY InputsFixed, AccountedNext DEF ContractInv, Reliable, inputs

-----------------------------------------------------------------------------
(* Only these three decide how the saga ended. *)
LEMMA OutcomeStays ==
    ASSUME [Next]_vars, ~ MarkSagaCompleted, ~ MarkSagaFailed
    PROVE  \/ saga' = saga
           \/ /\ CreateExecution \/ MarkCompensating
              /\ saga' \in {"STARTED", "COMPENSATING"}
BY DEF Next, Progress, vars, inputs, control, tables, effects, StartSaga,
   CreateExecution, WriteSaga, CreateSteps, FindNext, Execute, MarkCompleted,
   EmitCompleted, EmitSagaCompleted, MarkFailed, MarkCompensating,
   FindCompleted, Compensate, Visit, MarkCompensated, Alarm, EmitSagaFailed,
   Crash

(* Only Alarm reports. *)
LEMMA OnlyAlarmReports ==
    ASSUME [Next]_vars, ~ Alarm
    PROVE  alarmed' = alarmed
BY DEF Next, Progress, vars, inputs, control, tables, effects, StartSaga,
   CreateExecution, WriteSaga, CreateSteps, FindNext, Execute, MarkCompleted,
   EmitCompleted, MarkSagaCompleted, EmitSagaCompleted, MarkFailed,
   MarkCompensating, FindCompleted, Compensate, Visit, MarkCompensated,
   MarkSagaFailed, EmitSagaFailed, Crash

(* A handler that has run is the next of the contract's steps. *)
LEMMA ExecuteRefines ==
    ASSUME IInv, Reliable, Accounted, Execute
    PROVE  \/ /\ \E s \in Steps : /\ InEffect = 1 .. s - 1
                                  /\ InEffect' = InEffect \cup {s}
              /\ Outcome = "open"
           \/ InEffect' = InEffect
<1>1. /\ current \in Steps /\ Ran(current - 1) /\ NothingUndone
      /\ saga \notin {"COMPLETED", "FAILED"} /\ undone' = undone
  BY DEF Execute, IInv, Forward, Accounted, Closing, Ended, ForwardLabels
<1>2. CASE applied' = applied
  BY <1>1, <1>2 DEF InEffect
<1>3. CASE applied' # applied
  <2>1. applied' = [applied EXCEPT ![current] = @ + 1]
    BY <1>3 DEF Execute, TakeEffect
  <2>2. InEffect = 1 .. current - 1
    BY <1>1, WalkInEffect, StepsAssumption DEF Steps
  <2>3. InEffect' = InEffect \cup {current}
    BY <1>1, <2>1 DEF InEffect, IInv, TypeOK, NothingUndone
  <2> QED
    BY <1>1, <2>2, <2>3 DEF Outcome
<1> QED
  BY <1>2, <1>3

(* A compensation that has run undoes the latest step that is in effect    *)
(* and not reported.                                                       *)
LEMMA CompensateRefines ==
    ASSUME IInv, Reliable, Accounted, Compensate
    PROVE  \/ /\ \E s \in InEffect : /\ \A t \in InEffect : t > s => t \in alarmed
                                     /\ InEffect' = InEffect \ {s}
              /\ Outcome = "open"
           \/ InEffect' = InEffect
<1>1. /\ InEffect = todo \cup alarmed /\ saga = "COMPENSATING" /\ TypeOK
      /\ applied' = applied
  BY DEF Compensate, Visit, Accounted, IInv, Backward
<1>2. CASE undone' = undone
  BY <1>1, <1>2 DEF InEffect
<1>3. CASE undone' # undone
  <2>1. /\ Latest(todo) \in todo /\ \A t \in todo : t <= Latest(todo)
        /\ todo \subseteq Steps
    BY <1>1, LatestStep DEF Compensate, TypeOK
  <2>2. undone' = [undone EXCEPT ![Latest(todo)] = @ + 1]
    BY <1>3 DEF Compensate, Visit
  <2>3. applied[Latest(todo)] = 1 /\ undone[Latest(todo)] = 0
    BY <1>1, <2>1, EffectCounts
  <2>4. InEffect' = InEffect \ {Latest(todo)}
    BY <1>1, <2>1, <2>2, <2>3 DEF InEffect, TypeOK
  <2>5. \A t \in InEffect : t > Latest(todo) => t \in alarmed
    <3>1. \A t \in Steps : t \in Nat
      BY StepsAssumption DEF Steps
    <3>2. ASSUME NEW t \in todo, t > Latest(todo) PROVE FALSE
      <4>1. t \in Nat /\ Latest(todo) \in Nat /\ t <= Latest(todo)
        BY <2>1, <3>1
      <4> QED
        BY <3>2, <4>1
    <3> QED
      BY <1>1, <3>2
  <2> QED
    BY <1>1, <2>1, <2>4, <2>5 DEF Outcome
<1> QED
  BY <1>2, <1>3

(* Each step of the call is one of the contract's, or none. *)
LEMMA ReliableRefines ==
    ASSUME IInv, Accounted, [Next]_vars, Reliable, Reliable'
    PROVE  [Contract!Next]_(Contract!vars)
<1>0. TypeOK /\ InEffect \subseteq Steps /\ Contract!Steps = Steps
      /\ "db" \notin faults /\ "broker" \notin faults
  BY DEF IInv, InEffect, Contract!Steps, Steps, Reliable
<1>1. CASE Execute
  <2>1. saga' = saga /\ alarmed' = alarmed
    BY <1>1 DEF Execute, tables
  <2>2. Outcome' = Outcome
    BY <2>1 DEF Outcome
  <2> QED
    BY <1>0, <1>1, <2>1, <2>2, ExecuteRefines DEF Contract!Next, Contract!Do, Contract!vars
<1>2. CASE Compensate
  <2>1. saga' = saga /\ alarmed' = alarmed
    BY <1>2 DEF Compensate, Visit, tables
  <2>2. Outcome' = Outcome
    BY <2>1 DEF Outcome
  <2> QED
    BY <1>0, <1>2, <2>1, <2>2, CompensateRefines
       DEF Contract!Next, Contract!Undo, Contract!vars
<1>3. CASE Alarm
  <2>1. /\ saga' = saga /\ saga = "COMPENSATING" /\ current \in InEffect
        /\ InEffect' = InEffect /\ alarmed' = alarmed \cup {current}
    BY <1>0, <1>3 DEF Alarm, tables, IInv, Backward, Accounted, InEffect
  <2>2. Outcome' = Outcome /\ Outcome = "open"
    BY <2>1 DEF Outcome
  <2> QED
    BY <1>0, <2>1, <2>2 DEF Contract!Next, Contract!Report
<1>4. CASE MarkSagaCompleted
  <2>1. /\ Ran(N) /\ NothingUndone /\ alarmed = {} /\ saga \notin {"COMPLETED", "FAILED"}
        /\ saga' = "COMPLETED" /\ UNCHANGED effects
    BY <1>0, <1>4
       DEF MarkSagaCompleted, WriteSaga, IInv, Forward, Accounted, Closing, Ended,
           ForwardLabels
  <2>2. InEffect = Steps /\ InEffect' = InEffect /\ alarmed' = alarmed
    BY <2>1, WalkInEffect, StepsAssumption DEF InEffect, Steps, effects
  <2>3. Outcome = "open" /\ Outcome' = "completed"
    BY <2>1 DEF Outcome
  <2> QED
    BY <1>0, <2>1, <2>2, <2>3 DEF Contract!Next, Contract!Complete
<1>5. CASE MarkSagaFailed
  <2>1. /\ InEffect = alarmed /\ saga = "COMPENSATING" /\ saga' = "FAILED"
        /\ UNCHANGED effects
    BY <1>0, <1>5 DEF MarkSagaFailed, WriteSaga, IInv, Backward, Accounted
  <2>2. InEffect' = InEffect /\ alarmed' = alarmed
    BY <2>1 DEF InEffect, effects
  <2>3. Outcome = "open" /\ Outcome' = "failed"
    BY <2>1 DEF Outcome
  <2> QED
    BY <2>1, <2>2, <2>3 DEF Contract!Next, Contract!Fail
<1>6. CASE ~ (Execute \/ Compensate \/ Alarm \/ MarkSagaCompleted \/ MarkSagaFailed)
  <2>1. UNCHANGED <<applied, undone, alarmed>>
    BY <1>6, OnlyExecuteApplies, OnlyCompensateUndoes, OnlyAlarmReports
  <2>2. InEffect' = InEffect
    BY <2>1 DEF InEffect
  <2>3. \/ saga' = saga
        \/ saga' \notin {"COMPLETED", "FAILED"} /\ saga \notin {"COMPLETED", "FAILED"}
    BY <1>6, OutcomeStays DEF Accounted, Closing, Ended, CreateExecution, MarkCompensating
  <2>4. Outcome' = Outcome
    BY <2>3 DEF Outcome
  <2> QED
    BY <2>1, <2>2, <2>4 DEF Contract!vars
<1> QED
  BY <1>1, <1>2, <1>3, <1>4, <1>5, <1>6

(* The contract is all or nothing: with handlers and compensations that    *)
(* throw and a process that dies, but a database and a broker that answer, *)
(* startSaga does the steps in order and ends with all of them in effect,  *)
(* or with none that it did not report as left over.                       *)
THEOREM ContractKept == Spec => KeepsContract
<1>1. Init => Contract!Init
  BY DEF Init, InEffect, Outcome, Contract!Init
<1>2. Init => ContractInv
  BY ContractInit
<1>3. IInv /\ ContractInv /\ [Next]_vars => [Contract!Next]_(Contract!vars)
  <2> SUFFICES ASSUME IInv, ContractInv, [Next]_vars
               PROVE  [Contract!Next]_(Contract!vars)
    OBVIOUS
  <2>1. Reliable' = Reliable
    BY InputsFixed DEF inputs, Reliable
  <2>2. CASE Reliable
    BY <2>1, <2>2, ReliableRefines DEF ContractInv
  <2>3. CASE ~ Reliable
    BY <2>1, <2>3 DEF Contract!vars
  <2> QED
    BY <2>2, <2>3
<1> QED
  BY <1>1, <1>2, <1>3, ContractInvNext, Inductive, PTL DEF Spec, KeepsContract, Contract!Spec

(* A saga that ended as FAILED has left nothing in effect without saying   *)
(* so, unless the database or the broker throws: handlers that throw,      *)
(* compensations that throw and the frames an error passes are not enough  *)
(* for an effect to be forgotten.                                          *)
THEOREM LeftoversReported == Spec => [](Reliable => LeftoversAreReported)
<1>1. ContractInv => (Reliable => LeftoversAreReported)
  BY DEF ContractInv, Accounted, LeftoversAreReported
<1>2. Init => ContractInv
  BY ContractInit
<1> QED
  BY <1>1, <1>2, ContractInvNext, Inductive, PTL DEF Spec

-----------------------------------------------------------------------------
(* A saga that executeNextStep does not find.                              *)

(* No handler was called, and no step begun. *)
NothingRan ==
    \A s \in Steps : /\ step[s] \in {"none", "PENDING"}
                    /\ applied[s] = 0
                    /\ undone[s] = 0

UnfoundInv ==
    ~ Found =>
        /\ pc \in {"start", "createExecution", "createSteps", "findNext"} \cup Ended
        /\ frames = {}
        /\ NothingRan

LEMMA UnfoundNext == UnfoundInv /\ [Next]_vars => UnfoundInv'
<1> SUFFICES ASSUME UnfoundInv, [Next]_vars, ~ Found
             PROVE  UnfoundInv'
  BY InputsFixed DEF UnfoundInv, Found, inputs
<1> USE DEF UnfoundInv, NothingRan, Ended, Goto, Raise, inputs, control, tables, effects
<1>1. CASE StartSaga \/ CreateExecution
  BY <1>1 DEF StartSaga, CreateExecution, WriteSaga
<1>2. CASE CreateSteps
  BY <1>2 DEF CreateSteps
<1>3. CASE FindNext
  BY <1>3 DEF FindNext
<1>4. CASE Crash \/ UNCHANGED vars
  BY <1>4 DEF Crash, vars
<1> QED
  BY <1>1, <1>2, <1>3, <1>4 DEF Next, Progress, Execute, MarkCompleted,
     EmitCompleted, MarkSagaCompleted, EmitSagaCompleted, MarkFailed,
     MarkCompensating, FindCompleted, Compensate, MarkCompensated, Alarm,
     MarkSagaFailed, EmitSagaFailed

(* Unless its business id happens to be the execution's own id and its     *)
(* writes are visible to the repository's connection at once, a saga never *)
(* begins a step, whatever fails and however long it is waited for.        *)
THEOREM UnfoundNeverRuns == Spec => [](~ Found => NothingRan)
<1>1. Init => UnfoundInv
  BY DEF Init, UnfoundInv, NothingRan
<1>2. UnfoundInv => (~ Found => NothingRan)
  BY DEF UnfoundInv
<1> QED
  BY <1>1, <1>2, UnfoundNext, PTL DEF Spec

-----------------------------------------------------------------------------
(* Why the recursion ends: six natural numbers, the first of which that    *)
(* changes gets smaller.                                                   *)

(* The steps that the walk has still ahead of it, none after an error.     *)
Walk == IF pc \in ForwardLabels THEN N + 1 - current ELSE 0

(* The awaits of the walk that are left for the current step.              *)
Stride ==
    CASE pc = "start"             -> 9
      [] pc = "createExecution"   -> 8
      [] pc = "createSteps"       -> 7
      [] pc = "execute"           -> 6
      [] pc = "markCompleted"     -> 5
      [] pc = "emitCompleted"     -> 4
      [] pc = "findNext"          -> 3
      [] pc = "markSagaCompleted" -> 2
      [] pc = "emitSagaCompleted" -> 1
      [] OTHER                    -> 0

(* The try blocks an error has still to pass.                              *)
Depth == Cardinality(frames)

(* What the catch block of one of them has still to do.                    *)
Stage ==
    CASE pc = "markFailed"       -> 5
      [] pc = "markCompensating" -> 4
      [] pc = "findCompleted"    -> 3
      [] pc \in Undoing          -> 2
      [] pc = "emitSagaFailed"   -> 1
      [] OTHER                   -> 0

(* The steps compensateSaga has still to visit, and the awaits of a visit. *)
ToVisit == Cardinality(todo)

Visiting ==
    CASE pc = "markCompensated" -> 2
      [] pc = "alarm"           -> 1
      [] OTHER                  -> 0

Ranks == <<Walk, Stride, Depth, Stage, ToVisit, Visiting>>

Less(x, y, rest) == x < y \/ (x = y /\ rest)

Descends ==
    Less(Walk', Walk, Less(Stride', Stride, Less(Depth', Depth,
        Less(Stage', Stage, Less(ToVisit', ToVisit, Visiting' < Visiting)))))

LEMMA StepsFinite ==
    ASSUME NEW S \in SUBSET Steps
    PROVE  IsFiniteSet(S) /\ Cardinality(S) \in Nat
<1>1. IsFiniteSet(Steps)
  BY StepsAssumption, FS_Interval DEF Steps
<1> QED
  BY <1>1, FS_Subset, FS_CardinalityType

LEMMA Smaller ==
    ASSUME NEW S \in SUBSET Steps, NEW s \in S
    PROVE  Cardinality(S \ {s}) < Cardinality(S)
<1>1. IsFiniteSet(S) /\ Cardinality(S) \in Nat
  BY StepsFinite
<1>2. Cardinality(S \ {s}) = Cardinality(S) - 1
  BY <1>1, FS_RemoveElement
<1> QED
  BY <1>1, <1>2

LEMMA RanksNatural ==
    TypeOK => Ranks \in Nat \X Nat \X Nat \X Nat \X Nat \X Nat
<1> SUFFICES ASSUME TypeOK
             PROVE  Ranks \in Nat \X Nat \X Nat \X Nat \X Nat \X Nat
  OBVIOUS
<1>1. Walk \in Nat
  BY StepsAssumption DEF Walk, TypeOK, Steps
<1>2. Stride \in Nat /\ Stage \in Nat /\ Visiting \in Nat
  BY DEF Stride, Stage, Visiting
<1>3. Depth \in Nat /\ ToVisit \in Nat
  BY StepsFinite DEF Depth, ToVisit, TypeOK
<1> QED
  BY <1>1, <1>2, <1>3 DEF Ranks

(* Off the walk, an error ends the call or leaves a try block for good.    *)
LEMMA RaiseDescends ==
    ASSUME TypeOK, Raise, pc \in Labels \ Ended
    PROVE  Descends
<1>1. Walk' = 0 /\ Stride' = 0
  BY DEF Raise, Goto, Walk, Stride, ForwardLabels
<1>2. CASE pc \in ForwardLabels
  <2>1. 0 < Walk
    BY <1>2, StepsAssumption DEF Walk, TypeOK, Steps
  <2> QED
    BY <1>1, <2>1 DEF Descends, Less
<1>3. CASE pc \notin ForwardLabels
  <2>1. Walk = 0 /\ Stride = 0
    BY <1>3 DEF Walk, Stride, ForwardLabels
  <2>2. CASE frames = {}
    <3>1. Depth' = Depth
      BY <2>2 DEF Raise, Depth
    <3>2. Stage' < Stage
      BY <1>3, <2>2 DEF Raise, Goto, Stage, Labels, Ended, ForwardLabels, Undoing
    <3> QED
      BY <1>1, <2>1, <3>1, <3>2 DEF Descends, Less
  <2>3. CASE frames # {}
    <3>1. frames' = frames \ {Latest(frames)} /\ Latest(frames) \in frames
      BY <2>3, LatestStep DEF Raise, TypeOK
    <3>2. Depth' < Depth
      BY <3>1, Smaller DEF Depth, TypeOK
    <3> QED
      BY <1>1, <2>1, <3>2 DEF Descends, Less
  <2> QED
    BY <2>2, <2>3
<1> QED
  BY <1>2, <1>3

(* A step of the walk that does not fail is one of the step at hand, or    *)
(* takes the walk to the next one.                                         *)
LEMMA WalkDescends ==
    ASSUME TypeOK, pc \in ForwardLabels, Stride' < Stride, current' = current
    PROVE  Descends
<1>1. 0 < Walk /\ (Walk' = Walk \/ Walk' = 0)
  BY StepsAssumption DEF Walk, TypeOK, Steps
<1> QED
  BY <1>1 DEF Descends, Less

(* A step of a catch block that does not fail leaves the frames alone.     *)
LEMMA PassDescends ==
    ASSUME TypeOK, pc \notin ForwardLabels, pc' \notin ForwardLabels, frames' = frames,
           Stage' < Stage \/ (Stage' = Stage /\ Less(ToVisit', ToVisit, Visiting' < Visiting))
    PROVE  Descends
BY DEF Descends, Less, Walk, Stride, ForwardLabels, Depth

LEMMA NextDescends == IInv /\ [Next]_vars => [Descends]_vars
<1> SUFFICES ASSUME IInv, Next PROVE Descends
  OBVIOUS
<1>0. TypeOK /\ Forward
  BY DEF IInv
<1> USE DEF Goto, Ended, Labels
<1>1. CASE StartSaga \/ CreateSteps
  BY <1>0, <1>1, WalkDescends DEF StartSaga, CreateSteps, Stride, ForwardLabels
<1>2. CASE CreateExecution \/ MarkSagaCompleted
  BY <1>0, <1>2, WalkDescends, RaiseDescends
     DEF CreateExecution, MarkSagaCompleted, WriteSaga, Stride, ForwardLabels
<1>3. CASE FindNext
  <2>1. CASE Raise
    BY <1>0, <1>3, <2>1, RaiseDescends DEF FindNext
  <2>2. CASE pc' = "execute"
    <3>1. current' = current + 1
      BY <1>0, <1>3, <2>2, NextStep DEF FindNext, Raise
    <3>2. Walk' < Walk
      BY <1>0, <1>3, <2>2, <3>1, StepsAssumption
         DEF FindNext, Walk, TypeOK, Steps, ForwardLabels
    <3> QED
      BY <3>2 DEF Descends, Less
  <2>3. CASE pc' \in {"returned", "markSagaCompleted"} /\ current' = current
    BY <1>0, <1>3, <2>3, WalkDescends DEF FindNext, Stride, ForwardLabels
  <2> QED
    BY <1>3, <2>1, <2>2, <2>3 DEF FindNext
<1>4. CASE Execute \/ MarkCompleted
  BY <1>0, <1>4, WalkDescends, RaiseDescends
     DEF Execute, MarkCompleted, Stride, ForwardLabels
<1>5. CASE EmitCompleted \/ EmitSagaCompleted
  BY <1>0, <1>5, WalkDescends, RaiseDescends
     DEF EmitCompleted, EmitSagaCompleted, Emitted, Stride, ForwardLabels
<1>6. CASE MarkFailed \/ FindCompleted
  BY <1>0, <1>6, PassDescends, RaiseDescends
     DEF MarkFailed, FindCompleted, Stage, Undoing, ForwardLabels
<1>7. CASE MarkCompensating \/ MarkSagaFailed
  BY <1>0, <1>7, PassDescends, RaiseDescends
     DEF MarkCompensating, MarkSagaFailed, WriteSaga, Stage, Undoing, ForwardLabels
<1>8. CASE Compensate
  <2>1. todo' = todo \ {Latest(todo)} /\ Latest(todo) \in todo
    BY <1>0, <1>8, LatestStep DEF Compensate, Visit, TypeOK
  <2>2. ToVisit' < ToVisit
    BY <1>0, <2>1, Smaller DEF ToVisit, TypeOK
  <2>3. Stage' = Stage /\ frames' = frames
    BY <1>8 DEF Compensate, Visit, Stage, Undoing
  <2> QED
    BY <1>0, <1>8, <2>2, <2>3, PassDescends
       DEF Compensate, Visit, ForwardLabels, Less
<1>9. CASE MarkCompensated \/ (Alarm /\ ~ Raise)
  <2>1. Stage' = Stage /\ frames' = frames /\ ToVisit' = ToVisit /\ Visiting' < Visiting
    BY <1>9 DEF MarkCompensated, Alarm, Stage, Undoing, ToVisit, Visiting
  <2> QED
    BY <1>0, <1>9, <2>1, PassDescends DEF MarkCompensated, Alarm, ForwardLabels, Less
<1>10. CASE Alarm /\ Raise
  BY <1>0, <1>10, RaiseDescends DEF Alarm
<1>11. CASE EmitSagaFailed
  BY <1>0, <1>11, PassDescends, RaiseDescends
     DEF EmitSagaFailed, Emitted, Stage, Undoing, ForwardLabels
<1>12. CASE Crash
  <2>1. CASE pc \in ForwardLabels
    BY <1>0, <1>12, <2>1, WalkDescends DEF Crash, Stride, ForwardLabels, control
  <2>2. CASE pc \notin ForwardLabels
    BY <1>0, <1>12, <2>2, PassDescends
       DEF Crash, Stage, Undoing, ForwardLabels, control, TypeOK
  <2> QED
    BY <2>1, <2>2
<1> QED
  BY <1>1, <1>2, <1>3, <1>4, <1>5, <1>6, <1>7, <1>8, <1>9, <1>10, <1>11,
     <1>12 DEF Next, Progress

(* The six numbers stay natural, and each step of the call, failures and   *)
(* the nested catch blocks included, lowers the first of them it changes:  *)
(* no saga of any length goes round for ever.                              *)
THEOREM Descent ==
    Spec => /\ [](Ranks \in Nat \X Nat \X Nat \X Nat \X Nat \X Nat)
            /\ [][Descends]_vars
<1>1. IInv => Ranks \in Nat \X Nat \X Nat \X Nat \X Nat \X Nat
  BY RanksNatural DEF IInv
<1>2. IInv /\ [Next]_vars => [Descends]_vars
  BY NextDescends
<1> QED
  BY <1>1, <1>2, Inductive, PTL DEF Spec
=============================================================================
