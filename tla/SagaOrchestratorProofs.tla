----------------------- MODULE SagaOrchestratorProofs -----------------------
(* What TLAPS proves of SagaOrchestrator, for sagas of any length, any     *)
(* registered handlers and every set of faults.                            *)
EXTENDS SagaOrchestrator, WellFoundedInduction, TLAPS

-----------------------------------------------------------------------------
(* Sets of steps have a first and a latest member.                         *)
LEMMA HasSmallest ==
    ASSUME NEW S \in SUBSET Nat, S # {}
    PROVE  \E x \in S : \A y \in S : x <= y
<1>1. PICK x \in S : \A y \in S : ~ (<<y, x>> \in OpToRel(<, Nat))
  BY NatLessThanWellFounded, WFMin
<1>2. \A y \in S : ~ (y < x)
  BY <1>1 DEF OpToRel
<1>3. ASSUME NEW y \in S
      PROVE  x <= y
  <2>1. x \in Nat /\ y \in Nat /\ ~ (y < x)
    BY <1>2
  <2> QED
    BY <2>1
<1> QED
  BY <1>3

LEMMA FirstStep ==
    ASSUME NEW S \in SUBSET Steps, S # {}
    PROVE  First(S) \in S /\ \A t \in S : First(S) <= t
<1>1. S \in SUBSET Nat
  BY StepsAssumption DEF Steps
<1>2. \E x \in S : \A y \in S : x <= y
  BY <1>1, HasSmallest
<1> QED
  BY <1>2 DEF First

LEMMA LatestStep ==
    ASSUME NEW S \in SUBSET Steps, S # {}
    PROVE  Latest(S) \in S /\ \A t \in S : t <= Latest(S)
<1> DEFINE T == {N - s : s \in S}
<1>1. T \in SUBSET Nat /\ T # {}
  BY StepsAssumption DEF Steps
<1>2. PICK x \in T : \A y \in T : x <= y
  BY <1>1, HasSmallest
<1>3. PICK s \in S : x = N - s
  BY <1>2
<1>4. ASSUME NEW t \in S
      PROVE  t <= s
  <2>1. N - s <= N - t
    BY <1>2, <1>3
  <2>2. N \in Nat /\ s \in Nat /\ t \in Nat
    BY StepsAssumption DEF Steps
  <2> QED
    BY <2>1, <2>2
<1> QED
  BY <1>3, <1>4 DEF Latest

-----------------------------------------------------------------------------
LEMMA TypeInit == Init => TypeOK
BY DEF Init, TypeOK, Labels, SagaStatuses, StepStatuses

(* An error ends the call or takes it to the catch block of a step. *)
LEMMA RaiseType ==
    ASSUME TypeOK, Raise
    PROVE  pc' \in {"rejected", "markFailed"} /\ frames' \in SUBSET Steps
           /\ current' \in {0} \cup Steps
BY LatestStep DEF TypeOK, Raise, Goto

(* The write of a status to the saga's row, and an emit, likewise. *)
LEMMA WriteSagaType ==
    ASSUME TypeOK, NEW x \in SagaStatuses, NEW l \in Labels, WriteSaga(x, l)
    PROVE  TypeOK'
<1>1. /\ pc' \in Labels
      /\ saga' \in SagaStatuses
      /\ frames' \in SUBSET Steps
      /\ current' \in {0} \cup Steps
  BY RaiseType DEF TypeOK, WriteSaga, Goto, Labels, Ended
<1> QED
  BY <1>1 DEF TypeOK, WriteSaga, inputs, effects

LEMMA EmittedType ==
    ASSUME TypeOK, NEW l \in Labels, Emitted(l),
           UNCHANGED <<inputs, todo, tables, effects>>
    PROVE  TypeOK'
<1>1. /\ pc' \in Labels
      /\ frames' \in SUBSET Steps
      /\ current' \in {0} \cup Steps
  BY RaiseType DEF TypeOK, Emitted, Goto, Labels, Ended
<1> QED
  BY <1>1 DEF TypeOK, inputs, tables, effects

(* Past the first lookup there is a current step. *)
LEMMA TypeNext ==
    ASSUME TypeOK, Forward, [Next]_vars
    PROVE  TypeOK'
<1> USE DEF inputs, control, tables, effects
<1>1. CASE StartSaga
  BY <1>1 DEF StartSaga, TypeOK, Goto, Labels, Ended
<1>2. CASE CreateExecution
  BY <1>2, WriteSagaType DEF CreateExecution, SagaStatuses, Labels
<1>3. CASE CreateSteps
  BY <1>3 DEF CreateSteps, TypeOK, Goto, Labels, Ended, StepStatuses
<1>4. CASE FindNext
  <2>0. InStatus("PENDING") # {} => First(InStatus("PENDING")) \in Steps
    BY FirstStep DEF InStatus
  <2>1. /\ pc' \in Labels
        /\ frames' \in SUBSET Steps
        /\ current' \in {0} \cup Steps
    BY <1>4, <2>0, RaiseType DEF FindNext, TypeOK, Goto, Labels, Ended
  <2> QED
    BY <1>4, <2>1 DEF FindNext, TypeOK
<1>5. CASE Execute
  <2>1. /\ pc' \in Labels
        /\ frames' \in SUBSET Steps
        /\ current' \in {0} \cup Steps
    BY <1>5, RaiseType DEF Execute, TakeEffect, TypeOK, Goto, Labels, Ended
  <2>2. applied' \in [Steps -> Nat]
    BY <1>5 DEF Execute, TakeEffect, TypeOK
  <2> QED
    BY <1>5, <2>1, <2>2 DEF Execute, TakeEffect, TypeOK
<1>6. CASE MarkCompleted
  <2>1. /\ pc' \in Labels
        /\ frames' \in SUBSET Steps
        /\ current' \in {0} \cup Steps
    BY <1>6, RaiseType DEF MarkCompleted, TypeOK, Goto, Labels, Ended
  <2>2. step' \in [Steps -> StepStatuses]
    BY <1>6 DEF MarkCompleted, TypeOK, StepStatuses
  <2> QED
    BY <1>6, <2>1, <2>2 DEF MarkCompleted, TypeOK
<1>7. CASE EmitCompleted
  BY <1>7, EmittedType DEF EmitCompleted, Labels
<1>8. CASE MarkSagaCompleted
  BY <1>8, WriteSagaType DEF MarkSagaCompleted, SagaStatuses, Labels
<1>9. CASE EmitSagaCompleted
  BY <1>9, EmittedType DEF EmitSagaCompleted, Labels, Ended
<1>10. CASE MarkFailed
  <2>1. /\ pc' \in Labels
        /\ frames' \in SUBSET Steps
        /\ current' \in {0} \cup Steps
    BY <1>10, RaiseType DEF MarkFailed, TypeOK, Goto, Labels, Ended
  <2>2. step' \in [Steps -> StepStatuses]
    BY <1>10 DEF MarkFailed, TypeOK, StepStatuses
  <2> QED
    BY <1>10, <2>1, <2>2 DEF MarkFailed, TypeOK
<1>11. CASE MarkCompensating
  BY <1>11, WriteSagaType DEF MarkCompensating, SagaStatuses, Labels
<1>12. CASE FindCompleted
  <2>1. /\ pc' \in Labels
        /\ frames' \in SUBSET Steps
        /\ current' \in {0} \cup Steps
        /\ todo' \in SUBSET Steps
    BY <1>12, RaiseType DEF FindCompleted, TypeOK, Goto, Labels, Ended, InStatus
  <2> QED
    BY <1>12, <2>1 DEF FindCompleted, TypeOK
<1>13. CASE Compensate
  <2>1. Latest(todo) \in Steps
    BY <1>13, LatestStep DEF Compensate, TypeOK
  <2>2. undone' \in [Steps -> Nat]
    BY <1>13, <2>1 DEF Compensate, Visit, TypeOK
  <2> QED
    BY <1>13, <2>1, <2>2 DEF Compensate, Visit, TypeOK, Goto, Labels
<1>14. CASE MarkCompensated
  BY <1>14 DEF MarkCompensated, TypeOK, Goto, Labels, StepStatuses
<1>15. CASE Alarm
  <2>1. /\ pc' \in Labels
        /\ frames' \in SUBSET Steps
        /\ current' \in {0} \cup Steps
    BY <1>15, RaiseType DEF Alarm, TypeOK, Goto, Labels, Ended
  <2>2. current \in Steps
    BY <1>15 DEF Alarm, Forward
  <2> QED
    BY <1>15, <2>1, <2>2 DEF Alarm, TypeOK
<1>16. CASE MarkSagaFailed
  BY <1>16, WriteSagaType DEF MarkSagaFailed, SagaStatuses, Labels
<1>17. CASE EmitSagaFailed
  BY <1>17, EmittedType DEF EmitSagaFailed, Labels, Ended
<1>18. CASE Crash
  BY <1>18 DEF Crash, TypeOK, Goto, Labels, Ended
<1>19. CASE UNCHANGED vars
  BY <1>19 DEF vars, TypeOK
<1> QED
  BY <1>1, <1>2, <1>3, <1>4, <1>5, <1>6, <1>7, <1>8, <1>9, <1>10, <1>11,
     <1>12, <1>13, <1>14, <1>15, <1>16, <1>17, <1>18, <1>19 DEF Next, Progress

-----------------------------------------------------------------------------
(* Where an error leads; no label of the forward walk.                     *)
LEMMA RaiseLeaves ==
    ASSUME TypeOK, Raise
    PROVE  /\ pc' \in {"rejected", "markFailed"}
           /\ pc' = "markFailed" => current' \in Steps
BY LatestStep DEF TypeOK, Raise, Goto

LEMMA SagaInit == Init => Forward /\ Backward /\ StepsInOrder /\ CompletedMeansApplied
BY StepsAssumption DEF Init, Forward, Backward, StepsInOrder,
   CompletedMeansApplied, Ran, NothingUndone, Steps, ForwardLabels

(* The step executeNextStep picks is the one after the last it completed.  *)
LEMMA NextStep ==
    ASSUME TypeOK, Forward, pc = "findNext"
    PROVE  /\ InStatus("PENDING") = {} => current = N
           /\ InStatus("PENDING") # {} =>
                  /\ current + 1 \in Steps
                  /\ First(InStatus("PENDING")) = current + 1
<1>1. /\ current \in 0 .. N
      /\ N \in Nat \ {0}
      /\ step = [s \in Steps |-> IF s <= current THEN "COMPLETED" ELSE "PENDING"]
  BY StepsAssumption DEF TypeOK, Forward, Marked, Steps
<1>2. InStatus("PENDING") = {s \in Steps : current < s}
  BY <1>1 DEF InStatus, Steps
<1>3. CASE current = N
  BY <1>1, <1>2, <1>3 DEF Steps
<1>4. CASE current < N
  <2>1. current + 1 \in Steps /\ current + 1 \in InStatus("PENDING")
    BY <1>1, <1>2, <1>4 DEF Steps
  <2>2. \A t \in InStatus("PENDING") : t \in Int /\ current + 1 <= t
    BY <1>1, <1>2 DEF Steps
  <2>3. InStatus("PENDING") \in SUBSET Steps /\ InStatus("PENDING") # {}
    BY <2>1 DEF InStatus
  <2>4. /\ First(InStatus("PENDING")) \in InStatus("PENDING")
        /\ First(InStatus("PENDING")) <= current + 1
    BY <2>1, <2>3, FirstStep
  <2>5. current + 1 <= First(InStatus("PENDING"))
    BY <2>2, <2>4
  <2> QED
    BY <1>1, <2>1, <2>2, <2>3, <2>4, <2>5
<1> QED
  BY <1>1, <1>3, <1>4

(* The walk advances one step at a time, and an error leaves it for good.  *)
LEMMA ForwardNext ==
    ASSUME TypeOK, Forward, [Next]_vars
    PROVE  Forward'
<1> USE DEF inputs, control, tables, effects, Goto, Ran, Marked, NothingUndone,
            ForwardLabels
<1>1. CASE StartSaga
  BY <1>1 DEF StartSaga, Forward
<1>2. CASE CreateExecution
  BY <1>2, RaiseLeaves DEF CreateExecution, WriteSaga, Forward
<1>3. CASE CreateSteps
  <2>1. \A s \in Steps : ~ (s <= 0)
    BY StepsAssumption DEF Steps
  <2> QED
    BY <1>3, <2>1 DEF CreateSteps, Forward
<1>4. CASE FindNext
  <2>1. CASE InStatus("PENDING") = {}
    BY <1>4, <2>1, NextStep, RaiseLeaves DEF FindNext, Forward
  <2>2. CASE InStatus("PENDING") # {}
    <3>1. current \in Nat /\ current + 1 - 1 = current
      BY StepsAssumption DEF TypeOK, Steps
    <3> QED
      BY <1>4, <2>2, <3>1, NextStep, RaiseLeaves DEF FindNext, Forward
  <2> QED
    BY <2>1, <2>2
<1>5. CASE Execute
  <2>1. current \in Steps /\ current \in Nat /\ \A s \in Steps : s \in Nat
    BY <1>5, StepsAssumption DEF Execute, TakeEffect, Forward, Steps
  <2>2. CASE pc' = "markCompleted"
    <3>1. applied' = [applied EXCEPT ![current] = @ + 1]
          /\ current' = current /\ step' = step /\ undone' = undone
      BY <1>5, <2>2, RaiseLeaves DEF Execute, TakeEffect
    <3>2. applied = [s \in Steps |-> IF s <= current - 1 THEN 1 ELSE 0]
      BY <1>5 DEF Execute, TakeEffect, Forward
    <3>3. applied' = [s \in Steps |-> IF s <= current THEN 1 ELSE 0]
      <4>1. \A s \in Steps : s <= current <=> s = current \/ s <= current - 1
        BY <2>1
      <4>2. ~ (current <= current - 1)
        BY <2>1
      <4>3. \A s \in Steps : applied'[s] = IF s <= current THEN 1 ELSE 0
        BY <2>1, <3>1, <3>2, <4>1, <4>2
      <4>4. applied' = [s \in Steps |-> applied'[s]]
        BY <3>1, <3>2
      <4> QED
        BY <4>3, <4>4
    <3> QED
      BY <1>5, <2>1, <2>2, <3>1, <3>3 DEF Execute, TakeEffect, Forward
  <2>3. CASE pc' # "markCompleted"
    BY <1>5, <2>3, RaiseLeaves DEF Execute, TakeEffect, Forward
  <2> QED
    BY <2>2, <2>3
<1>6. CASE MarkCompleted
  <2>1. current \in Steps /\ current \in Nat /\ \A s \in Steps : s \in Nat
    BY <1>6, StepsAssumption DEF MarkCompleted, Forward, Steps
  <2>2. CASE pc' = "emitCompleted"
    <3>1. step' = [step EXCEPT ![current] = "COMPLETED"]
          /\ current' = current /\ UNCHANGED effects
      BY <1>6, <2>2, RaiseLeaves DEF MarkCompleted
    <3>2. step = [s \in Steps |-> IF s <= current - 1 THEN "COMPLETED" ELSE "PENDING"]
      BY <1>6 DEF MarkCompleted, Forward
    <3>3. step' = [s \in Steps |-> IF s <= current THEN "COMPLETED" ELSE "PENDING"]
      <4>1. \A s \in Steps : s <= current <=> s = current \/ s <= current - 1
        BY <2>1
      <4> QED
        BY <2>1, <3>1, <3>2, <4>1
    <3> QED
      BY <1>6, <2>1, <2>2, <3>1, <3>3 DEF MarkCompleted, Forward
  <2>3. CASE pc' # "emitCompleted"
    BY <1>6, <2>3, RaiseLeaves DEF MarkCompleted, Forward
  <2> QED
    BY <2>2, <2>3
<1>7. CASE EmitCompleted
  BY <1>7, RaiseLeaves DEF EmitCompleted, Emitted, Forward
<1>8. CASE MarkSagaCompleted
  BY <1>8, RaiseLeaves DEF MarkSagaCompleted, WriteSaga, Forward
<1>9. CASE EmitSagaCompleted
  BY <1>9, RaiseLeaves DEF EmitSagaCompleted, Emitted, Forward
<1>10. CASE MarkFailed
  BY <1>10, RaiseLeaves DEF MarkFailed, Forward
<1>11. CASE MarkCompensating
  BY <1>11, RaiseLeaves DEF MarkCompensating, WriteSaga, Forward
<1>12. CASE FindCompleted
  BY <1>12, RaiseLeaves DEF FindCompleted, Forward
<1>13. CASE Compensate
  <2>1. Latest(todo) \in Steps
    BY <1>13, LatestStep DEF Compensate, TypeOK
  <2> QED
    BY <1>13, <2>1 DEF Compensate, Visit, Forward
<1>14. CASE MarkCompensated
  BY <1>14 DEF MarkCompensated, Forward
<1>15. CASE Alarm
  BY <1>15, RaiseLeaves DEF Alarm, Forward
<1>16. CASE MarkSagaFailed
  BY <1>16, RaiseLeaves DEF MarkSagaFailed, WriteSaga, Forward
<1>17. CASE EmitSagaFailed
  BY <1>17, RaiseLeaves DEF EmitSagaFailed, Emitted, Forward
<1>18. CASE Crash
  BY <1>18 DEF Crash, Forward
<1>19. CASE UNCHANGED vars
  BY <1>19 DEF vars, Forward
<1> QED
  BY <1>1, <1>2, <1>3, <1>4, <1>5, <1>6, <1>7, <1>8, <1>9, <1>10, <1>11,
     <1>12, <1>13, <1>14, <1>15, <1>16, <1>17, <1>18, <1>19 DEF Next, Progress

(* The status COMPLETED is left before anything is compensated. *)
LEMMA BackwardNext ==
    ASSUME TypeOK, Backward, [Next]_vars
    PROVE  Backward'
<1> USE RaiseLeaves DEF Backward, inputs, control, tables, effects, Goto
<1>1. CASE MarkCompensating
  BY <1>1 DEF MarkCompensating, WriteSaga
<1>2. CASE FindCompleted \/ Compensate \/ MarkCompensated \/ Alarm
  BY <1>2 DEF FindCompleted, Compensate, Visit, MarkCompensated, Alarm
<1>3. CASE MarkSagaFailed \/ MarkSagaCompleted \/ CreateExecution
  BY <1>3 DEF MarkSagaFailed, MarkSagaCompleted, CreateExecution, WriteSaga
<1>4. CASE StartSaga \/ CreateSteps \/ FindNext \/ Execute \/ MarkCompleted \/ MarkFailed
  BY <1>4 DEF StartSaga, CreateSteps, FindNext, Execute, TakeEffect, MarkCompleted, MarkFailed
<1>5. CASE EmitCompleted \/ EmitSagaCompleted \/ EmitSagaFailed
  BY <1>5 DEF EmitCompleted, EmitSagaCompleted, EmitSagaFailed, Emitted
<1>6. CASE Crash \/ UNCHANGED vars
  BY <1>6 DEF Crash, vars, Ended
<1> QED
  BY <1>1, <1>2, <1>3, <1>4, <1>5, <1>6 DEF Next, Progress

(* Only Execute counts a handler's effect. *)
LEMMA OnlyExecuteApplies ==
    ASSUME [Next]_vars, ~ Execute
    PROVE  applied' = applied
BY DEF Next, Progress, vars, inputs, control, tables, effects, StartSaga,
   CreateExecution, WriteSaga, CreateSteps, FindNext, MarkCompleted,
   EmitCompleted, MarkSagaCompleted, EmitSagaCompleted, MarkFailed,
   MarkCompensating, FindCompleted, Compensate, Visit, MarkCompensated, Alarm,
   MarkSagaFailed, EmitSagaFailed, Crash

(* Only Compensate counts a compensation's. *)
LEMMA OnlyCompensateUndoes ==
    ASSUME [Next]_vars, ~ Compensate
    PROVE  undone' = undone
BY DEF Next, Progress, vars, inputs, control, tables, effects, StartSaga,
   CreateExecution, WriteSaga, CreateSteps, FindNext, Execute, MarkCompleted,
   EmitCompleted, MarkSagaCompleted, EmitSagaCompleted, MarkFailed,
   MarkCompensating, FindCompleted, MarkCompensated, Alarm, MarkSagaFailed,
   EmitSagaFailed, Crash

(* Only MarkSagaCompleted writes COMPLETED. *)
LEMMA OnlyMarkSagaCompletes ==
    ASSUME [Next]_vars, ~ MarkSagaCompleted, saga' = "COMPLETED"
    PROVE  saga = "COMPLETED"
BY DEF Next, Progress, vars, inputs, control, tables, effects, StartSaga,
   CreateExecution, WriteSaga, CreateSteps, FindNext, Execute, MarkCompleted,
   EmitCompleted, EmitSagaCompleted, MarkFailed, MarkCompensating,
   FindCompleted, Compensate, Visit, MarkCompensated, Alarm, MarkSagaFailed,
   EmitSagaFailed, Crash

LEMMA StepsInOrderNext ==
    ASSUME TypeOK, Forward, StepsInOrder, [Next]_vars
    PROVE  StepsInOrder'
<1>1. CASE applied' = applied
  BY <1>1 DEF StepsInOrder
<1>2. CASE applied' # applied
  <2>1. Execute
    BY <1>2, OnlyExecuteApplies
  <2>2. /\ current \in Steps
        /\ applied = [s \in Steps |-> IF s <= current - 1 THEN 1 ELSE 0]
        /\ applied' = [applied EXCEPT ![current] = @ + 1]
    BY <1>2, <2>1 DEF Execute, TakeEffect, Forward, Ran
  <2>3. \A s \in Steps : applied'[s] = IF s <= current THEN 1 ELSE 0
    <3>1. \A s \in Steps : s <= current <=> s = current \/ s <= current - 1
      BY <2>2, StepsAssumption DEF Steps
    <3>2. ~ (current <= current - 1)
      BY <2>2, StepsAssumption DEF Steps
    <3> QED
      BY <2>2, <3>1, <3>2
  <2> QED
    BY <2>2, <2>3, StepsAssumption DEF StepsInOrder, Steps
<1> QED
  BY <1>1, <1>2

LEMMA CompletedMeansAppliedNext ==
    ASSUME TypeOK, Forward, Backward, CompletedMeansApplied, [Next]_vars
    PROVE  CompletedMeansApplied'
<1> SUFFICES ASSUME saga' = "COMPLETED"
             PROVE  \A s \in Steps : applied'[s] = 1 /\ undone'[s] = 0
  BY DEF CompletedMeansApplied
<1>1. CASE MarkSagaCompleted
  <2>1. /\ applied = [s \in Steps |-> IF s <= N THEN 1 ELSE 0]
        /\ undone = [s \in Steps |-> 0]
        /\ UNCHANGED <<applied, undone>>
    BY <1>1 DEF MarkSagaCompleted, WriteSaga, effects, Forward, ForwardLabels,
       Ran, NothingUndone
  <2> QED
    BY <2>1, StepsAssumption DEF Steps
<1>2. CASE ~ MarkSagaCompleted
  <2>1. saga = "COMPLETED"
    BY <1>2, OnlyMarkSagaCompletes
  <2>2. undone' = undone
    <3>1. ~ Compensate
      BY <2>1 DEF Compensate, Backward
    <3> QED
      BY <3>1, OnlyCompensateUndoes
  <2>3. applied' = applied
    <3>1. ASSUME Execute PROVE applied[current] = 0 /\ current \in Steps
      BY <3>1, StepsAssumption DEF Execute, TakeEffect, Forward, Ran, Steps
    <3>2. ~ Execute
      BY <2>1, <3>1 DEF CompletedMeansApplied
    <3> QED
      BY <3>2, OnlyExecuteApplies
  <2> QED
    BY <2>1, <2>2, <2>3 DEF CompletedMeansApplied
<1> QED
  BY <1>1, <1>2

LEMMA IInvNext == IInv /\ [Next]_vars => IInv'
BY TypeNext, ForwardNext, BackwardNext, StepsInOrderNext,
   CompletedMeansAppliedNext DEF IInv

-----------------------------------------------------------------------------
(* The recursion's invariant holds under every fault. *)
THEOREM Inductive == Spec => []IInv
<1>1. Init => IInv
  BY TypeInit, SagaInit DEF IInv
<1> QED
  BY <1>1, IInvNext, PTL DEF Spec

(* Type correctness: a handler's effects, for one, stay finite counts. *)
THEOREM TypeCorrect == Spec => []TypeOK
<1>1. IInv => TypeOK
  BY DEF IInv
<1> QED
  BY <1>1, Inductive, PTL

(* A saga marked COMPLETED has done all of its steps and undone none. *)
THEOREM Completion == Spec => []CompletedMeansApplied
<1>1. IInv => CompletedMeansApplied
  BY DEF IInv
<1> QED
  BY <1>1, Inductive, PTL

(* The handlers run in order and once each, whatever throws. *)
THEOREM Order == Spec => []StepsInOrder
<1>1. IInv => StepsInOrder
  BY DEF IInv
<1> QED
  BY <1>1, Inductive, PTL
=============================================================================
