---------------------------- MODULE SagaContract ----------------------------
(***************************************************************************)
(* What a saga promises: the steps take effect in order; once one of them  *)
(* has failed, the effects are undone, the latest first, or reported for   *)
(* somebody to undo by hand; and the saga ends with all effects in place   *)
(* or with none that is not reported.                                      *)
(***************************************************************************)
EXTENDS Naturals

CONSTANT N   \* a saga has the steps 1 .. N

VARIABLES effects,   \* the steps that are in effect
          reported,  \* the steps reported for manual intervention
          outcome    \* "open", "completed" or "failed"

vars == <<effects, reported, outcome>>

Steps == 1 .. N

Init ==
    /\ effects = {}
    /\ reported = {}
    /\ outcome = "open"

Do(s) ==
    /\ outcome = "open"
    /\ effects = 1 .. s - 1
    /\ effects' = effects \cup {s}
    /\ UNCHANGED <<reported, outcome>>

(* Nothing later than s may still be in effect, but for what is reported.  *)
Undo(s) ==
    /\ outcome = "open"
    /\ s \in effects
    /\ \A t \in effects : t > s => t \in reported
    /\ effects' = effects \ {s}
    /\ UNCHANGED <<reported, outcome>>

Report(s) ==
    /\ outcome = "open"
    /\ s \in effects
    /\ reported' = reported \cup {s}
    /\ UNCHANGED <<effects, outcome>>

Complete ==
    /\ outcome = "open"
    /\ effects = Steps
    /\ reported = {}
    /\ outcome' = "completed"
    /\ UNCHANGED <<effects, reported>>

Fail ==
    /\ outcome = "open"
    /\ effects \subseteq reported
    /\ outcome' = "failed"
    /\ UNCHANGED <<effects, reported>>

Next ==
    \/ \E s \in Steps : Do(s) \/ Undo(s) \/ Report(s)
    \/ Complete
    \/ Fail

Spec == Init /\ [][Next]_vars
=============================================================================
