------------------------ MODULE MCPaymentController ------------------------
(* Small instances of PaymentController for TLC. *)
EXTENDS PaymentController, TLC

CONSTANTS r1, r2, r3, i1, i2, k1

Call(k, e, b, x) == [key |-> k, endpoint |-> e, body |-> b, refusal |-> x]

(* One key, used for all three endpoints.                                  *)
MixedCalls ==
    {Call(k1, e, "a", "none") : e \in {"initiate", "schedule", "reverse"}}

(* Retries of one payment, next to an order under the same key whose       *)
(* amount is refused, and an order without a key.                          *)
RefusedCalls ==
    {Call(k1, "initiate", "a", "none"), Call(k1, "initiate", "b", "unprocessable"),
     Call(None, "initiate", "a", "none")}

OnePayment == {Call(k1, "initiate", "a", "none")}

OneSchedule == {Call(k1, "schedule", "a", "none")}

(* The requests differ in what they are given by Init only, and so do the   *)
(* instances.                                                              *)
EqualRoles == Permutations(Requests) \cup Permutations(Instances)
=============================================================================
