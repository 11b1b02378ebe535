------------------------- MODULE IdempotentOperation -------------------------
(***************************************************************************)
(* What the API description promises of the Idempotency-Key header, with   *)
(* no caches, locks or tables: under each key the operation takes effect   *)
(* at most once, with one result, and a request that carries the key is    *)
(* either given that result or given nothing.  Refusing a request, losing  *)
(* it in a crash and forgetting a cached result are all stutters here.     *)
(* (openbanking.yml, parameter IdempotencyKey.)                            *)
(***************************************************************************)
CONSTANTS Requests,   \* the requests clients may send
          Keys,       \* the idempotency keys
          Results,    \* the results the operation may have
          None        \* no key, no result

VARIABLES keyOf,      \* the key each request carries, None before it is sent
          outcome,    \* the result of the operation done under each key
          answer      \* the result each request was given

vars == <<keyOf, outcome, answer>>

Init ==
    /\ keyOf = [r \in Requests |-> None]
    /\ outcome = [k \in Keys |-> None]
    /\ answer = [r \in Requests |-> None]

Submit(r, k) ==
    /\ keyOf[r] = None
    /\ keyOf' = [keyOf EXCEPT ![r] = k]
    /\ UNCHANGED <<outcome, answer>>

Perform(k, x) ==
    /\ outcome[k] = None
    /\ outcome' = [outcome EXCEPT ![k] = x]
    /\ UNCHANGED <<keyOf, answer>>

Answer(r) ==
    /\ keyOf[r] \in Keys
    /\ answer[r] = None
    /\ outcome[keyOf[r]] # None
    /\ answer' = [answer EXCEPT ![r] = outcome[keyOf[r]]]
    /\ UNCHANGED <<keyOf, outcome>>

Next ==
    \/ \E r \in Requests, k \in Keys : Submit(r, k)
    \/ \E k \in Keys, x \in Results : Perform(k, x)
    \/ \E r \in Requests : Answer(r)

Spec == Init /\ [][Next]_vars
=============================================================================
