--------------------------- MODULE MCAuthorization ---------------------------
(* Small instances of Authorization for TLC. *)
EXTENDS Authorization, TLC

CONSTANTS c1, d1, d2, d3, t1, t2, t3, app, other, a1, a2

OneClient == [c \in Consents |-> app]

AskedBoth == [c \in Consents |-> {"accounts_read", "payments_initiate"}]

(* Approve reading one account, approve everything without listing an      *)
(* account, deny.                                                          *)
FewForms ==
    {[approved |-> TRUE, permissions |-> {"accounts_read"}, accounts |-> {a1}],
     [approved |-> TRUE, permissions |-> {"accounts_read", "payments_initiate"},
      accounts |-> {}],
     [approved |-> FALSE, permissions |-> {"accounts_read"}, accounts |-> {}]}

RequestSymmetry == Permutations(Decisions) \cup Permutations(TokenRequests)
=============================================================================
