------------------------ MODULE AuthorizationProofs ------------------------
(* What TLAPS proves of Authorization: for every number of consents,       *)
(* decisions and token requests, whatever is asked for, answered and       *)
(* presented, and whatever the database does.                              *)
EXTENDS Authorization, TLAPS

-----------------------------------------------------------------------------
(* What the writes do to the tables.                                       *)

(* A decision in flight, its consent and its entity. *)
LEMMA DecisionTypes ==
    ASSUME TypeOK, DecisionsKnown, NEW d \in Decisions, pc[d] # "new"
    PROVE  /\ about[d] \in Consents
           /\ consent[about[d]] \in ConsentRows
           /\ entity[d] \in ConsentRows
           /\ pc[d] = "update" => seen[d] \in ConsentRows
BY DEF TypeOK, DecisionsKnown

(* An UPDATE writes one row; when nobody interfered, it becomes the entity. *)
LEMMA Updated ==
    ASSUME TypeOK, DecisionsKnown, Undisturbed,
           NEW d \in Decisions, pc[d] = "update", Update(d)
    PROVE  /\ consent' \in [Consents -> ConsentRows \cup {None}]
           /\ \A c \in Consents \ {about[d]} : consent'[c] = consent[c]
           /\ consent'[about[d]] \in ConsentRows
           /\ about[d] \notin raced => consent'[about[d]] = entity[d]
<1> DEFINE c == about[d]
           row == Merged(seen[d], entity[d], consent[c])
<1>1. /\ c \in Consents
      /\ consent[c] \in ConsentRows
      /\ entity[d] \in ConsentRows
      /\ seen[d] \in ConsentRows
  BY DecisionTypes
<1>2. row \in ConsentRows
  BY <1>1 DEF Merged, ConsentRows
<1>3. consent' = [consent EXCEPT ![c] = row]
  BY DEF Update
<1>4. seen[d] = consent[c] => row = entity[d]
  BY <1>1 DEF Merged, ConsentRows
<1>5. consent \in [Consents -> ConsentRows \cup {None}]
  BY DEF TypeOK
<1>6. c \notin raced => seen[d] = consent[c]
  BY DEF Undisturbed
<1> QED
  BY <1>1, <1>2, <1>3, <1>4, <1>5, <1>6

(* An INSERT adds the code of one decision. *)
LEMMA Inserted ==
    ASSUME TypeOK, DecisionsKnown, NEW d \in Decisions, pc[d] = "code", Insert(d)
    PROVE  /\ code' \in [Decisions -> CodeRows \cup {None}]
           /\ \A e \in Decisions \ {d} : code'[e] = code[e]
           /\ code'[d] # None
           /\ code'[d].consent = about[d]
           /\ code'[d].scope = form[d].permissions
           /\ code'[d].spent = FALSE
           /\ form[d].approved
<1>1. /\ form[d].approved
      /\ entity[d].scope = form[d].permissions
  BY DEF DecisionsKnown, Faithful
<1>2. about[d] \in Consents /\ entity[d].scope \in ScopeSets
  BY DecisionTypes DEF ConsentRows
<1> DEFINE new == [consent |-> about[d], scope |-> entity[d].scope, spent |-> FALSE]
<1>3. new \in CodeRows
  BY <1>2 DEF CodeRows
<1>4. code' = [code EXCEPT ![d] = new]
  BY DEF Insert
<1>5. code \in [Decisions -> CodeRows \cup {None}]
  BY DEF TypeOK
<1>6. new.consent = about[d] /\ new.scope = entity[d].scope /\ new.spent = FALSE
  OBVIOUS
<1>7. new # None
  BY <1>3, NoneAssumption
<1> HIDE DEF new
<1> QED
  BY <1>1, <1>3, <1>4, <1>5, <1>6, <1>7

(* Spending a credential sets its flag and leaves everything else alone. *)
LEMMA Marked ==
    ASSUME TypeOK, NEW x \in Requests, Row(x) # None, MarkSpent(x)
    PROVE  /\ consent' = consent
           /\ code' \in [Decisions -> CodeRows \cup {None}]
           /\ token' \in [TokenRequests -> TokenRows \cup {None}]
           /\ \A d \in Decisions :
                  /\ code'[d] = None <=> code[d] = None
                  /\ code[d] # None => /\ code'[d].consent = code[d].consent
                                       /\ code'[d].scope = code[d].scope
           /\ \A t \in TokenRequests :
                  /\ token'[t] = None <=> token[t] = None
                  /\ token[t] # None => token'[t].scope = token[t].scope
           /\ \A y \in Requests :
                  /\ Row(y)' = None <=> Row(y) = None
                  /\ y # x => Row(y)' = Row(y)
           /\ Row(x)'.spent
<1>1. CASE x \in Decisions
  <2>1. /\ code' = [code EXCEPT ![x].spent = TRUE]
        /\ consent' = consent /\ token' = token
    BY <1>1, NamesAssumption DEF MarkSpent
  <2>2. code[x] \in CodeRows
    BY <1>1 DEF TypeOK, Row
  <2> DEFINE new == [code[x] EXCEPT !.spent = TRUE]
  <2>3. /\ new \in CodeRows
        /\ new.consent = code[x].consent /\ new.scope = code[x].scope /\ new.spent
    BY <2>2 DEF CodeRows
  <2>4. new # None
    BY <2>3, NoneAssumption
  <2>5. code \in [Decisions -> CodeRows \cup {None}]
    BY DEF TypeOK
  <2>6. code' = [code EXCEPT ![x] = new]
    BY <2>1
  <2>7. code[x] # None
    BY <1>1 DEF Row
  <2> HIDE DEF new
  <2> QED
    BY <1>1, <2>1, <2>3, <2>4, <2>5, <2>6, <2>7 DEF Row, TypeOK
<1>2. CASE x \in TokenRequests
  <2>1. /\ token' = [token EXCEPT ![x].spent = TRUE]
        /\ consent' = consent /\ code' = code
    BY <1>2, NamesAssumption DEF MarkSpent
  <2>2. x \notin Decisions /\ token[x] # None
    BY <1>2, NamesAssumption DEF Row
  <2>3. token[x] \in TokenRows
    BY <1>2, <2>2 DEF TypeOK
  <2> DEFINE new == [token[x] EXCEPT !.spent = TRUE]
  <2>4. new \in TokenRows /\ new.scope = token[x].scope /\ new.spent
    BY <2>3 DEF TokenRows
  <2>5. new # None
    BY <2>4, NoneAssumption
  <2>6. token \in [TokenRequests -> TokenRows \cup {None}]
    BY DEF TypeOK
  <2>7. token' = [token EXCEPT ![x] = new]
    BY <2>1
  <2> HIDE DEF new
  <2>8. token' \in [TokenRequests -> TokenRows \cup {None}]
    BY <1>2, <2>4, <2>6, <2>7
  <2>9. token'[x] = new /\ \A t \in TokenRequests \ {x} : token'[t] = token[t]
    BY <1>2, <2>6, <2>7
  <2>10. Row(x)' = new
    BY <2>2, <2>9 DEF Row
  <2>11. \A y \in Requests \ {x} : Row(y)' = Row(y)
    BY <2>1, <2>9 DEF Row, Requests
  <2> QED
    BY <1>2, <2>1, <2>2, <2>4, <2>5, <2>8, <2>9, <2>10, <2>11 DEF TypeOK
<1> QED
  BY <1>1, <1>2 DEF Requests

(* Issuing adds the refresh token of one request. *)
LEMMA Stored ==
    ASSUME TypeOK, NEW t \in TokenRequests, Store(t)
    PROVE  /\ consent' = consent /\ code' = code
           /\ token' \in [TokenRequests -> TokenRows \cup {None}]
           /\ \A s \in TokenRequests \ {t} : token'[s] = token[s]
           /\ token'[t] # None
           /\ token'[t].scope = held[t]
<1> DEFINE new == [scope |-> held[t], spent |-> FALSE]
<1>1. new \in TokenRows
  BY DEF TypeOK, TokenRows
<1>2. new # None
  BY <1>1, NoneAssumption
<1>3. token' = [token EXCEPT ![t] = new] /\ consent' = consent /\ code' = code
  BY DEF Store
<1>4. new.scope = held[t]
  OBVIOUS
<1> HIDE DEF new
<1> QED
  BY <1>1, <1>2, <1>3, <1>4 DEF TypeOK

-----------------------------------------------------------------------------
(* Every action keeps the inductive invariant.                             *)

(* A new consent has no decisions and no codes yet. *)
LEMMA AuthorizeStep ==
    ASSUME IInv, NEW c \in Consents, Authorize(c)
    PROVE  IInv'
<1>1. TypeOK'
  <2>1. [status |-> "pending", scope |-> Asked[c], accounts |-> {}] \in ConsentRows
    BY InputsAssumption DEF ConsentRows, Statuses
  <2> QED
    BY <2>1 DEF IInv, TypeOK, Authorize, decided, asked
<1>2. Alone'
  BY DEF IInv, Alone, InFlight, Subject, Authorize, decided, asked
<1>3. DecisionsKnown'
  BY DEF IInv, DecisionsKnown, Faithful, Authorize, decided
<1>4. CodesKnown'
  BY DEF IInv, CodesKnown, Authorize, decided
<1>5. Undisturbed'
  BY DEF IInv, Undisturbed, DecisionsKnown, CodesOf, Authorize, decided
<1>6. OneCodePerConsent'
  BY DEF IInv, OneCodePerConsent, CodesKnown, DecisionsKnown, CodesOf,
         Authorize
<1>7. RowsWereApproved'
  <2>1. consent'[c].status = "pending"
    BY DEF IInv, TypeOK, Authorize
  <2>2. /\ \A x \in Consents \ {c} : consent'[x] = consent[x]
        /\ UNCHANGED <<about, form, raced>>
    BY DEF IInv, TypeOK, Authorize, decided
  <2> QED
    BY <2>1, <2>2 DEF IInv, RowsWereApproved, Approvals
<1>8. TokensKnown'
  BY DEF IInv, TokensKnown, Approved, Row, Authorize, decided, asked
<1>9. ScopeWasApproved'
  <2>1. UNCHANGED <<code, token, form>>
    BY DEF Authorize, tables, decided
  <2> QED
    BY <2>1 DEF IInv, ScopeWasApproved
<1>10. SpendersFirst'
  BY DEF IInv, SpendersFirst, Row, Authorize, asked
<1>11. SpentOnce'
  BY DEF IInv, SpentOnce, Authorize, asked
<1>12. AccountsKnown'
  <2>1. /\ consent'[c].accounts = {}
        /\ \A x \in Consents \ {c} : consent'[x] = consent[x]
        /\ UNCHANGED <<about, form, entity, pc, raced>>
    BY DEF IInv, TypeOK, Authorize, decided
  <2> QED
    BY <2>1 DEF IInv, AccountsKnown, Listed, Approvals
<1> QED
  BY <1>1, <1>2, <1>3, <1>4, <1>5, <1>6, <1>7, <1>8, <1>9, <1>10, <1>11, <1>12
     DEF IInv

(* The approvals of a consent stay what they are.                          *)
ApprovalsStay(c) ==
    \A d \in Approvals(c) : d \in Approvals(c)' /\ form'[d] = form[d]

(* A click is a decision nobody has counted yet. *)
LEMMA ClickKeeps ==
    ASSUME IInv, NEW d \in Decisions, NEW c \in Consents, NEW f \in Forms, Click(d, c, f)
    PROVE  \A k \in Consents : ApprovalsStay(k)
<1>1. about[d] = None
  BY DEF Click, IInv, DecisionsKnown
<1>2. \A e \in Decisions \ {d} : about'[e] = about[e] /\ form'[e] = form[e]
  BY DEF Click, IInv, TypeOK
<1> QED
  BY <1>1, <1>2, NamesAssumption DEF ApprovalsStay, Approvals

(* A decision begins, or is known to race with another one. *)
LEMMA FindConsentStep ==
    ASSUME IInv, NEW d \in Decisions, NEW c \in Consents, NEW f \in Forms, FindConsent(d, c, f)
    PROVE  IInv'
<1>1. TypeOK'
  <2>1. consent[c] \in ConsentRows /\ f \in FormType
    BY InputsAssumption DEF IInv, TypeOK, FindConsent, Click
  <2>2. Processed(consent[c], f) \in ConsentRows
    BY <2>1 DEF Processed, ConsentRows, FormType, Statuses
  <2> QED
    BY <2>1, <2>2
       DEF IInv, TypeOK, FindConsent, Click, Goto, NoteRace, tables, asked,
           Labels
<1>2. Alone'
  BY DEF IInv, TypeOK, Alone, InFlight, Subject, FindConsent, Click, Goto,
         NoteRace, asked
<1>3. DecisionsKnown'
  BY DEF IInv, TypeOK, DecisionsKnown, Faithful, FindConsent, Click, Goto,
         tables, Requests, Processed
<1>4. CodesKnown'
  BY DEF IInv, CodesKnown, FindConsent, Click, Goto, tables
<1>5. Undisturbed'
  BY DEF IInv, TypeOK, Undisturbed, CodesOf, FindConsent, Click, Goto,
         NoteRace, tables, Open
<1>6. OneCodePerConsent'
  BY DEF IInv, OneCodePerConsent, CodesOf, FindConsent, Click, NoteRace,
         tables
<1>7. RowsWereApproved'
  <2>1. /\ consent' = consent /\ raced \subseteq raced'
        /\ \A k \in Consents : ApprovalsStay(k)
    BY ClickKeeps DEF FindConsent, Click, NoteRace, tables
  <2> QED
    BY <2>1 DEF IInv, RowsWereApproved, ApprovalsStay
<1>8. TokensKnown'
  <2>1. \A e \in Decisions : code[e] # None => form'[e] = form[e]
    BY DEF IInv, TypeOK, CodesKnown, FindConsent, Click
  <2>2. UNCHANGED <<code, token>>
    BY DEF FindConsent, Click, tables
  <2>3. \A s \in ScopeSets : Approved(s) => Approved(s)'
    BY <2>1, <2>2 DEF Approved
  <2>4. \A y \in Requests : Row(y)' = Row(y)
    BY <2>2 DEF Row
  <2>5. \A t \in TokenRequests : pc'[t] = pc[t] /\ reply'[t] = reply[t]
    BY NamesAssumption DEF FindConsent, Goto
  <2>6. UNCHANGED <<presented, held>>
    BY DEF FindConsent, Click, asked
  <2> QED
    BY <2>2, <2>3, <2>4, <2>5, <2>6 DEF IInv, TypeOK, TokensKnown
<1>9. ScopeWasApproved'
  <2>1. \A e \in Decisions : code[e] # None => form'[e] = form[e]
    BY DEF IInv, TypeOK, CodesKnown, FindConsent, Click
  <2>2. UNCHANGED <<code, token>>
    BY DEF FindConsent, Click, tables
  <2> QED
    BY <2>1, <2>2 DEF IInv, ScopeWasApproved
<1>10. SpendersFirst'
  BY DEF IInv, SpendersFirst, Row, FindConsent, Click, Goto, NoteRace, tables,
         asked
<1>11. SpentOnce'
  BY DEF IInv, SpentOnce, FindConsent, Click, NoteRace, tables, asked
<1>12. AccountsKnown'
  <2>1. /\ consent' = consent /\ raced \subseteq raced'
        /\ \A k \in Consents : ApprovalsStay(k)
    BY ClickKeeps DEF FindConsent, Click, NoteRace, tables
  <2>2. /\ consent[c] \in ConsentRows /\ consent[c].status = "pending"
        /\ Listed(c, consent[c].accounts)
        /\ c \notin raced => consent[c].accounts = {}
    BY NoneAssumption DEF FindConsent, Click, Open, IInv, TypeOK, AccountsKnown
  <2>3. /\ pc'[d] = "select" /\ about'[d] = c /\ form'[d] = f
        /\ entity'[d] = Processed(consent[c], f)
        /\ \A e \in Decisions \ {d} :
               pc'[e] = pc[e] /\ about'[e] = about[e] /\ form'[e] = form[e]
               /\ entity'[e] = entity[e]
    BY DEF FindConsent, Click, Goto, IInv, TypeOK, Requests
  <2>4. \A k \in Consents : \A x : Listed(k, x) => Listed(k, x)'
    BY <2>1 DEF Listed, ApprovalsStay
  <2>5. /\ Listed(c, entity[d].accounts)'
        /\ f.approved /\ c \notin raced => entity'[d].accounts = f.accounts
    <3>1. CASE ~ f.approved \/ f.accounts = {}
      <4>1. entity'[d].accounts = consent[c].accounts
        BY <2>2, <2>3, <3>1 DEF Processed, ConsentRows
      <4> QED
        BY <2>2, <2>4, <3>1, <4>1
    <3>2. CASE f.approved /\ f.accounts # {}
      <4>1. entity'[d].accounts = f.accounts
        BY <2>3, <3>2 DEF Processed
      <4> QED
        BY <2>3, <3>2, <4>1 DEF Listed, Approvals
    <3> QED
      BY <3>1, <3>2
  <2>6. \A e \in Decisions : pc[e] # "new" => about[e] \in Consents
    BY DEF IInv, DecisionsKnown
  <2> QED
    BY <2>1, <2>3, <2>4, <2>5, <2>6 DEF IInv, AccountsKnown
<1> QED
  BY <1>1, <1>2, <1>3, <1>4, <1>5, <1>6, <1>7, <1>8, <1>9, <1>10, <1>11, <1>12
     DEF IInv

(* A decision that is refused changes nothing. *)
LEMMA ConsentRefusedStep ==
    ASSUME IInv, NEW d \in Decisions, NEW c \in Consents, NEW f \in Forms, ConsentRefused(d, c, f)
    PROVE  IInv'
<1>1. TypeOK'
  <2>1. f \in FormType
    BY InputsAssumption
  <2> QED
    BY <2>1
       DEF IInv, TypeOK, ConsentRefused, Click, Goto, Finish, NoteRace,
           tables, asked, Labels, Answers
<1>2. Alone'
  BY DEF IInv, Alone, InFlight, Subject, ConsentRefused, Click, Goto,
         NoteRace, Finish, asked
<1>3. DecisionsKnown'
  BY DEF IInv, TypeOK, DecisionsKnown, Faithful, ConsentRefused, Click, Goto,
         Finish, tables, Requests
<1>4. CodesKnown'
  BY DEF IInv, TypeOK, CodesKnown, ConsentRefused, Click, Goto, Finish, tables
<1>5. Undisturbed'
  BY DEF IInv, Undisturbed, CodesOf, ConsentRefused, Click, Goto, NoteRace,
         Finish, tables
<1>6. OneCodePerConsent'
  BY DEF IInv, OneCodePerConsent, CodesOf, ConsentRefused, Click, NoteRace,
         tables
<1>7. RowsWereApproved'
  <2>1. /\ consent' = consent /\ raced \subseteq raced'
        /\ \A k \in Consents : ApprovalsStay(k)
    BY ClickKeeps DEF ConsentRefused, Click, NoteRace, tables
  <2> QED
    BY <2>1 DEF IInv, RowsWereApproved, ApprovalsStay
<1>8. TokensKnown'
  <2>1. \A e \in Decisions : code[e] # None => form'[e] = form[e]
    BY DEF IInv, TypeOK, CodesKnown, ConsentRefused, Click
  <2>2. UNCHANGED <<code, token>>
    BY DEF ConsentRefused, Click, tables
  <2>3. \A s \in ScopeSets : Approved(s) => Approved(s)'
    BY <2>1, <2>2 DEF Approved
  <2>4. \A y \in Requests : Row(y)' = Row(y)
    BY <2>2 DEF Row
  <2>5. \A t \in TokenRequests : pc'[t] = pc[t] /\ reply'[t] = reply[t]
    BY NamesAssumption DEF ConsentRefused, Goto, Finish
  <2>6. UNCHANGED <<presented, held>>
    BY DEF ConsentRefused, Click, asked
  <2> QED
    BY <2>2, <2>3, <2>4, <2>5, <2>6 DEF IInv, TypeOK, TokensKnown
<1>9. ScopeWasApproved'
  <2>1. \A e \in Decisions : code[e] # None => form'[e] = form[e]
    BY DEF IInv, TypeOK, CodesKnown, ConsentRefused, Click
  <2>2. UNCHANGED <<code, token>>
    BY DEF ConsentRefused, Click, tables
  <2> QED
    BY <2>1, <2>2 DEF IInv, ScopeWasApproved
<1>10. SpendersFirst'
  BY DEF IInv, SpendersFirst, Row, ConsentRefused, Click, Goto, NoteRace,
         Finish, tables, asked
<1>11. SpentOnce'
  BY DEF IInv, SpentOnce, ConsentRefused, Click, NoteRace, tables, asked
<1>12. AccountsKnown'
  <2>1. /\ consent' = consent /\ raced \subseteq raced'
        /\ \A k \in Consents : ApprovalsStay(k)
    BY ClickKeeps DEF ConsentRefused, Click, NoteRace, tables
  <2>2. /\ pc'[d] = "done"
        /\ \A e \in Decisions \ {d} :
               pc'[e] = pc[e] /\ about'[e] = about[e] /\ form'[e] = form[e]
               /\ entity'[e] = entity[e]
    BY DEF ConsentRefused, Click, Finish, Goto, IInv, TypeOK, Requests
  <2>3. \A k \in Consents : \A x : Listed(k, x) => Listed(k, x)'
    BY <2>1 DEF Listed, ApprovalsStay
  <2>4. \A e \in Decisions : pc[e] # "new" => about[e] \in Consents
    BY DEF IInv, DecisionsKnown
  <2> QED
    BY <2>1, <2>2, <2>3, <2>4 DEF IInv, AccountsKnown
<1> QED
  BY <1>1, <1>2, <1>3, <1>4, <1>5, <1>6, <1>7, <1>8, <1>9, <1>10, <1>11, <1>12
     DEF IInv

(* save() sees the row as it is. *)
LEMMA SaveSelectStep ==
    ASSUME IInv, NEW d \in Decisions, SaveSelect(d)
    PROVE  IInv'
<1>1. TypeOK'
  BY DEF IInv, TypeOK, DecisionsKnown, Labels, SaveSelect, Waits, Goto, tables, asked
<1>2. Alone'
  BY DEF IInv, Alone, InFlight, Subject, SaveSelect, Waits, Goto, asked
<1>3. DecisionsKnown'
  BY DEF IInv, TypeOK, DecisionsKnown, Faithful, SaveSelect, Waits, Goto, tables
<1>4. CodesKnown'
  BY DEF IInv, CodesKnown, SaveSelect, Waits, Goto, tables
<1>5. Undisturbed'
  BY DEF IInv, TypeOK, Undisturbed, CodesOf, SaveSelect, Waits, Goto, tables
<1>6. OneCodePerConsent'
  BY DEF IInv, OneCodePerConsent, CodesOf, SaveSelect, Waits, tables
<1>7. RowsWereApproved'
  <2>1. UNCHANGED <<consent, about, form, raced>>
    BY DEF SaveSelect, Waits, Goto, tables, decided
  <2> QED
    BY <2>1 DEF IInv, RowsWereApproved, Approvals
<1>8. TokensKnown'
  BY DEF IInv, TokensKnown, Approved, Row, SaveSelect, Waits, Goto, tables, asked
<1>9. ScopeWasApproved'
  <2>1. UNCHANGED <<code, token, form>>
    BY DEF SaveSelect, Waits, Goto, tables, decided
  <2> QED
    BY <2>1 DEF IInv, ScopeWasApproved
<1>10. SpendersFirst'
  BY DEF IInv, SpendersFirst, Row, SaveSelect, Waits, Goto, tables, asked
<1>11. SpentOnce'
  BY DEF IInv, SpentOnce, SaveSelect, Waits, tables, asked
<1>12. AccountsKnown'
  <2>1. /\ UNCHANGED <<consent, about, form, entity, raced>>
        /\ \A e \in Decisions : pc'[e] \in {"select", "update"} => pc[e] \in {"select", "update"}
    BY DEF SaveSelect, Waits, Goto, tables, IInv, TypeOK, Requests
  <2> QED
    BY <2>1 DEF IInv, AccountsKnown, Listed, Approvals
<1> QED
  BY <1>1, <1>2, <1>3, <1>4, <1>5, <1>6, <1>7, <1>8, <1>9, <1>10, <1>11, <1>12
     DEF IInv

(* The consent is updated, whether the client learns of it or not. *)
LEMMA UpdateStep ==
    ASSUME IInv, NEW d \in Decisions, pc[d] = "update", Update(d),
           UNCHANGED <<code, token, expired, decided, asked, raced>>,
           NEW l \in {"code", "audit", "done"}, Goto(d, l),
           l = "code" => form[d].approved,
           l = "audit" => ~ form[d].approved,
           \/ UNCHANGED reply
           \/ l = "done" /\ reply' = [reply EXCEPT ![d] = "error"]
    PROVE  IInv'
<1>0. /\ consent' \in [Consents -> ConsentRows \cup {None}]
      /\ \A c \in Consents \ {about[d]} : consent'[c] = consent[c]
      /\ consent'[about[d]] \in ConsentRows
      /\ about[d] \notin raced => consent'[about[d]] = entity[d]
  BY Updated DEF IInv
<1>1. TypeOK'
  BY <1>0 DEF IInv, TypeOK, Labels, Answers, Goto, decided, asked
<1>2. Alone'
  BY <1>0 DEF IInv, Alone, InFlight, Subject, Goto, decided, asked
<1>3. DecisionsKnown'
  BY NoneAssumption, <1>0 DEF IInv, DecisionsKnown, Faithful, Goto, decided
<1>4. CodesKnown'
  BY <1>0 DEF IInv, TypeOK, CodesKnown, Goto, decided, Requests
<1>5. Undisturbed'
  <2> SUFFICES ASSUME NEW e \in Decisions, about[e] \notin raced
               PROVE  /\ pc'[e] \in {"select", "update"} =>
                             consent'[about[e]].status = "pending"
                      /\ pc'[e] = "update" => seen[e] = consent'[about[e]]
                      /\ pc'[e] = "code" =>
                             /\ CodesOf(about[e]) = {}
                             /\ consent'[about[e]].status = "approved"
                             /\ consent'[about[e]].scope = entity[e].scope
    BY DEF Undisturbed, CodesOf, decided
  <2>1. CASE e = d
    <3>1. consent'[about[d]] = entity[d] /\ Faithful(d)
      BY <1>0, <2>1 DEF IInv, DecisionsKnown
    <3>2. CodesOf(about[d]) = {}
      BY <2>1, DecisionTypes DEF IInv, Undisturbed, OneCodePerConsent
    <3>3. pc'[d] = l
      BY DEF IInv, TypeOK, Goto, Requests
    <3> QED
      BY <2>1, <3>1, <3>2, <3>3 DEF Faithful
  <2>2. CASE e # d
    <3>1. pc'[e] = pc[e]
      BY <2>2 DEF IInv, TypeOK, Goto, Requests
    <3>2. InFlight(e) => about[e] # about[d] /\ about[e] \in Consents
      BY <2>2 DEF IInv, Alone, InFlight, Subject, DecisionsKnown, Requests
    <3> QED
      BY <1>0, <3>1, <3>2 DEF IInv, Undisturbed, InFlight
  <2> QED
    BY <2>1, <2>2
<1>6. OneCodePerConsent'
  <2> SUFFICES ASSUME NEW c \in Consents \ raced,
                      NEW x \in CodesOf(c), NEW y \in CodesOf(c)
               PROVE  /\ x = y
                      /\ consent'[c].status = "approved"
                      /\ consent'[c].scope = code[x].scope
    BY DEF OneCodePerConsent, CodesOf
  <2>1. x = y /\ consent[c].status = "approved" /\ consent[c].scope = code[x].scope
    BY DEF IInv, OneCodePerConsent
  <2>2. c # about[d]
    BY <2>1 DEF IInv, Undisturbed
  <2> QED
    BY <1>0, <2>1, <2>2
<1>7. RowsWereApproved'
  <2> SUFFICES ASSUME NEW c \in Consents \ raced, consent'[c] # None,
                      consent'[c].status = "approved"
               PROVE  \E e \in Approvals(c) :
                          /\ form[e].permissions = consent'[c].scope
                          /\ form[e].accounts = consent'[c].accounts
    BY DEF RowsWereApproved, Approvals, decided
  <2>1. CASE c = about[d]
    <3>1. consent'[c] = entity[d] /\ Faithful(d)
      BY <1>0, <2>1 DEF IInv, DecisionsKnown
    <3>2. form[d].approved /\ entity[d].accounts = form[d].accounts
      BY <2>1, <3>1 DEF Faithful, IInv, AccountsKnown
    <3> QED
      BY <2>1, <3>1, <3>2 DEF Faithful, Approvals
  <2>2. CASE c # about[d]
    BY <1>0, <2>2 DEF IInv, RowsWereApproved
  <2> QED
    BY <2>1, <2>2
<1>8. TokensKnown'
  BY <1>0
     DEF IInv, TypeOK, TokensKnown, Approved, Row, Goto, decided, asked,
         Requests
<1>9. ScopeWasApproved'
  <2>1. UNCHANGED <<code, token, form>>
    BY DEF Goto, tables, decided
  <2> QED
    BY <2>1 DEF IInv, ScopeWasApproved
<1>10. SpendersFirst'
  BY <1>0 DEF IInv, SpendersFirst, Row, Goto, asked
<1>11. SpentOnce'
  BY <1>0 DEF IInv, SpentOnce, asked
<1>12. AccountsKnown'
  <2>1. /\ UNCHANGED <<about, form, entity, raced>>
        /\ \A e \in Decisions : pc'[e] \in {"select", "update"} => pc[e] \in {"select", "update"}
    BY DEF Goto, decided, IInv, TypeOK, Requests
  <2>2. \A k \in Consents : \A x : Listed(k, x)' <=> Listed(k, x)
    BY <2>1 DEF Listed, Approvals
  <2>3. consent'[about[d]].accounts \in {entity[d].accounts, consent[about[d]].accounts}
    BY DecisionTypes DEF IInv, TypeOK, Update, Merged
  <2>4. Listed(about[d], consent'[about[d]].accounts)
    <3>1. about[d] \in Consents /\ consent[about[d]] # None
      BY DEF IInv, DecisionsKnown
    <3> QED
      BY <2>3, <3>1 DEF IInv, AccountsKnown
  <2>5. about[d] \notin raced => consent'[about[d]].status # "pending"
    BY <1>0 DEF IInv, DecisionsKnown, Faithful
  <2>6. \A c \in Consents :
            consent'[c] # None =>
                /\ Listed(c, consent'[c].accounts)
                /\ c \notin raced /\ consent'[c].status = "pending" => consent'[c].accounts = {}
    BY <1>0, <2>4, <2>5 DEF IInv, AccountsKnown
  <2>7. \A e \in Decisions : pc'[e] \in {"select", "update"} =>
            /\ Listed(about[e], entity[e].accounts)
            /\ form[e].approved /\ about[e] \notin raced =>
                   entity[e].accounts = form[e].accounts
    BY <2>1 DEF IInv, AccountsKnown
  <2>8. \A e \in Decisions : Listed(about[e], entity[e].accounts)' <=> Listed(about[e], entity[e].accounts)
    BY <2>1 DEF Listed, Approvals
  <2> QED
    BY <2>1, <2>2, <2>6, <2>7, <2>8 DEF AccountsKnown
<1> QED
  BY <1>1, <1>2, <1>3, <1>4, <1>5, <1>6, <1>7, <1>8, <1>9, <1>10, <1>11, <1>12
     DEF IInv

(* The code is inserted, whether the client learns of it or not. *)
LEMMA InsertStep ==
    ASSUME IInv, NEW d \in Decisions, pc[d] = "code", Insert(d),
           UNCHANGED <<consent, token, expired, decided, asked, raced>>,
           NEW l \in {"audit", "done"}, Goto(d, l),
           \/ UNCHANGED reply
           \/ l = "done" /\ reply' = [reply EXCEPT ![d] = "error"]
    PROVE  IInv'
<1>0. /\ code' \in [Decisions -> CodeRows \cup {None}]
      /\ \A e \in Decisions \ {d} : code'[e] = code[e]
      /\ code'[d] # None
      /\ code'[d].consent = about[d]
      /\ code'[d].scope = form[d].permissions
      /\ form[d].approved
      /\ code[d] = None
  BY Inserted DEF IInv, CodesKnown
<1>1. TypeOK'
  BY <1>0 DEF IInv, TypeOK, Labels, Answers, Goto, decided, asked
<1>2. Alone'
  BY <1>0 DEF IInv, Alone, InFlight, Subject, Goto, decided, asked
<1>3. DecisionsKnown'
  BY <1>0 DEF IInv, DecisionsKnown, Faithful, Goto, decided
<1>4. CodesKnown'
  BY <1>0 DEF IInv, TypeOK, CodesKnown, Goto, decided, Requests
<1>5. Undisturbed'
  <2> SUFFICES ASSUME NEW e \in Decisions, about[e] \notin raced
               PROVE  /\ pc'[e] \in {"select", "update"} =>
                             consent[about[e]].status = "pending"
                      /\ pc'[e] = "update" => seen[e] = consent[about[e]]
                      /\ pc'[e] = "code" =>
                             /\ CodesOf(about[e])' = {}
                             /\ consent[about[e]].status = "approved"
                             /\ consent[about[e]].scope = entity[e].scope
    BY DEF Undisturbed, decided
  <2>1. CASE e = d
    <3>1. pc'[d] = l
      BY DEF IInv, TypeOK, Goto, Requests
    <3> QED
      BY <2>1, <3>1
  <2>2. CASE e # d
    <3>1. pc'[e] = pc[e]
      BY <2>2 DEF IInv, TypeOK, Goto, Requests
    <3>2. InFlight(e) => about[e] # about[d]
      BY <2>2 DEF IInv, Alone, InFlight, Subject, Requests
    <3>3. about[e] # about[d] => CodesOf(about[e])' = CodesOf(about[e])
      BY <1>0 DEF CodesOf, decided
    <3> QED
      BY <3>1, <3>2, <3>3 DEF IInv, Undisturbed, InFlight
  <2> QED
    BY <2>1, <2>2
<1>6. OneCodePerConsent'
  <2> SUFFICES ASSUME NEW c \in Consents \ raced,
                      NEW x \in CodesOf(c)', NEW y \in CodesOf(c)'
               PROVE  /\ x = y
                      /\ consent[c].status = "approved"
                      /\ consent[c].scope = code'[x].scope
    BY DEF OneCodePerConsent
  <2>1. CASE c = about[d]
    <3>1. /\ CodesOf(c) = {}
          /\ consent[c].status = "approved"
          /\ consent[c].scope = form[d].permissions
      BY <2>1 DEF IInv, Undisturbed, DecisionsKnown, Faithful
    <3>2. x = d /\ y = d
      BY <1>0, <3>1 DEF CodesOf
    <3> QED
      BY <1>0, <3>1, <3>2
  <2>2. CASE c # about[d]
    <3>1. x # d /\ y # d
      BY <1>0, <2>2 DEF CodesOf
    <3>2. x \in CodesOf(c) /\ y \in CodesOf(c) /\ code'[x] = code[x]
      BY <1>0, <3>1 DEF CodesOf
    <3> QED
      BY <3>2 DEF IInv, OneCodePerConsent
  <2> QED
    BY <2>1, <2>2
<1>7. RowsWereApproved'
  <2>1. UNCHANGED <<consent, about, form, raced>>
    BY DEF Goto, tables, decided
  <2> QED
    BY <2>1 DEF IInv, RowsWereApproved, Approvals
<1>8. TokensKnown'
  <2>1. \A s \in ScopeSets : Approved(s) => Approved(s)'
    BY <1>0 DEF Approved, decided
  <2>2. \A y \in Requests : Row(y) # None => Row(y)' # None /\ Row(y)' = Row(y)
    BY <1>0 DEF Row
  <2> QED
    BY <2>1, <2>2 DEF IInv, TypeOK, TokensKnown, Goto, asked, Requests
<1>9. ScopeWasApproved'
  BY <1>0 DEF IInv, ScopeWasApproved, decided
<1>10. SpendersFirst'
  BY <1>0 DEF IInv, SpendersFirst, TokensKnown, Row, Goto, asked
<1>11. SpentOnce'
  BY <1>0 DEF IInv, SpentOnce, asked
<1>12. AccountsKnown'
  <2>1. /\ UNCHANGED <<consent, about, form, entity, raced>>
        /\ \A e \in Decisions : pc'[e] \in {"select", "update"} => pc[e] \in {"select", "update"}
    BY DEF Goto, decided, IInv, TypeOK, Requests
  <2> QED
    BY <2>1 DEF IInv, AccountsKnown, Listed, Approvals
<1> QED
  BY <1>1, <1>2, <1>3, <1>4, <1>5, <1>6, <1>7, <1>8, <1>9, <1>10, <1>11, <1>12
     DEF IInv

(* A request ends without a write: logged, or failed. *)
LEMMA EndStep ==
    ASSUME IInv, NEW r \in Requests, InFlight(r), NEW x \in Answers \ {"none"}, Finish(r, x),
           UNCHANGED <<tables, expired, decided, asked, raced>>,
           x = "code" => r \in Decisions /\ code[r] # None,
           x # "tokens"
    PROVE  IInv'
<1>1. TypeOK'
  BY DEF IInv, TypeOK, Labels, Finish, Goto, tables, decided, asked
<1>2. Alone'
  BY DEF IInv, Alone, InFlight, Subject, Finish, Goto, decided, asked
<1>3. DecisionsKnown'
  BY DEF IInv, DecisionsKnown, Faithful, Finish, Goto, InFlight, tables,
         decided
<1>4. CodesKnown'
  BY DEF IInv, TypeOK, CodesKnown, Finish, Goto, tables, decided
<1>5. Undisturbed'
  BY DEF IInv, Undisturbed, CodesOf, Finish, Goto, tables, decided
<1>6. OneCodePerConsent'
  BY DEF IInv, OneCodePerConsent, CodesOf, tables
<1>7. RowsWereApproved'
  <2>1. UNCHANGED <<consent, about, form, raced>>
    BY DEF Finish, Goto, InFlight, tables, decided
  <2> QED
    BY <2>1 DEF IInv, RowsWereApproved, Approvals
<1>8. TokensKnown'
  BY NamesAssumption
     DEF IInv, TypeOK, TokensKnown, Approved, Row, Finish, Goto, InFlight,
         tables, decided, asked
<1>9. ScopeWasApproved'
  <2>1. UNCHANGED <<code, token, form>>
    BY DEF Finish, Goto, InFlight, tables, decided
  <2> QED
    BY <2>1 DEF IInv, ScopeWasApproved
<1>10. SpendersFirst'
  BY DEF IInv, SpendersFirst, Row, Finish, Goto, tables, asked
<1>11. SpentOnce'
  BY DEF IInv, SpentOnce, tables, asked
<1>12. AccountsKnown'
  <2>1. /\ UNCHANGED <<consent, about, form, entity, raced>>
        /\ \A e \in Decisions : pc'[e] \in {"select", "update"} => pc[e] \in {"select", "update"}
    BY DEF Finish, Goto, tables, decided, IInv, TypeOK, Requests
  <2> QED
    BY <2>1 DEF IInv, AccountsKnown, Listed, Approvals
<1> QED
  BY <1>1, <1>2, <1>3, <1>4, <1>5, <1>6, <1>7, <1>8, <1>9, <1>10, <1>11, <1>12
     DEF IInv

(* Its handler is gone, its statement goes on. *)
LEMMA AbandonStep ==
    ASSUME IInv, NEW r \in Requests, InFlight(r), Abandon(r),
           UNCHANGED <<tables, expired, decided, asked, raced>>
    PROVE  IInv'
<1> USE DEF IInv, Abandon, tables, decided, asked
<1>1. TypeOK'
  BY DEF TypeOK, Answers
<1>2. Alone' /\ DecisionsKnown' /\ Undisturbed' /\ OneCodePerConsent'
  BY DEF Alone, InFlight, Subject, DecisionsKnown, Faithful, Undisturbed,
         OneCodePerConsent, CodesOf
<1>3. CodesKnown'
  BY DEF TypeOK, CodesKnown, InFlight
<1>4. RowsWereApproved' /\ AccountsKnown'
  BY DEF RowsWereApproved, AccountsKnown, Listed, Approvals
<1>5. ScopeWasApproved'
  BY DEF ScopeWasApproved
<1>6. \A s \in ScopeSets : Approved(s)' = Approved(s)
  BY DEF Approved
<1>7. TokensKnown'
  BY <1>6 DEF TypeOK, TokensKnown, Row, InFlight
<1>8. SpendersFirst' /\ SpentOnce'
  BY DEF SpendersFirst, SpentOnce, Row
<1> QED
  BY <1>1, <1>2, <1>3, <1>4, <1>5, <1>7, <1>8

(* A token request begins, or is known to race with another one. *)
LEMMA FindCredentialStep ==
    ASSUME IInv, NEW t \in TokenRequests, NEW x \in Credentials, NEW cl \in Clients, FindCredential(t, x, cl)
    PROVE  IInv'
<1>0. /\ x \in Requests
      /\ Row(x) # None
      /\ ~ Row(x).spent
      /\ Row(x).scope \in ScopeSets
      /\ Approved(Row(x).scope)
  <2>1. x \in Requests /\ Row(x) # None /\ ~ Row(x).spent
    BY DEF FindCredential, Acceptable, Credentials
  <2>2. CASE x \in Decisions
    BY <2>1, <2>2 DEF IInv, TypeOK, CodesKnown, CodeRows, Row, Approved
  <2>3. CASE x \in TokenRequests
    BY <2>1, <2>3, NamesAssumption
       DEF IInv, TypeOK, TokenRows, ScopeWasApproved, Row, Approved
  <2> QED
    BY <2>1, <2>2, <2>3 DEF Requests
<1>1. TypeOK'
  BY <1>0
     DEF IInv, TypeOK, Labels, FindCredential, Present, Goto, NoteRace,
         tables, decided
<1>2. Alone'
  BY NamesAssumption
     DEF IInv, TypeOK, Alone, InFlight, Subject, FindCredential, Present,
         Goto, NoteRace, decided
<1>3. DecisionsKnown'
  BY NamesAssumption
     DEF IInv, DecisionsKnown, Faithful, FindCredential, Present, Goto,
         tables, decided
<1>4. CodesKnown'
  BY DEF IInv, CodesKnown, FindCredential, Present, Goto, tables, decided
<1>5. Undisturbed'
  BY DEF IInv, Undisturbed, CodesOf, FindCredential, Present, Goto, NoteRace,
         tables, decided
<1>6. OneCodePerConsent'
  BY DEF IInv, OneCodePerConsent, CodesOf, FindCredential, Present, NoteRace,
         tables
<1>7. RowsWereApproved'
  <2>1. UNCHANGED <<consent, about, form>> /\ raced \subseteq raced'
    BY DEF FindCredential, Present, NoteRace, tables, decided
  <2> QED
    BY <2>1 DEF IInv, RowsWereApproved, Approvals
<1>8. TokensKnown'
  BY <1>0
     DEF IInv, TypeOK, TokensKnown, Approved, Row, FindCredential, Present,
         Goto, tables, decided
<1>9. ScopeWasApproved'
  <2>1. UNCHANGED <<code, token, form>>
    BY DEF FindCredential, Present, Goto, NoteRace, tables, decided
  <2> QED
    BY <2>1 DEF IInv, ScopeWasApproved
<1>10. SpendersFirst'
  BY <1>0
     DEF IInv, TypeOK, SpendersFirst, TokensKnown, Row, FindCredential,
         Present, Goto, NoteRace, tables
<1>11. SpentOnce'
  BY DEF IInv, SpentOnce, TokensKnown, FindCredential, Present, NoteRace,
         tables
<1>12. AccountsKnown'
  <2>1. /\ UNCHANGED <<consent, about, form, entity>> /\ raced \subseteq raced'
        /\ \A e \in Decisions : pc'[e] = pc[e]
    BY NamesAssumption DEF FindCredential, Present, Goto, NoteRace, tables, decided
  <2> QED
    BY <2>1 DEF IInv, AccountsKnown, Listed, Approvals
<1> QED
  BY <1>1, <1>2, <1>3, <1>4, <1>5, <1>6, <1>7, <1>8, <1>9, <1>10, <1>11, <1>12
     DEF IInv

(* A token request that is refused changes nothing. *)
LEMMA CredentialRefusedStep ==
    ASSUME IInv, NEW t \in TokenRequests, NEW x \in Credentials, NEW cl \in Clients, CredentialRefused(t, x, cl)
    PROVE  IInv'
<1>0. x \in Requests /\ Row(x) # None
  BY DEF CredentialRefused, Present, Credentials, IInv, CodesKnown,
         TokensKnown, Row, Requests
<1>1. TypeOK'
  BY <1>0
     DEF IInv, TypeOK, Labels, Answers, CredentialRefused, Present, Goto,
         NoteRace, Finish, tables, decided
<1>2. Alone'
  BY <1>0
     DEF IInv, Alone, InFlight, Subject, CredentialRefused, Present, Goto,
         NoteRace, Finish, decided
<1>3. DecisionsKnown'
  BY NamesAssumption, <1>0
     DEF IInv, DecisionsKnown, Faithful, CredentialRefused, Present, Goto,
         Finish, tables, decided
<1>4. CodesKnown'
  BY <1>0
     DEF IInv, TypeOK, CodesKnown, CredentialRefused, Present, Goto, Finish,
         tables, decided
<1>5. Undisturbed'
  BY <1>0
     DEF IInv, Undisturbed, CodesOf, CredentialRefused, Present, Goto,
         NoteRace, Finish, tables, decided
<1>6. OneCodePerConsent'
  BY <1>0
     DEF IInv, OneCodePerConsent, CodesOf, CredentialRefused, Present,
         NoteRace, tables
<1>7. RowsWereApproved'
  <2>1. UNCHANGED <<consent, about, form>> /\ raced \subseteq raced'
    BY DEF CredentialRefused, Present, NoteRace, tables, decided
  <2> QED
    BY <2>1 DEF IInv, RowsWereApproved, Approvals
<1>8. TokensKnown'
  BY <1>0
     DEF IInv, TypeOK, TokensKnown, Approved, Row, CredentialRefused, Present,
         Goto, Finish, tables, decided
<1>9. ScopeWasApproved'
  <2>1. UNCHANGED <<code, token, form>>
    BY DEF CredentialRefused, Present, tables, decided
  <2> QED
    BY <2>1 DEF IInv, ScopeWasApproved
<1>10. SpendersFirst'
  BY <1>0
     DEF IInv, SpendersFirst, TokensKnown, Row, CredentialRefused, Present,
         Goto, NoteRace, Finish, tables
<1>11. SpentOnce'
  BY <1>0
     DEF IInv, SpentOnce, TokensKnown, CredentialRefused, Present, NoteRace,
         tables
<1>12. AccountsKnown'
  <2>1. /\ UNCHANGED <<consent, about, form, entity>> /\ raced \subseteq raced'
        /\ \A e \in Decisions : pc'[e] = pc[e]
    BY NamesAssumption DEF CredentialRefused, Present, Finish, Goto, NoteRace, tables, decided
  <2> QED
    BY <2>1 DEF IInv, AccountsKnown, Listed, Approvals
<1> QED
  BY <1>1, <1>2, <1>3, <1>4, <1>5, <1>6, <1>7, <1>8, <1>9, <1>10, <1>11, <1>12
     DEF IInv

(* The credential is spent, whether the client learns of it or not. *)
LEMMA SpendStep ==
    ASSUME IInv, NEW t \in TokenRequests, pc[t] = "spend",
           NEW x \in Requests, x = presented[t], MarkSpent(x),
           UNCHANGED <<expired, decided, asked, raced>>,
           NEW l \in {"issue", "done"}, Goto(t, l),
           \/ UNCHANGED reply
           \/ l = "done" /\ reply' = [reply EXCEPT ![t] = "error"]
    PROVE  IInv'
<1>0. /\ x \in Requests
      /\ consent' = consent
      /\ code' \in [Decisions -> CodeRows \cup {None}]
      /\ token' \in [TokenRequests -> TokenRows \cup {None}]
      /\ \A d \in Decisions :
             /\ code'[d] = None <=> code[d] = None
             /\ code[d] # None => /\ code'[d].consent = code[d].consent
                                  /\ code'[d].scope = code[d].scope
      /\ \A s \in TokenRequests :
             /\ token'[s] = None <=> token[s] = None
             /\ token[s] # None => token'[s].scope = token[s].scope
      /\ \A y \in Requests :
             /\ Row(y)' = None <=> Row(y) = None
             /\ y # x => Row(y)' = Row(y)
      /\ Row(x)'.spent
  <2>1. x \in Requests /\ Row(x) # None
    BY DEF IInv, TokensKnown
  <2> QED
    BY <2>1, Marked DEF IInv
<1>1. TypeOK'
  BY <1>0 DEF IInv, TypeOK, Labels, Answers, Goto, decided, asked
<1>2. Alone'
  BY <1>0 DEF IInv, Alone, InFlight, Subject, Goto, decided, asked
<1>3. DecisionsKnown'
  BY <1>0 DEF IInv, DecisionsKnown, Faithful, Goto, decided
<1>4. CodesKnown'
  BY <1>0 DEF IInv, TypeOK, CodesKnown, Goto, decided, Requests
<1>5. Undisturbed'
  <2>1. \A c \in Consents : CodesOf(c)' = CodesOf(c)
    BY <1>0 DEF CodesOf
  <2> QED
    BY <1>0, <2>1 DEF IInv, TypeOK, Undisturbed, DecisionsKnown, Goto, decided
<1>6. OneCodePerConsent'
  <2>1. \A c \in Consents : CodesOf(c)' = CodesOf(c)
    BY <1>0 DEF CodesOf
  <2>2. \A c \in Consents : \A d \in CodesOf(c) : code'[d].scope = code[d].scope
    BY <1>0 DEF CodesOf
  <2> QED
    BY <1>0, <2>1, <2>2 DEF IInv, OneCodePerConsent
<1>7. RowsWereApproved'
  <2>1. UNCHANGED <<consent, about, form, raced>>
    BY <1>0 DEF decided
  <2> QED
    BY <2>1 DEF IInv, RowsWereApproved, Approvals
<1>8. TokensKnown'
  <2>1. \A s \in ScopeSets : Approved(s) => Approved(s)'
    BY <1>0 DEF Approved, decided
  <2>2. \A y \in Requests : Row(y).spent => Row(y)'.spent
    BY <1>0
  <2>3. \A s \in TokenRequests :
            /\ Row(presented[s]) # None /\ presented[s] \in Requests =>
                   Row(presented[s])' # None
            /\ Row(presented[s]).spent /\ presented[s] \in Requests =>
                   Row(presented[s])'.spent
    <3>1. presented' = presented
      BY DEF asked
    <3> QED
      BY <1>0, <2>2, <3>1
  <2> QED
    BY <1>0, <2>1, <2>3 DEF IInv, TypeOK, TokensKnown, Goto, asked, Requests
<1>9. ScopeWasApproved'
  BY <1>0 DEF IInv, ScopeWasApproved, decided
<1>10. SpendersFirst'
  <2> SUFFICES ASSUME NEW s \in TokenRequests, presented[s] \notin raced
               PROVE  /\ pc'[s] = "spend" => ~ Row(presented[s])'.spent
                      /\ pc'[s] = "issue" =>
                             \A u \in TokenRequests :
                                 presented[u] = presented[s] => token'[u] = None
    BY DEF SpendersFirst, Row, asked
  <2>1. CASE s = t
    <3>1. pc'[s] # "spend" /\ ~ Row(x).spent
      BY <2>1 DEF IInv, TypeOK, SpendersFirst, Goto, Requests
    <3>2. \A u \in TokenRequests : presented[u] = x => token[u] = None
      BY <3>1 DEF IInv, TokensKnown
    <3> QED
      BY <1>0, <2>1, <3>1, <3>2
  <2>2. CASE s # t
    <3>1. pc'[s] = pc[s]
      BY <2>2 DEF IInv, TypeOK, Goto, Requests
    <3>2. pc[s] = "spend" => presented[s] # x /\ presented[s] \in Requests
      BY <2>2, NamesAssumption
         DEF IInv, Alone, InFlight, Subject, TokensKnown, Requests
    <3>3. pc[s] = "spend" => Row(presented[s])' = Row(presented[s])
      <4>1. presented' = presented
        BY DEF asked
      <4> QED
        BY <1>0, <3>2, <4>1
    <3> QED
      BY <1>0, <3>1, <3>3 DEF IInv, SpendersFirst
  <2> QED
    BY <2>1, <2>2
<1>11. SpentOnce'
  BY <1>0 DEF IInv, SpentOnce, asked
<1>12. AccountsKnown'
  <2>1. /\ UNCHANGED <<consent, about, form, entity, raced>>
        /\ \A e \in Decisions : pc'[e] = pc[e]
    BY <1>0, NamesAssumption DEF Goto, decided
  <2> QED
    BY <2>1 DEF IInv, AccountsKnown, Listed, Approvals
<1> QED
  BY <1>1, <1>2, <1>3, <1>4, <1>5, <1>6, <1>7, <1>8, <1>9, <1>10, <1>11, <1>12
     DEF IInv

(* The refresh token is stored, whether the client learns of it or not. *)
LEMMA StoreStep ==
    ASSUME IInv, NEW t \in TokenRequests, pc[t] = "issue", Store(t),
           UNCHANGED <<expired, decided, asked, raced>>,
           NEW x \in {"tokens", "error"}, Finish(t, x)
    PROVE  IInv'
<1>0. /\ consent' = consent /\ code' = code
      /\ token' \in [TokenRequests -> TokenRows \cup {None}]
      /\ \A s \in TokenRequests \ {t} : token'[s] = token[s]
      /\ token'[t] # None
      /\ token'[t].scope = held[t]
      /\ token[t] = None
      /\ Approved(held[t])
      /\ Row(presented[t]).spent
  BY Stored DEF IInv, TokensKnown
<1>1. TypeOK'
  BY <1>0 DEF IInv, TypeOK, Labels, Answers, Finish, Goto, decided, asked
<1>2. Alone'
  BY <1>0 DEF IInv, Alone, InFlight, Subject, Finish, Goto, decided, asked
<1>3. DecisionsKnown'
  BY <1>0 DEF IInv, DecisionsKnown, Faithful, Finish, Goto, decided
<1>4. CodesKnown'
  BY <1>0 DEF IInv, CodesKnown, DecisionsKnown, Finish, Goto, decided
<1>5. Undisturbed'
  BY <1>0 DEF IInv, Undisturbed, CodesOf, Finish, Goto, decided
<1>6. OneCodePerConsent'
  BY <1>0 DEF IInv, OneCodePerConsent, CodesOf
<1>7. RowsWereApproved'
  <2>1. UNCHANGED <<consent, about, form, raced>>
    BY <1>0 DEF decided
  <2> QED
    BY <2>1 DEF IInv, RowsWereApproved, Approvals
<1>8. TokensKnown'
  <2>1. \A s \in ScopeSets : Approved(s) => Approved(s)'
    BY <1>0 DEF Approved, decided
  <2>2. \A y \in Requests : Row(y) # None => Row(y)' # None /\ Row(y)' = Row(y)
    BY <1>0 DEF Row, Requests
  <2> QED
    BY <1>0, <2>1, <2>2
       DEF IInv, TypeOK, TokensKnown, Finish, Goto, asked, Requests
<1>9. ScopeWasApproved'
  <2> SUFFICES ASSUME NEW s \in TokenRequests, token'[s] # None
               PROVE  \E d \in Decisions :
                          /\ form[d].approved
                          /\ form[d].permissions = token'[s].scope
                          /\ code[d] # None
    BY <1>0 DEF ScopeWasApproved, decided
  <2>1. CASE s = t
    BY <1>0, <2>1 DEF Approved
  <2>2. CASE s # t
    BY <1>0, <2>2 DEF IInv, ScopeWasApproved
  <2> QED
    BY <2>1, <2>2
<1>10. SpendersFirst'
  <2> SUFFICES ASSUME NEW s \in TokenRequests, presented[s] \notin raced
               PROVE  /\ pc'[s] = "spend" => ~ Row(presented[s])'.spent
                      /\ pc'[s] = "issue" =>
                             \A u \in TokenRequests :
                                 presented[u] = presented[s] => token'[u] = None
    BY DEF SpendersFirst, Row, asked
  <2>1. \A y \in Requests : Row(y) # None => Row(y)' = Row(y)
    BY <1>0 DEF Row, Requests
  <2>2. pc'[t] = "done" /\ (s # t => pc'[s] = pc[s])
    BY DEF IInv, TypeOK, Finish, Goto, Requests
  <2>3. s # t /\ pc[s] = "issue" => presented[s] # presented[t]
    BY NamesAssumption DEF IInv, Alone, InFlight, Subject, Requests
  <2>4. pc[s] = "spend" => Row(presented[s]) # None /\ presented[s] \in Requests
    BY DEF IInv, TokensKnown
  <2>5. presented' = presented
    BY DEF asked
  <2>6. pc[s] = "spend" => Row(presented[s])' = Row(presented[s])
    BY <2>1, <2>4, <2>5
  <2> QED
    BY <1>0, <2>2, <2>3, <2>6 DEF IInv, SpendersFirst
<1>11. SpentOnce'
  <2> SUFFICES ASSUME NEW s \in TokenRequests, NEW u \in TokenRequests,
                      presented[s] = presented[u], presented[s] \notin raced,
                      token'[s] # None, token'[u] # None
               PROVE  s = u
    BY DEF SpentOnce, asked
  <2>1. \A v \in TokenRequests :
            presented[t] \notin raced /\ presented[v] = presented[t] => token[v] = None
    BY DEF IInv, SpendersFirst
  <2> QED
    BY <1>0, <2>1 DEF IInv, SpentOnce
<1>12. AccountsKnown'
  <2>1. /\ UNCHANGED <<consent, about, form, entity, raced>>
        /\ \A e \in Decisions : pc'[e] = pc[e]
    BY <1>0, NamesAssumption DEF Finish, Goto, decided
  <2> QED
    BY <2>1 DEF IInv, AccountsKnown, Listed, Approvals
<1> QED
  BY <1>1, <1>2, <1>3, <1>4, <1>5, <1>6, <1>7, <1>8, <1>9, <1>10, <1>11, <1>12
     DEF IInv

(* Time passes. *)
LEMMA ExpireStep ==
    ASSUME IInv, NEW x \in Consents \cup Requests, Expire(x)
    PROVE  IInv'
<1>1. TypeOK'
  BY DEF IInv, TypeOK, Expire, tables, decided, asked
<1>2. Alone'
  BY DEF IInv, Alone, InFlight, Subject, Expire, decided, asked
<1>3. DecisionsKnown'
  BY DEF IInv, DecisionsKnown, Faithful, Expire, tables, decided
<1>4. CodesKnown'
  BY DEF IInv, CodesKnown, Expire, tables, decided
<1>5. Undisturbed'
  BY DEF IInv, Undisturbed, CodesOf, Expire, tables, decided
<1>6. OneCodePerConsent'
  BY DEF IInv, OneCodePerConsent, CodesOf, Expire, tables
<1>7. RowsWereApproved'
  <2>1. UNCHANGED <<consent, about, form, raced>>
    BY DEF Expire, tables, decided
  <2> QED
    BY <2>1 DEF IInv, RowsWereApproved, Approvals
<1>8. TokensKnown'
  BY DEF IInv, TokensKnown, Approved, Row, Expire, tables, decided, asked
<1>9. ScopeWasApproved'
  <2>1. UNCHANGED <<code, token, form>>
    BY DEF Expire, tables, decided
  <2> QED
    BY <2>1 DEF IInv, ScopeWasApproved
<1>10. SpendersFirst'
  BY DEF IInv, SpendersFirst, Row, Expire, tables, asked
<1>11. SpentOnce'
  BY DEF IInv, SpentOnce, Expire, tables, asked
<1>12. AccountsKnown'
  <2>1. UNCHANGED <<consent, about, form, entity, pc, raced>>
    BY DEF Expire, tables, decided
  <2> QED
    BY <2>1 DEF IInv, AccountsKnown, Listed, Approvals
<1> QED
  BY <1>1, <1>2, <1>3, <1>4, <1>5, <1>6, <1>7, <1>8, <1>9, <1>10, <1>11, <1>12
     DEF IInv

(* The empty database, with nothing in flight. *)
LEMMA InvInit == Init => IInv
<1> SUFFICES ASSUME Init PROVE IInv
  OBVIOUS
<1>1. NoForm \in FormType /\ NoConsent \in ConsentRows
  BY DEF NoForm, NoConsent, FormType, ConsentRows, Statuses, ScopeSets
<1>2. TypeOK
  BY <1>1 DEF Init, TypeOK, Labels, Answers, ScopeSets
<1>3. Alone /\ SpendersFirst
  BY NamesAssumption DEF Init, Alone, InFlight, SpendersFirst, Requests
<1>4. DecisionsKnown /\ CodesKnown /\ Undisturbed
  BY NamesAssumption
     DEF Init, DecisionsKnown, CodesKnown, Undisturbed, Requests
<1>5. TokensKnown
  BY NamesAssumption DEF Init, TokensKnown, Requests
<1>6. OneCodePerConsent /\ RowsWereApproved /\ ScopeWasApproved /\ SpentOnce
  BY DEF Init, OneCodePerConsent, CodesOf, RowsWereApproved, ScopeWasApproved,
         SpentOnce
<1>7. AccountsKnown
  BY DEF Init, AccountsKnown, Requests
<1> QED
  BY <1>2, <1>3, <1>4, <1>5, <1>6, <1>7 DEF IInv

(* The steps of one decision. *)
LEMMA ProcessConsentStep ==
    ASSUME IInv, NEW d \in Decisions, ProcessConsent(d)
    PROVE  IInv'
<1>1. CASE \E c \in Consents, f \in Forms : FindConsent(d, c, f) \/ ConsentRefused(d, c, f)
  BY <1>1, FindConsentStep, ConsentRefusedStep
<1>2. CASE SaveSelect(d)
  BY <1>2, SaveSelectStep
<1>3. CASE SaveUpdate(d)
  <2> DEFINE l == IF form[d].approved THEN "code" ELSE "audit"
  <2>1. /\ pc[d] = "update" /\ Update(d) /\ Goto(d, l)
        /\ UNCHANGED <<code, token, expired, decided, asked, reply, raced>>
    BY <1>3 DEF SaveUpdate, Waits
  <2> QED
    BY <2>1, UpdateStep
<1>4. CASE InsertCode(d)
  BY <1>4, InsertStep DEF InsertCode, Waits
<1>5. CASE LogDecision(d)
  <2> DEFINE x == IF form[d].approved THEN "code" ELSE "denied"
  <2>1. /\ d \in Requests /\ InFlight(d) /\ Finish(d, x)
        /\ x \in Answers \ {"none"} /\ x # "tokens"
        /\ UNCHANGED <<tables, expired, decided, asked, raced>>
    BY <1>5 DEF LogDecision, Waits, InFlight, Answers, Requests
  <2>2. x = "code" => code[d] # None
    BY <1>5 DEF LogDecision, Waits, IInv, CodesKnown
  <2> HIDE DEF x
  <2> QED
    BY <2>1, <2>2, EndStep
<1>6. CASE DecisionFails(d)
  <2>1. InFlight(d) /\ UNCHANGED <<tables, expired, decided, asked, raced>>
    BY <1>6 DEF DecisionFails, Waits, InFlight
  <2>2. Finish(d, "error") \/ Abandon(d)
    BY <1>6 DEF DecisionFails
  <2> QED
    BY <2>1, <2>2, EndStep, AbandonStep DEF Answers, Requests
<1>7. CASE DecisionLands(d)
  <2>1. /\ Goto(d, "done")
        /\ reply' = [reply EXCEPT ![d] = "error"]
        /\ UNCHANGED <<expired, decided, asked, raced>>
    BY <1>7 DEF DecisionLands, Finish
  <2>2. CASE pc[d] = "update" /\ Update(d) /\ UNCHANGED <<code, token>>
    BY <2>1, <2>2, UpdateStep
  <2>3. CASE pc[d] = "code" /\ Insert(d) /\ UNCHANGED <<consent, token>>
    BY <2>1, <2>3, InsertStep
  <2> QED
    BY <1>7, <2>2, <2>3 DEF DecisionLands
<1> QED
  BY <1>1, <1>2, <1>3, <1>4, <1>5, <1>6, <1>7 DEF ProcessConsent

(* The steps of one token request. *)
LEMMA TokenStep ==
    ASSUME IInv, NEW t \in TokenRequests, Token(t)
    PROVE  IInv'
<1>1. CASE \E x \in Credentials, cl \in Clients :
               FindCredential(t, x, cl) \/ CredentialRefused(t, x, cl)
  BY <1>1, FindCredentialStep, CredentialRefusedStep
<1>0. PICK x : x = presented[t]
  OBVIOUS
<1>2. CASE Spend(t)
  <2>1. x \in Requests
    BY <1>0, <1>2 DEF Spend, Waits, IInv, TokensKnown
  <2> QED
    BY <1>0, <1>2, <2>1, SpendStep DEF Spend, Waits
<1>3. CASE Issue(t)
  BY <1>3, StoreStep DEF Issue, Waits
<1>4. CASE TokenRequestFails(t)
  <2>1. InFlight(t) /\ UNCHANGED <<tables, expired, decided, asked, raced>>
    BY <1>4 DEF TokenRequestFails, Waits, InFlight
  <2>2. Finish(t, "error") \/ Abandon(t)
    BY <1>4 DEF TokenRequestFails
  <2> QED
    BY <2>1, <2>2, EndStep, AbandonStep DEF Answers, Requests
<1>5. CASE TokenRequestLands(t)
  <2>1. /\ Finish(t, "error")
        /\ UNCHANGED <<expired, decided, asked, raced>>
    BY <1>5 DEF TokenRequestLands
  <2>2. /\ Goto(t, "done")
        /\ reply' = [reply EXCEPT ![t] = "error"]
    BY <2>1 DEF Finish
  <2>3. CASE pc[t] = "spend" /\ MarkSpent(presented[t])
    <3>1. x \in Requests
      BY <1>0, <2>3 DEF IInv, TokensKnown
    <3> QED
      BY <1>0, <2>1, <2>2, <2>3, <3>1, SpendStep
  <2>4. CASE pc[t] = "issue" /\ Store(t)
    BY <2>1, <2>4, StoreStep
  <2> QED
    BY <1>5, <2>3, <2>4 DEF TokenRequestLands
<1> QED
  BY <1>1, <1>2, <1>3, <1>4, <1>5 DEF Token

(* No step of anybody breaks the invariant. *)
LEMMA InvNext == IInv /\ [Next]_vars => IInv'
<1> SUFFICES ASSUME IInv, [Next]_vars PROVE IInv'
  OBVIOUS
<1>1. CASE \E c \in Consents : Authorize(c)
  BY <1>1, AuthorizeStep
<1>2. CASE \E d \in Decisions : ProcessConsent(d)
  BY <1>2, ProcessConsentStep
<1>3. CASE \E t \in TokenRequests : Token(t)
  BY <1>3, TokenStep
<1>4. CASE \E x \in Consents \cup Requests : Expire(x)
  BY <1>4, ExpireStep
<1>5. CASE UNCHANGED vars
  <2> USE <1>5 DEF vars, tables, decided, asked, IInv
  <2>1. TypeOK' /\ Alone' /\ DecisionsKnown' /\ CodesKnown'
    BY DEF TypeOK, Alone, InFlight, Subject, DecisionsKnown, Faithful,
           CodesKnown
  <2>2. Undisturbed' /\ OneCodePerConsent'
    BY DEF Undisturbed, OneCodePerConsent, CodesOf
  <2>3. RowsWereApproved' /\ AccountsKnown'
    BY DEF RowsWereApproved, AccountsKnown, Listed, Approvals
  <2>4. ScopeWasApproved'
    BY DEF ScopeWasApproved
  <2>5. \A s \in ScopeSets : Approved(s)' = Approved(s)
    BY DEF Approved
  <2>6. TokensKnown'
    BY <2>5 DEF TypeOK, TokensKnown, Row
  <2>7. SpendersFirst' /\ SpentOnce'
    BY DEF SpendersFirst, SpentOnce, Row
  <2> QED
    BY <2>1, <2>2, <2>3, <2>4, <2>6, <2>7
<1> QED
  BY <1>1, <1>2, <1>3, <1>4, <1>5 DEF Next

-----------------------------------------------------------------------------
(* The results.                                                            *)

(* The inductive invariant: what is in flight is alone or known to have    *)
(* raced, and every row, code and token goes back to a decision that       *)
(* approved (consent.service.ts, lines 59 to 98, auth.service.ts, lines 84 *)
(* to 168).                                                                *)
THEOREM Inductive == Spec => []IInv
BY InvInit, InvNext, PTL DEF Spec

(* The tables and the requests keep their types. *)
THEOREM TypeCorrect == Spec => []TypeOK
<1>1. IInv => TypeOK
  BY DEF IInv
<1> QED
  BY <1>1, Inductive, PTL

(* No retry, error or crash gives one consent two codes, or a denied one   *)
(* any, as long as its decisions do not overlap.                           *)
THEOREM OneCode == Spec => []OneCodePerConsent
<1>1. IInv => OneCodePerConsent
  BY DEF IInv
<1> QED
  BY <1>1, Inductive, PTL

(* Whatever races and fails, and however often it is rotated, a refresh    *)
(* token carries a scope that a PSU has ticked.                            *)
THEOREM ApprovedScopes == Spec => []ScopeWasApproved
<1>1. IInv => ScopeWasApproved
  BY DEF IInv
<1> QED
  BY <1>1, Inductive, PTL

(* Only a client that presents a code or a refresh token twice at one time *)
(* gets two refresh tokens for it.                                         *)
THEOREM SpentAtMostOnce == Spec => []SpentOnce
<1>1. IInv => SpentOnce
  BY DEF IInv
<1> QED
  BY <1>1, Inductive, PTL

(* What AccountConsentGuard lets through: a consent that lists accounts    *)
(* opens no account that an approval of it did not list, whatever overlaps *)
(* and fails; and unless its decisions overlapped, one approval ticked     *)
(* accounts_read and listed the account, or listed none if the consent     *)
(* lists none.  The last case is what openbanking.yml:1016 excludes.       *)
THEOREM ApprovedReads == Spec => []ReadsWereApproved
<1>1. IInv => ReadsWereApproved
  <2> SUFFICES ASSUME IInv, NEW c \in Consents, NEW a \in Accounts, CanActivate(c, a)
               PROVE  /\ consent[c].accounts # {} =>
                             \E d \in Approvals(c) : a \in form[d].accounts
                      /\ c \notin raced =>
                             \E d \in Approvals(c) :
                                 /\ "accounts_read" \in form[d].permissions
                                 /\ IF consent[c].accounts = {}
                                    THEN form[d].accounts = {}
                                    ELSE a \in form[d].accounts
    BY DEF ReadsWereApproved
  <2>1. consent[c] # None /\ consent[c].status = "approved"
        /\ "accounts_read" \in consent[c].scope
        /\ (consent[c].accounts # {} => a \in consent[c].accounts)
    BY DEF CanActivate
  <2>2. Listed(c, consent[c].accounts)
    BY <2>1 DEF IInv, AccountsKnown
  <2>3. ASSUME c \notin raced
        PROVE  \E d \in Approvals(c) :
                   /\ form[d].permissions = consent[c].scope
                   /\ form[d].accounts = consent[c].accounts
    BY <2>1, <2>3 DEF IInv, RowsWereApproved
  <2> QED
    BY <2>1, <2>2, <2>3 DEF Listed
<1> QED
  BY <1>1, Inductive, PTL

-----------------------------------------------------------------------------
(* What clients were given, apart from anything that races.                *)

(* What writes the tables of codes and tokens. *)
Writes ==
    \/ \E d \in Decisions : pc[d] = "code" /\ Insert(d) /\ token' = token
    \/ \E t \in TokenRequests : pc[t] = "spend" /\ MarkSpent(presented[t])
    \/ \E t \in TokenRequests : pc[t] = "issue" /\ Store(t)

LEMMA OnlyThese ==
    ASSUME [Next]_vars
    PROVE  Writes \/ UNCHANGED <<code, token>>
<1>1. CASE \E c \in Consents : Authorize(c)
  BY <1>1 DEF Authorize
<1>2. ASSUME NEW d \in Decisions, ProcessConsent(d)
      PROVE  Writes \/ UNCHANGED <<code, token>>
  BY <1>2 DEF ProcessConsent, FindConsent, ConsentRefused, Click, SaveSelect,
     SaveUpdate, Update, InsertCode, LogDecision, DecisionFails, DecisionLands,
     Waits, Abandon, Abandoned, InFlight, tables, Writes
<1>3. ASSUME NEW t \in TokenRequests, Token(t)
      PROVE  Writes \/ UNCHANGED <<code, token>>
  BY <1>3 DEF Token, FindCredential, CredentialRefused, Present, Spend, Issue,
     TokenRequestFails, TokenRequestLands,
     Waits, Abandon, Abandoned, InFlight, tables, Writes
<1>4. CASE \E x \in Consents \cup Requests : Expire(x)
  BY <1>4 DEF Expire, tables
<1>5. CASE UNCHANGED vars
  BY <1>5 DEF vars, tables
<1> QED
  BY <1>1, <1>2, <1>3, <1>4, <1>5 DEF Next

(* A row stays, and is spent by a request that presented it. *)
LEMMA RowsStay ==
    ASSUME IInv, [Next]_vars, NEW x \in Requests
    PROVE  /\ Row(x) # None =>
                  /\ Row(x)' # None
                  /\ x \in Decisions => code'[x].consent = code[x].consent
           /\ Row(x)' # None /\ Row(x)'.spent =>
                  \/ Row(x) # None /\ Row(x).spent
                  \/ \E t \in TokenRequests : pc[t] = "spend" /\ presented[t] = x
<1>0. TypeOK /\ DecisionsKnown /\ CodesKnown /\ TokensKnown
  BY DEF IInv
<1>1. ASSUME NEW d \in Decisions, pc[d] = "code", Insert(d), token' = token
      PROVE  /\ code[d] = None /\ code'[d] # None /\ ~ code'[d].spent
             /\ \A e \in Decisions \ {d} : code'[e] = code[e]
  BY <1>0, <1>1, Inserted DEF CodesKnown
<1>2. ASSUME NEW t \in TokenRequests, pc[t] = "issue", Store(t)
      PROVE  /\ token[t] = None /\ token'[t] # None /\ ~ token'[t].spent
             /\ code' = code
             /\ \A s \in TokenRequests \ {t} : token'[s] = token[s]
  BY <1>0, <1>2, Stored DEF TokensKnown, Store, TypeOK
<1>3. ASSUME NEW t \in TokenRequests, pc[t] = "spend", MarkSpent(presented[t])
      PROVE  /\ presented[t] \in Requests /\ Row(presented[t]) # None
             /\ \A y \in Requests :
                    /\ Row(y)' = None <=> Row(y) = None
                    /\ y # presented[t] => Row(y)' = Row(y)
             /\ \A d \in Decisions :
                    code[d] # None => code'[d].consent = code[d].consent
  <2>1. presented[t] \in Requests /\ Row(presented[t]) # None
    BY <1>0, <1>3 DEF TokensKnown
  <2> QED
    BY <1>0, <1>3, <2>1, Marked
<1>4. CASE UNCHANGED <<code, token>>
  BY <1>4 DEF Row
<1>5. CASE \E d \in Decisions : pc[d] = "code" /\ Insert(d) /\ token' = token
  BY <1>1, <1>5 DEF Row
<1>6. CASE \E t \in TokenRequests : pc[t] = "spend" /\ MarkSpent(presented[t])
  BY <1>3, <1>6 DEF Row
<1>7. CASE \E t \in TokenRequests : pc[t] = "issue" /\ Store(t)
  BY <1>2, <1>7, NamesAssumption DEF Row, Requests
<1> QED
  BY <1>4, <1>5, <1>6, <1>7, OnlyThese DEF Writes

(* A request presents one credential, once, and time only passes. *)
LEMMA PresentedStays ==
    ASSUME IInv, [Next]_vars, NEW t \in TokenRequests
    PROVE  /\ expired \subseteq expired'
           /\ pc[t] # "new" => pc'[t] # "new" /\ UNCHANGED <<presented[t], client[t]>>
           /\ pc'[t] = "new" => presented'[t] = presented[t]
           /\ reply'[t] = "refused" =>
                  \/ reply[t] = "refused"
                  \/ \E x \in Credentials, cl \in Clients : CredentialRefused(t, x, cl)
<1>0. TypeOK /\ t \in Requests /\ t \notin Decisions
  BY NamesAssumption DEF IInv, Requests
<1> USE <1>0 DEF TypeOK
<1>1. CASE \E c \in Consents : Authorize(c)
  BY <1>1 DEF Authorize, asked
<1>2. ASSUME NEW d \in Decisions, ProcessConsent(d)
      PROVE  UNCHANGED <<expired, pc[t], asked, reply[t]>>
  BY <1>2 DEF ProcessConsent, FindConsent, ConsentRefused, Click, SaveSelect,
     SaveUpdate, InsertCode, LogDecision, DecisionFails, DecisionLands,
     Waits, Abandon, Abandoned, InFlight, Goto, Finish
<1>3. ASSUME NEW s \in TokenRequests, Token(s)
      PROVE  /\ expired' = expired
             /\ s # t => UNCHANGED <<pc[t], presented[t], client[t], reply[t]>>
             /\ s = t => /\ pc'[t] # "new"
                         /\ pc[t] = "new" \/ UNCHANGED asked
                         /\ \/ reply'[t] # "refused"
                            \/ reply[t] = "refused"
                            \/ \E x \in Credentials, cl \in Clients :
                                   CredentialRefused(t, x, cl)
  <2>1. CASE \E x \in Credentials, cl \in Clients : FindCredential(s, x, cl)
    BY <2>1 DEF FindCredential, Present, Goto
  <2>2. CASE \E x \in Credentials, cl \in Clients : CredentialRefused(s, x, cl)
    BY <2>2 DEF CredentialRefused, Present, Goto, Finish
  <2>3. CASE Spend(s) \/ Issue(s) \/ TokenRequestFails(s) \/ TokenRequestLands(s)
    BY <2>3 DEF Spend, Issue, TokenRequestFails, TokenRequestLands,
     Waits, Abandon, Abandoned, InFlight, Goto, Finish, asked
  <2> QED
    BY <1>3, <2>1, <2>2, <2>3 DEF Token
<1>4. CASE \E x \in Consents \cup Requests : Expire(x)
  BY <1>4 DEF Expire, asked
<1>5. CASE UNCHANGED vars
  BY <1>5 DEF vars, asked
<1> QED
  BY <1>1, <1>2, <1>3, <1>4, <1>5 DEF Next, asked

(* A row is spent by a request that presented it, so a first presentation  *)
(* finds it as it was issued.                                              *)
FreshInv ==
    /\ \A t \in TokenRequests : pc[t] = "new" => presented[t] = None
    /\ \A x \in Requests :
           Row(x) # None /\ Row(x).spent =>
               \E s \in TokenRequests : presented[s] = x
    /\ FreshCredentialAccepted

LEMMA FreshInit == Init => FreshInv
<1> SUFFICES ASSUME Init PROVE FreshInv
  OBVIOUS
<1>1. \A x \in Requests : Row(x) = None /\ reply[x] = "none"
  BY DEF Init, Row, Requests
<1> QED
  BY <1>1 DEF Init, FreshInv, FreshCredentialAccepted, Requests

LEMMA FreshNext ==
    ASSUME IInv, FreshInv, [Next]_vars
    PROVE  FreshInv'
<1>1. ASSUME NEW t \in TokenRequests, pc'[t] = "new"
      PROVE  presented'[t] = None
  BY <1>1, PresentedStays DEF FreshInv
<1>2. ASSUME NEW s \in TokenRequests, presented[s] \in Requests
      PROVE  presented'[s] = presented[s]
  <2>1. pc[s] # "new"
    BY <1>2, NamesAssumption DEF FreshInv
  <2> QED
    BY <2>1, PresentedStays
<1>3. ASSUME NEW x \in Requests, Row(x)' # None, Row(x)'.spent
      PROVE  \E s \in TokenRequests : presented'[s] = x
  <2>1. \E s \in TokenRequests : presented[s] = x
    BY <1>3, RowsStay DEF FreshInv
  <2> QED
    BY <1>2, <2>1
<1>4. ASSUME NEW t \in TokenRequests, reply'[t] = "refused"
      PROVE  \/ presented'[t] \in expired'
             \/ \E s \in TokenRequests \ {t} : presented'[s] = presented'[t]
             \/ /\ presented'[t] \in Decisions
                /\ client'[t] # ClientOf[code'[presented'[t]].consent]
  <2>1. CASE reply[t] = "refused"
    <3>1. /\ pc[t] # "new" /\ presented[t] \in Requests /\ Row(presented[t]) # None
      BY <2>1 DEF IInv, TokensKnown
    <3>2. /\ UNCHANGED <<presented[t], client[t]>> /\ expired \subseteq expired'
      BY <3>1, PresentedStays
    <3>3. presented[t] \in Decisions =>
              code'[presented[t]].consent = code[presented[t]].consent
      BY <3>1, RowsStay
    <3>4. \A s \in TokenRequests : presented[s] = presented[t] => presented'[s] = presented[t]
      BY <1>2, <3>1
    <3> QED
      BY <2>1, <3>2, <3>3, <3>4 DEF FreshInv, FreshCredentialAccepted
  <2>2. CASE \E x \in Credentials, cl \in Clients : CredentialRefused(t, x, cl)
    <3>1. PICK x \in Requests, cl \in Clients : CredentialRefused(t, x, cl)
      BY <2>2 DEF Credentials
    <3>2. /\ pc[t] = "new" /\ presented'[t] = x /\ client'[t] = cl
          /\ UNCHANGED <<code, token, expired>>
          /\ \A s \in TokenRequests \ {t} : presented'[s] = presented[s]
      BY <3>1 DEF CredentialRefused, Present, tables, IInv, TypeOK
    <3>3. Row(x) # None
      BY <3>1 DEF CredentialRefused, Present, IInv, CodesKnown, TokensKnown,
         Row, Requests
    <3>4. CASE Row(x).spent
      <4>1. PICK s \in TokenRequests : presented[s] = x
        BY <3>3, <3>4 DEF FreshInv
      <4>2. s # t
        BY <3>2, <4>1, NamesAssumption DEF FreshInv
      <4> QED
        BY <3>2, <4>1, <4>2
    <3>5. CASE ~ Row(x).spent
      BY <3>1, <3>2, <3>3, <3>5 DEF CredentialRefused, Acceptable, Row
    <3> QED
      BY <3>4, <3>5
  <2> QED
    BY <1>4, <2>1, <2>2, PresentedStays
<1> QED
  BY <1>1, <1>3, <1>4 DEF FreshInv, FreshCredentialAccepted

(* A client that presents what it was given, in time, as itself and for    *)
(* the first time, is not refused, whatever anybody else does meanwhile.   *)
THEOREM FreshAccepted == Spec => []FreshCredentialAccepted
<1>1. FreshInv => FreshCredentialAccepted
  BY DEF FreshInv
<1> QED
  BY <1>1, FreshInit, FreshNext, Inductive, PTL DEF Spec

-----------------------------------------------------------------------------
(* What "please try again" is worth as long as the database answers.       *)

(* A consent that is no longer pending was decided by somebody who is      *)
(* about to be told so, or was.                                            *)
DecidedInv ==
    Faults = {} =>
        /\ \A c \in Consents \ raced :
               consent[c] # None /\ consent[c].status # "pending" =>
                   \E e \in Decisions :
                       /\ about[e] = c
                       /\ pc[e] \in {"code", "audit"} \/ reply[e] \in {"code", "denied"}
        /\ TryAgainWorks

(* Where one decision goes, the database answering. *)
LEMMA DecisionMoves ==
    ASSUME IInv, Faults = {}, [Next]_vars, NEW e \in Decisions
    PROVE  /\ expired \subseteq expired' /\ raced \subseteq raced'
           /\ pc[e] # "new" => about'[e] = about[e]
           /\ reply[e] # "none" => reply'[e] = reply[e]
           /\ pc[e] \in {"code", "audit"} =>
                  pc'[e] \in {"code", "audit"} \/ reply'[e] \in {"code", "denied"}
           /\ reply'[e] = "refused" =>
                  \/ reply[e] = "refused"
                  \/ \E c \in Consents, f \in Forms : ConsentRefused(e, c, f)
<1>0. TypeOK /\ e \in Requests /\ e \notin TokenRequests
      /\ (reply[e] # "none" => pc[e] # "new" /\ (pc[e] = "done" \/ reply[e] = "error"))
  BY NamesAssumption DEF IInv, Requests, CodesKnown
<1> USE <1>0 DEF TypeOK
<1>1. CASE \E c \in Consents : Authorize(c)
  BY <1>1 DEF Authorize, decided
<1>2. ASSUME NEW t \in TokenRequests, Token(t)
      PROVE  UNCHANGED <<expired, decided, pc[e], reply[e]>> /\ raced \subseteq raced'
  BY <1>2 DEF Token, FindCredential, CredentialRefused, Present, NoteRace, Spend,
     Issue, TokenRequestFails, TokenRequestLands,
     Waits, Abandon, Abandoned, InFlight, Goto, Finish
<1>3. ASSUME NEW d \in Decisions, ProcessConsent(d)
      PROVE  /\ expired' = expired /\ raced \subseteq raced'
             /\ d # e => UNCHANGED <<about[e], pc[e], reply[e]>>
             /\ d = e => /\ pc[e] # "done" /\ (reply[e] # "none" => reply'[e] = reply[e])
                         /\ pc[e] = "new" \/ UNCHANGED about
                         /\ pc[e] \in {"code", "audit"} =>
                                pc'[e] = "audit" \/ reply'[e] \in {"code", "denied"}
                         /\ \/ reply'[e] # "refused"
                            \/ reply[e] = "refused"
                            \/ \E c \in Consents, f \in Forms : ConsentRefused(e, c, f)
  <2>1. CASE \E c \in Consents, f \in Forms : FindConsent(d, c, f)
    BY <2>1 DEF FindConsent, Click, NoteRace, Goto
  <2>2. CASE \E c \in Consents, f \in Forms : ConsentRefused(d, c, f)
    BY <2>2 DEF ConsentRefused, Click, NoteRace, Goto, Finish
  <2>3. CASE SaveSelect(d) \/ SaveUpdate(d) \/ InsertCode(d)
    BY <2>3 DEF SaveSelect, SaveUpdate, InsertCode, Waits, Goto, decided
  <2>4. CASE LogDecision(d)
    BY <2>4 DEF LogDecision, Waits, Goto, Finish, decided
  <2> QED
    BY <1>3, <2>1, <2>2, <2>3, <2>4 DEF ProcessConsent, DecisionFails, DecisionLands
<1>4. CASE \E x \in Consents \cup Requests : Expire(x)
  BY <1>4 DEF Expire, decided
<1>5. CASE UNCHANGED vars
  BY <1>5 DEF vars, decided
<1> QED
  BY <1>1, <1>2, <1>3, <1>4, <1>5 DEF Next, decided

(* Who writes a consent's row, the database answering. *)
LEMMA ConsentWriters ==
    ASSUME IInv, Faults = {}, [Next]_vars, NEW c \in Consents, consent'[c] # consent[c]
    PROVE  \/ Authorize(c)
           \/ \E d \in Decisions : about[d] = c /\ SaveUpdate(d)
<1>1. TypeOK
  BY DEF IInv
<1>2. ASSUME NEW t \in TokenRequests, Token(t) PROVE consent' = consent
  BY <1>2 DEF Token, FindCredential, CredentialRefused, Present, Spend, MarkSpent,
     Issue, Store, TokenRequestFails, TokenRequestLands,
     Waits, Abandon, Abandoned, InFlight, tables
<1>3. ASSUME NEW d \in Decisions, ProcessConsent(d) PROVE consent' = consent \/ SaveUpdate(d)
  BY <1>3 DEF ProcessConsent, FindConsent, ConsentRefused, Click, SaveSelect,
     InsertCode, LogDecision, DecisionFails, DecisionLands,
     Waits, Abandon, Abandoned, InFlight, tables
<1>4. \/ \E k \in Consents : Authorize(k)
      \/ \E d \in Decisions : SaveUpdate(d)
  BY <1>2, <1>3 DEF Next, Expire, vars, tables
<1> QED
  BY <1>1, <1>4 DEF Authorize, SaveUpdate, Update, TypeOK

(* Requests that overlapped have overlapped for good. *)
LEMMA RacedGrows ==
    ASSUME [Next]_vars PROVE raced \subseteq raced'
<1>1. ASSUME NEW t \in TokenRequests, Token(t) PROVE raced \subseteq raced'
  BY <1>1 DEF Token, FindCredential, CredentialRefused, Present, NoteRace, Spend,
     MarkSpent, Issue, TokenRequestFails, TokenRequestLands,
     Waits, Abandon, Abandoned, InFlight
<1>2. ASSUME NEW d \in Decisions, ProcessConsent(d) PROVE raced \subseteq raced'
  BY <1>2 DEF ProcessConsent, FindConsent, ConsentRefused, Click, NoteRace,
     SaveSelect, SaveUpdate, InsertCode, LogDecision, DecisionFails, DecisionLands,
     Waits, Abandon, Abandoned, InFlight
<1> QED
  BY <1>1, <1>2 DEF Next, Authorize, Expire, vars

LEMMA DecidedNext ==
    ASSUME IInv, DecidedInv, [Next]_vars, Faults = {}
    PROVE  DecidedInv'
<1>0. TypeOK /\ None \notin Consents
  BY NamesAssumption DEF IInv
<1>1. ASSUME NEW c \in Consents, NEW e \in Decisions, about[e] = c
      PROVE  about'[e] = c /\ pc[e] # "new"
  <2>1. pc[e] # "new"
    BY <1>0, <1>1 DEF IInv, DecisionsKnown
  <2> QED
    BY <1>1, <2>1, DecisionMoves
<1>2. ASSUME NEW c \in Consents \ raced', consent'[c] # None, consent'[c].status # "pending"
      PROVE  \E e \in Decisions :
                 /\ about'[e] = c
                 /\ pc'[e] \in {"code", "audit"} \/ reply'[e] \in {"code", "denied"}
  <2>1. CASE consent'[c] = consent[c]
    <3>1. PICK e \in Decisions :
              /\ about[e] = c
              /\ pc[e] \in {"code", "audit"} \/ reply[e] \in {"code", "denied"}
      BY <1>2, <2>1, RacedGrows DEF DecidedInv
    <3> QED
      BY <1>1, <3>1, DecisionMoves
  <2>2. CASE consent'[c] # consent[c]
    <3>1. ~ Authorize(c)
      BY <1>0, <1>2 DEF Authorize, TypeOK
    <3>2. PICK d \in Decisions : about[d] = c /\ SaveUpdate(d)
      BY <2>2, <3>1, ConsentWriters
    <3>3. pc'[d] \in {"code", "audit"}
      BY <1>0, <3>2 DEF SaveUpdate, Goto, TypeOK, Requests
    <3> QED
      BY <1>1, <3>2, <3>3
  <2> QED
    BY <2>1, <2>2
<1>3. ASSUME NEW d \in Decisions, reply'[d] = "refused", about'[d] \notin expired' \cup raced'
      PROVE  \E e \in Decisions :
                 about'[e] = about'[d] /\ reply'[e] \in {"code", "denied"}
  <2>1. expired \subseteq expired' /\ raced \subseteq raced'
    BY DecisionMoves
  <2>2. CASE reply[d] = "refused"
    <3>1. about[d] \in Consents /\ about'[d] = about[d]
      BY <2>2, <1>1 DEF IInv, CodesKnown, DecisionsKnown
    <3>2. PICK e \in Decisions : about[e] = about[d] /\ reply[e] \in {"code", "denied"}
      BY <1>3, <2>1, <2>2, <3>1 DEF DecidedInv, TryAgainWorks
    <3> QED
      BY <1>1, <3>1, <3>2, DecisionMoves
  <2>3. CASE \E c \in Consents, f \in Forms : ConsentRefused(d, c, f)
    <3>1. PICK c \in Consents, f \in Forms : ConsentRefused(d, c, f)
      BY <2>3
    <3>2. /\ about'[d] = c /\ consent[c] # None /\ c \notin expired
          /\ consent[c].status # "pending"
          /\ \A r \in Requests : InFlight(r) => Subject(r) # c
      BY <1>0, <1>3, <2>1, <3>1
         DEF ConsentRefused, Click, Open, NoteRace, TypeOK
    <3>3. PICK e \in Decisions :
              /\ about[e] = c
              /\ pc[e] \in {"code", "audit"} \/ reply[e] \in {"code", "denied"}
      BY <1>3, <2>1, <3>2 DEF DecidedInv
    <3>4. pc[e] \notin {"code", "audit"}
      BY <3>2, <3>3 DEF InFlight, Subject, Requests
    <3> QED
      BY <1>1, <3>2, <3>3, <3>4, DecisionMoves
  <2> QED
    BY <1>3, <2>2, <2>3, DecisionMoves
<1> QED
  BY <1>2, <1>3 DEF DecidedInv, TryAgainWorks

(* As long as the database answers, trying again works as the page says:   *)
(* a decision that is refused in time, and did not overlap another, comes  *)
(* after one that was answered.  Only an error between the writes of       *)
(* processConsent takes a consent away from a PSU who was told of nothing. *)
THEOREM TryingAgain == Spec => [](Faults = {} => TryAgainWorks)
<1>1. Init => DecidedInv
  BY NamesAssumption DEF Init, DecidedInv, TryAgainWorks, Requests
<1>2. IInv /\ DecidedInv /\ [Next]_vars => DecidedInv'
  BY DecidedNext DEF DecidedInv
<1>3. DecidedInv => (Faults = {} => TryAgainWorks)
  BY DEF DecidedInv
<1> QED
  BY <1>1, <1>2, <1>3, Inductive, PTL DEF Spec

-----------------------------------------------------------------------------
(* What becomes of a consent when the database does not answer.            *)

(* It is no longer pending, nobody works on it and nobody was answered.    *)
Stranded(c) ==
    /\ consent[c] # None
    /\ consent[c].status # "pending"
    /\ \A d \in Decisions :
           about[d] = c => pc[d] = "done" /\ reply[d] \notin {"code", "denied"}

LEMMA StrandedStays ==
    ASSUME IInv, [Next]_vars, NEW c \in Consents, Stranded(c)
    PROVE  Stranded(c)' /\ consent'[c] = consent[c]
<1>0. TypeOK /\ DecisionsKnown /\ None \notin Consents
  BY NamesAssumption DEF IInv
<1> USE <1>0 DEF TypeOK, Stranded
<1>1. ASSUME NEW k \in Consents, Authorize(k)
      PROVE  Stranded(c)' /\ consent'[c] = consent[c]
  BY <1>1 DEF Authorize, decided
<1>2. ASSUME NEW t \in TokenRequests, Token(t)
      PROVE  Stranded(c)' /\ consent'[c] = consent[c]
  <2>1. UNCHANGED <<consent, about>>
    BY <1>2 DEF Token, FindCredential, CredentialRefused, Present, Spend, MarkSpent,
       Issue, Store, TokenRequestFails, TokenRequestLands,
     Waits, Abandon, Abandoned, InFlight, tables, decided
  <2>2. \A d \in Decisions : pc'[d] = pc[d] /\ reply'[d] = reply[d]
    BY <1>2, NamesAssumption
       DEF Token, FindCredential, CredentialRefused, Present, Spend,
           Issue, TokenRequestFails, TokenRequestLands,
     Waits, Abandon, Abandoned, InFlight, Goto, Finish, Requests
  <2> QED
    BY <2>1, <2>2
<1>3. ASSUME NEW d \in Decisions, ProcessConsent(d)
      PROVE  Stranded(c)' /\ consent'[c] = consent[c]
  <2>0. d \in Requests /\ \A e \in Decisions \ {d} :
            about'[e] = about[e] /\ pc'[e] = pc[e] /\ reply'[e] = reply[e]
    BY <1>3 DEF ProcessConsent, FindConsent, ConsentRefused, Click, SaveSelect,
       SaveUpdate, InsertCode, LogDecision, DecisionFails, DecisionLands,
     Waits, Abandon, Abandoned, InFlight, Goto, Finish, decided, Requests
  <2>1. ASSUME NEW k \in Consents, NEW f \in Forms, FindConsent(d, k, f)
        PROVE  Stranded(c)' /\ consent'[c] = consent[c]
    <3>1. k # c /\ about'[d] = k /\ consent' = consent
      BY <2>1 DEF FindConsent, Click, Open, tables
    <3> QED
      BY <2>0, <3>1
  <2>2. ASSUME NEW k \in Consents, NEW f \in Forms, ConsentRefused(d, k, f)
        PROVE  Stranded(c)' /\ consent'[c] = consent[c]
    <3>1. pc'[d] = "done" /\ reply'[d] = "refused" /\ consent' = consent
      BY <2>0, <2>2 DEF ConsentRefused, Click, Finish, Goto, tables
    <3> QED
      BY <2>0, <3>1
  <2>3. ASSUME SaveSelect(d) \/ SaveUpdate(d) \/ InsertCode(d) \/ LogDecision(d)
               \/ DecisionFails(d) \/ DecisionLands(d)
        PROVE  Stranded(c)' /\ consent'[c] = consent[c]
    <3>1. pc[d] \notin {"new", "done"} /\ about' = about
      BY <2>3 DEF SaveSelect, SaveUpdate, InsertCode, LogDecision, DecisionFails, DecisionLands,
     Waits, Abandon, Abandoned, InFlight, decided
    <3>2. about[d] # c
      BY <3>1
    <3>3. consent'[c] = consent[c]
      BY <2>3, <3>2 DEF SaveSelect, SaveUpdate, InsertCode, LogDecision, DecisionFails, DecisionLands,
     Waits, Abandon, Abandoned, InFlight, Update, tables
    <3> QED
      BY <2>0, <3>1, <3>2, <3>3
  <2> QED
    BY <1>3, <2>1, <2>2, <2>3 DEF ProcessConsent
<1>4. CASE (\E x \in Consents \cup Requests : Expire(x)) \/ UNCHANGED vars
  BY <1>4 DEF Expire, tables, decided, vars
<1> QED
  BY <1>1, <1>2, <1>3, <1>4 DEF Next

(* A consent whose only decision got an error behind its UPDATE can be     *)
(* clicked again for ever (consent.service.ts, lines 59 to 98): its row    *)
(* never changes again, and nobody is ever given its code or its denial.   *)
THEOREM StrandedForGood ==
    Spec => [][\A c \in Consents : Stranded(c) => Stranded(c)' /\ consent'[c] = consent[c]]_vars
<1>1. IInv /\ [Next]_vars =>
          \A c \in Consents : Stranded(c) => Stranded(c)' /\ consent'[c] = consent[c]
  BY StrandedStays
<1> QED
  BY <1>1, Inductive, PTL DEF Spec
=============================================================================
