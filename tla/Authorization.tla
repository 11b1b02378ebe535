---------------------------- MODULE Authorization ----------------------------
(***************************************************************************)
(* From consent to tokens: ConsentService.processConsent, the two grants   *)
(* of POST /auth/token (AuthService.exchangeCodeForToken and refreshToken) *)
(* and the decision of AccountConsentGuard, over the Postgres tables       *)
(* consent_requests, authorization_codes and refresh_tokens.               *)
(*                                                                         *)
(* One action is the code between two awaits; a request begins with the    *)
(* read it begins with (before it, it has touched nothing).  A code is     *)
(* named by the decision and a refresh token by the token request that     *)
(* generates it: both are 32 random bytes.  expiresAt is the set `expired` *)
(* of the rows whose time has passed.  The code_challenge is not stored    *)
(* with a consent (consent.service.ts, lines 31 to 39), so the PKCE branch *)
(* of the exchange is never taken and is left out.                         *)
(***************************************************************************)
EXTENDS FiniteSets

CONSTANTS Consents,       \* the ids of consent requests
          Decisions,      \* the POST /auth/consent requests
          TokenRequests,  \* the POST /auth/token requests
          Clients,        \* the TPPs
          ClientOf,       \* the TPP that asks for each consent
          Scopes,         \* what can be asked for
          Accounts,       \* account ids
          Asked,          \* the scope each consent is requested with
          Forms,          \* what a PSU may answer, see FormType
          Faults,         \* {"db"} when calls of the database may reject
          None            \* no row, no value

ScopeSets == SUBSET Scopes

(* A decision's body: the permissions ticked and the accounts listed.      *)
FormType == [approved : BOOLEAN, permissions : ScopeSets, accounts : SUBSET Accounts]

Requests == Decisions \cup TokenRequests

(* What a token request may present: a code or a refresh token.            *)
Credentials == Requests

ASSUME NamesAssumption ==
    /\ Decisions \cap TokenRequests = {}
    /\ Consents \cap Requests = {}
    /\ None \notin Consents \cup Requests
ASSUME InputsAssumption ==
    /\ ClientOf \in [Consents -> Clients]
    /\ Asked \in [Consents -> ScopeSets]
    /\ Forms \subseteq FormType
ASSUME FaultsAssumption == Faults \subseteq {"db"}

Statuses == {"pending", "approved", "denied"}

(* No accounts is NULL: an empty list is never written.                    *)
ConsentRows == [status : Statuses, scope : ScopeSets, accounts : SUBSET Accounts]

CodeRows == [consent : Consents, scope : ScopeSets, spent : BOOLEAN]

TokenRows == [scope : ScopeSets, spent : BOOLEAN]

ASSUME NoneAssumption == None \notin ConsentRows \cup CodeRows \cup TokenRows

VARIABLES consent,    \* consent_requests
          code,       \* authorization_codes; spent is the column `used`
          token,      \* refresh_tokens; spent is the column `revoked`
          expired,    \* the consents, codes and tokens past their expiresAt
          pc,         \* where the handling of each request stands
          about,      \* the consent each decision is about
          form,       \* its body
          entity,     \* the entity processConsent works on
          seen,       \* the row save() compares that entity with
          presented,  \* the code or token each token request presents
          client,     \* the client_id it carries
          held,       \* the scope of the row it has loaded
          reply,      \* what each request was answered
          raced       \* history: what two requests were about at one time

tables == <<consent, code, token>>
decided == <<about, form, entity, seen>>
asked == <<presented, client, held>>
vars == <<tables, expired, pc, decided, asked, reply, raced>>

Labels == {"new", "select", "update", "code", "audit", "spend", "issue",
           "done"}

Answers == {"none", "code", "denied", "tokens", "refused", "error"}

NoForm == [approved |-> FALSE, permissions |-> {}, accounts |-> {}]

NoConsent == [status |-> "pending", scope |-> {}, accounts |-> {}]

Init ==
    /\ consent = [c \in Consents |-> None]
    /\ code = [d \in Decisions |-> None]
    /\ token = [t \in TokenRequests |-> None]
    /\ expired = {}
    /\ pc = [r \in Requests |-> "new"]
    /\ about = [d \in Decisions |-> None]
    /\ form = [d \in Decisions |-> NoForm]
    /\ entity = [d \in Decisions |-> NoConsent]
    /\ seen = [d \in Decisions |-> NoConsent]
    /\ presented = [t \in TokenRequests |-> None]
    /\ client = [t \in TokenRequests |-> None]
    /\ held = [t \in TokenRequests |-> {}]
    /\ reply = [r \in Requests |-> "none"]
    /\ raced = {}

(* A request is in flight as long as a statement of it may take effect.    *)
InFlight(r) == pc[r] \notin {"new", "done"}

(* Its handler waits for the statement of that label ...                   *)
Waits(r, label) == pc[r] = label /\ reply[r] = "none"

(* ... or was told of an error, or died, while the statement goes on.      *)
Abandoned(r) == InFlight(r) /\ reply[r] = "error"

(* What a request is about: a consent, a code or a token.                  *)
Subject(r) == IF r \in Decisions THEN about[r] ELSE presented[r]

Goto(r, label) == pc' = [pc EXCEPT ![r] = label]

Finish(r, x) ==
    /\ Goto(r, "done")
    /\ reply' = [reply EXCEPT ![r] = x]

Abandon(r) == reply' = [reply EXCEPT ![r] = "error"] /\ UNCHANGED pc

(* Another request about x is in flight when this one comes in.            *)
NoteRace(x) ==
    raced' = raced \cup
        {y \in {x} : \E r \in Requests : InFlight(r) /\ Subject(r) = y}

-----------------------------------------------------------------------------
(* GET /auth/authorize: createConsentRequest.                              *)
Authorize(c) ==
    /\ consent[c] = None
    /\ consent' = [consent EXCEPT ![c] =
           [status |-> "pending", scope |-> Asked[c], accounts |-> {}]]
    /\ UNCHANGED <<code, token, expired, pc, decided, asked, reply, raced>>

-----------------------------------------------------------------------------
(* POST /auth/consent: processConsent.                                     *)

(* Mutant: a denial writes a word that is not one of the statuses. *)
ProcessedRejected(row, f) ==
    IF f.approved
    THEN [status |-> "approved", scope |-> f.permissions, accounts |-> f.accounts]
    ELSE [row EXCEPT !.status = "rejected"]

(* Mutant: the accounts are not taken over. *)
ProcessedNoAccounts(row, f) ==
    IF f.approved
    THEN [status |-> "approved", scope |-> f.permissions, accounts |-> row.accounts]
    ELSE [row EXCEPT !.status = "denied"]

(* The entity as processConsent changes it in memory.                      *)
Processed(row, f) ==
    IF f.approved
    THEN [status |-> "approved", scope |-> f.permissions,
          accounts |-> IF f.accounts = {} THEN row.accounts ELSE f.accounts]
    ELSE [row EXCEPT !.status = "denied"]

(* Mutant: the status is not looked at. *)
OpenAnyStatus(c) == c \notin expired

Open(c) == consent[c].status = "pending" /\ c \notin expired

(* The PSU's click, which the page lets them repeat before the answer.     *)
Click(d, c, f) ==
    /\ pc[d] = "new"
    /\ consent[c] # None
    /\ about' = [about EXCEPT ![d] = c]
    /\ form' = [form EXCEPT ![d] = f]
    /\ NoteRace(c)
    /\ UNCHANGED <<tables, expired, seen, asked>>

FindConsent(d, c, f) ==
    /\ Click(d, c, f)
    /\ Open(c)
    /\ entity' = [entity EXCEPT ![d] = Processed(consent[c], f)]
    /\ Goto(d, "select")
    /\ UNCHANGED reply

ConsentRefused(d, c, f) ==
    /\ Click(d, c, f)
    /\ ~ Open(c)
    /\ Finish(d, "refused")
    /\ UNCHANGED entity

(* save() of a loaded entity reads the row again ...                       *)
SaveSelect(d) ==
    /\ Waits(d, "select")
    /\ seen' = [seen EXCEPT ![d] = consent[about[d]]]
    /\ Goto(d, "update")
    /\ UNCHANGED <<tables, expired, about, form, entity, asked, reply, raced>>

(* ... and updates the columns in which the entity differs from it.        *)
Merged(old, new, row) ==
    [status   |-> IF new.status = old.status THEN row.status ELSE new.status,
     scope    |-> IF new.scope = old.scope THEN row.scope ELSE new.scope,
     accounts |-> IF new.accounts = old.accounts THEN row.accounts ELSE new.accounts]

Update(d) ==
    consent' = [consent EXCEPT ![about[d]] = Merged(seen[d], entity[d], @)]

SaveUpdate(d) ==
    /\ Waits(d, "update")
    /\ Update(d)
    /\ Goto(d, IF form[d].approved THEN "code" ELSE "audit")
    /\ UNCHANGED <<code, token, expired, decided, asked, reply, raced>>

(* Mutant: the code gets the scope that was asked for. *)
InsertAsked(d) ==
    code' = [code EXCEPT ![d] =
        [consent |-> about[d], scope |-> Asked[about[d]], spent |-> FALSE]]

Insert(d) ==
    code' = [code EXCEPT ![d] =
        [consent |-> about[d], scope |-> entity[d].scope, spent |-> FALSE]]

InsertCode(d) ==
    /\ Waits(d, "code")
    /\ Insert(d)
    /\ Goto(d, "audit")
    /\ UNCHANGED <<consent, token, expired, decided, asked, reply, raced>>

(* AuditLogger.log, awaited, and the answer.                               *)
LogDecision(d) ==
    /\ Waits(d, "audit")
    /\ Finish(d, IF form[d].approved THEN "code" ELSE "denied")
    /\ UNCHANGED <<tables, expired, decided, asked, raced>>

(* An await rejects: nothing is rolled back and the client gets a 500.  A  *)
(* process that dies here leaves the same rows behind, and a client that   *)
(* has to try again.  The statement it waited for was refused, or is still *)
(* under way.                                                              *)
DecisionFails(d) ==
    /\ "db" \in Faults
    /\ \/ \E l \in {"select", "update", "code", "audit"} : Waits(d, l) /\ Finish(d, "error")
       \/ \E l \in {"update", "code"} : Waits(d, l) /\ Abandon(d)
    /\ UNCHANGED <<tables, expired, decided, asked, raced>>

(* The statement takes effect, at once or behind the client's next try.    *)
DecisionLands(d) ==
    /\ "db" \in Faults
    /\ Abandoned(d)
    /\ \/ pc[d] = "update" /\ Update(d) /\ UNCHANGED <<code, token>>
       \/ pc[d] = "code" /\ Insert(d) /\ UNCHANGED <<consent, token>>
    /\ Finish(d, "error")
    /\ UNCHANGED <<expired, decided, asked, raced>>

-----------------------------------------------------------------------------
(* POST /auth/token.                                                       *)

Row(x) == IF x \in Decisions THEN code[x] ELSE token[x]

(* Mutant: the revoked flag and the used flag are not looked at. *)
AcceptableSpent(x, cl) ==
    /\ Row(x) # None
    /\ x \notin expired
    /\ x \in Decisions => cl = ClientOf[Row(x).consent]

(* Only the exchange of a code asks who presents it.                       *)
Acceptable(x, cl) ==
    /\ Row(x) # None
    /\ ~ Row(x).spent
    /\ x \notin expired
    /\ x \in Decisions => cl = ClientOf[Row(x).consent]

(* A client presents what it was given, once or again.                     *)
Present(t, x, cl) ==
    /\ pc[t] = "new"
    /\ reply[x] \in {"code", "tokens"}
    /\ presented' = [presented EXCEPT ![t] = x]
    /\ client' = [client EXCEPT ![t] = cl]
    /\ NoteRace(x)
    /\ UNCHANGED <<tables, expired, decided>>

FindCredential(t, x, cl) ==
    /\ Present(t, x, cl)
    /\ Acceptable(x, cl)
    /\ held' = [held EXCEPT ![t] = Row(x).scope]
    /\ Goto(t, "spend")
    /\ UNCHANGED reply

CredentialRefused(t, x, cl) ==
    /\ Present(t, x, cl)
    /\ ~ Acceptable(x, cl)
    /\ Finish(t, "refused")
    /\ UNCHANGED held

(* used = true, revoked = true.                                            *)
MarkSpent(x) ==
    \/ /\ x \in Decisions
       /\ code' = [code EXCEPT ![x].spent = TRUE]
       /\ UNCHANGED <<consent, token>>
    \/ /\ x \in TokenRequests
       /\ token' = [token EXCEPT ![x].spent = TRUE]
       /\ UNCHANGED <<consent, code>>

Spend(t) ==
    /\ Waits(t, "spend")
    /\ MarkSpent(presented[t])
    /\ Goto(t, "issue")
    /\ UNCHANGED <<expired, decided, asked, reply, raced>>

(* Mutant: the new row is a copy of the old one, its flag included. *)
StoreCopy(t) ==
    /\ token' = [token EXCEPT ![t] =
           [scope |-> held[t], spent |-> presented[t] \in TokenRequests]]
    /\ UNCHANGED <<consent, code>>

(* issueRefreshToken; the access token is signed without leaving the       *)
(* process.                                                                *)
Store(t) ==
    /\ token' = [token EXCEPT ![t] = [scope |-> held[t], spent |-> FALSE]]
    /\ UNCHANGED <<consent, code>>

Issue(t) ==
    /\ Waits(t, "issue")
    /\ Store(t)
    /\ Finish(t, "tokens")
    /\ UNCHANGED <<expired, decided, asked, raced>>

TokenRequestFails(t) ==
    /\ "db" \in Faults
    /\ \E l \in {"spend", "issue"} : Waits(t, l)
    /\ Finish(t, "error") \/ Abandon(t)
    /\ UNCHANGED <<tables, expired, decided, asked, raced>>

TokenRequestLands(t) ==
    /\ "db" \in Faults
    /\ Abandoned(t)
    /\ \/ pc[t] = "spend" /\ MarkSpent(presented[t])
       \/ pc[t] = "issue" /\ Store(t)
    /\ Finish(t, "error")
    /\ UNCHANGED <<expired, decided, asked, raced>>

-----------------------------------------------------------------------------
(* The environment.                                                        *)

(* 15 minutes, 10 minutes or 30 days after a row was written; nobody looks *)
(* at expiresAt once a consent is processed or a code or token is spent.   *)
Expire(x) ==
    /\ x \notin expired
    /\ \/ x \in Consents /\ consent[x] # None /\ Open(x)
       \/ x \in Requests /\ Row(x) # None /\ ~ Row(x).spent
    /\ expired' = expired \cup {x}
    /\ UNCHANGED <<tables, pc, decided, asked, reply, raced>>

-----------------------------------------------------------------------------
ProcessConsent(d) ==
    \/ \E c \in Consents, f \in Forms : FindConsent(d, c, f) \/ ConsentRefused(d, c, f)
    \/ SaveSelect(d) \/ SaveUpdate(d) \/ InsertCode(d) \/ LogDecision(d)
    \/ DecisionFails(d) \/ DecisionLands(d)

Token(t) ==
    \/ \E x \in Credentials, cl \in Clients :
           FindCredential(t, x, cl) \/ CredentialRefused(t, x, cl)
    \/ Spend(t) \/ Issue(t) \/ TokenRequestFails(t) \/ TokenRequestLands(t)

Next ==
    \/ \E c \in Consents : Authorize(c)
    \/ \E d \in Decisions : ProcessConsent(d)
    \/ \E t \in TokenRequests : Token(t)
    \/ \E x \in Consents \cup Requests : Expire(x)

Spec == Init /\ [][Next]_vars

-----------------------------------------------------------------------------
(* AccountConsentGuard.canActivate: may account a be read under consent c? *)
CanActivate(c, a) ==
    /\ consent[c] # None
    /\ consent[c].status = "approved"
    /\ "accounts_read" \in consent[c].scope
    /\ consent[c].accounts # {} => a \in consent[c].accounts

CodesOf(c) == {d \in Decisions : code[d] # None /\ code[d].consent = c}

(* Every variable stays in its type. *)
TypeOK ==
    /\ consent \in [Consents -> ConsentRows \cup {None}]
    /\ code \in [Decisions -> CodeRows \cup {None}]
    /\ token \in [TokenRequests -> TokenRows \cup {None}]
    /\ expired \in SUBSET (Consents \cup Requests)
    /\ pc \in [Requests -> Labels]
    /\ about \in [Decisions -> Consents \cup {None}]
    /\ form \in [Decisions -> FormType]
    /\ entity \in [Decisions -> ConsentRows]
    /\ seen \in [Decisions -> ConsentRows \cup {None}]
    /\ presented \in [TokenRequests -> Credentials \cup {None}]
    /\ client \in [TokenRequests -> Clients \cup {None}]
    /\ held \in [TokenRequests -> ScopeSets]
    /\ reply \in [Requests -> Answers]
    /\ raced \in SUBSET (Consents \cup Credentials)

(* A consent whose decisions never overlapped has at most one code, is     *)
(* approved when it has one, and records the scope that code stands for:   *)
(* no retry, error or crash gives one consent two codes, or a denied one   *)
(* any (consent.service.ts, lines 65 to 98).                               *)
OneCodePerConsent ==
    \A c \in Consents \ raced : \A d, e \in CodesOf(c) :
        /\ d = e
        /\ consent[c].status = "approved"
        /\ consent[c].scope = code[d].scope

(* Nobody holds a scope that no PSU ticked: every refresh token, however   *)
(* often it was rotated and whatever raced, carries the permissions of a   *)
(* decision that approved.                                                 *)
ScopeWasApproved ==
    \A t \in TokenRequests :
        token[t] # None =>
            \E d \in Decisions :
                /\ form[d].approved
                /\ form[d].permissions = token[t].scope
                /\ code[d] # None

(* A code is redeemed, and a refresh token rotated, at most once, as long  *)
(* as the client does not present it twice at one time: also when errors   *)
(* or a crash separate the two writes (auth.service.ts, lines 95 to 135    *)
(* and 155 to 168).                                                        *)
SpentOnce ==
    \A s, t \in TokenRequests :
        /\ presented[s] = presented[t]
        /\ presented[s] \notin raced
        /\ token[s] # None
        /\ token[t] # None
        => s = t

(* What a client was given works: a token request is refused only when     *)
(* its code or token has expired, was presented before, or is not its own. *)
FreshCredentialAccepted ==
    \A t \in TokenRequests :
        reply[t] = "refused" =>
            \/ presented[t] \in expired
            \/ \E s \in TokenRequests \ {t} : presented[s] = presented[t]
            \/ /\ presented[t] \in Decisions
               /\ client[t] # ClientOf[code[presented[t]].consent]

Approvals(c) == {d \in Decisions : about[d] = c /\ form[d].approved}

(* What AccountConsentGuard lets through goes back to what a PSU answered. *)
(* Whatever overlaps, fails or lands late, no account is read under a      *)
(* consent that lists accounts unless an approval of that consent listed   *)
(* it; and when decisions do not overlap, one and the same approval ticked *)
(* accounts_read and either listed the account or, the consent listing     *)
(* none, listed none (account-consent.guard.ts, lines 22 to 38).  That a   *)
(* consent without a list is enough is another matter: ReadsWereListed.    *)
ReadsWereApproved ==
    \A c \in Consents, a \in Accounts :
        CanActivate(c, a) =>
            /\ consent[c].accounts # {} => \E d \in Approvals(c) : a \in form[d].accounts
            /\ c \notin raced =>
                   \E d \in Approvals(c) :
                       /\ "accounts_read" \in form[d].permissions
                       /\ IF consent[c].accounts = {}
                          THEN form[d].accounts = {}
                          ELSE a \in form[d].accounts

(* openbanking.yml:1016: "Requires an approved consent (`X-Consent-ID`)    *)
(* whose `accounts` list includes `accountId` and whose scope includes     *)
(* `accounts_read`".  An account is read only if an approval of the        *)
(* consent listed it.                                                      *)
ReadsWereListed ==
    \A c \in Consents, a \in Accounts :
        CanActivate(c, a) => \E d \in Approvals(c) : a \in form[d].accounts

(* consent-ui.controller.ts:168: "Something went wrong. Please try again." *)
(* A decision about a consent that has not expired is refused only after   *)
(* an earlier one was answered.                                            *)
TryAgainWorks ==
    \A d \in Decisions :
        reply[d] = "refused" /\ about[d] \notin expired \cup raced =>
            \E e \in Decisions :
                about[e] = about[d] /\ reply[e] \in {"code", "denied"}

-----------------------------------------------------------------------------
(* Why the invariants above hold, strong enough to be inductive.           *)

(* Requests that could disturb each other are known to have raced.         *)
Alone ==
    \A r, s \in Requests :
        InFlight(r) /\ InFlight(s) /\ Subject(r) = Subject(s) /\ Subject(r) \notin raced
        => r = s

(* A decision works on a copy that says what its form says.                *)
Faithful(d) ==
    /\ form[d].approved =>
           /\ entity[d].status = "approved"
           /\ entity[d].scope = form[d].permissions
           /\ form[d].accounts # {} => entity[d].accounts = form[d].accounts
    /\ ~ form[d].approved => entity[d].status = "denied"

DecisionsKnown ==
    \A d \in Decisions :
        /\ pc[d] \in {"new", "select", "update", "code", "audit", "done"}
        /\ IF pc[d] = "new"
           THEN about[d] = None
           ELSE about[d] \in Consents /\ consent[about[d]] # None
        /\ pc[d] \in {"select", "update", "code"} => Faithful(d)
        /\ pc[d] = "update" => seen[d] # None
        /\ pc[d] = "code" => form[d].approved

(* A code stands for the permissions of the decision it is named by.       *)
CodesKnown ==
    \A d \in Decisions :
        /\ code[d] # None =>
               /\ pc[d] \in {"audit", "done"}
               /\ form[d].approved
               /\ code[d].consent = about[d]
               /\ code[d].scope = form[d].permissions
        /\ pc[d] = "audit" /\ form[d].approved => code[d] # None
        /\ reply[d] # "tokens"
        /\ reply[d] # "none" => pc[d] # "new" /\ (pc[d] = "done" \/ reply[d] = "error")
        /\ reply[d] = "code" => code[d] # None

(* While a consent is decided without a race, nobody else writes its row.  *)
Undisturbed ==
    \A d \in Decisions : about[d] \notin raced =>
        /\ pc[d] \in {"select", "update"} => consent[about[d]].status = "pending"
        /\ pc[d] = "update" => seen[d] = consent[about[d]]
        /\ pc[d] = "code" =>
               /\ CodesOf(about[d]) = {}
               /\ consent[about[d]].status = "approved"
               /\ consent[about[d]].scope = entity[d].scope

(* An approved row goes back to one decision.                              *)
RowsWereApproved ==
    \A c \in Consents \ raced :
        consent[c] # None /\ consent[c].status = "approved" =>
            \E d \in Approvals(c) :
                /\ form[d].permissions = consent[c].scope
                /\ form[d].accounts = consent[c].accounts

Listed(c, s) == s = {} \/ \E d \in Approvals(c) : form[d].accounts = s

(* A list of accounts is the whole list of one approval, raced or not, and *)
(* without a race it is that of the decision that works on the consent.    *)
AccountsKnown ==
    /\ \A c \in Consents :
           consent[c] # None =>
               /\ Listed(c, consent[c].accounts)
               /\ c \notin raced /\ consent[c].status = "pending" => consent[c].accounts = {}
    /\ \A d \in Decisions :
           pc[d] \in {"select", "update"} =>
               /\ Listed(about[d], entity[d].accounts)
               /\ form[d].approved /\ about[d] \notin raced =>
                      entity[d].accounts = form[d].accounts

Approved(s) ==
    \E d \in Decisions :
        form[d].approved /\ form[d].permissions = s /\ code[d] # None

(* A token request has read a row that is there, and spends it before it   *)
(* issues anything.                                                        *)
TokensKnown ==
    \A t \in TokenRequests :
        /\ pc[t] \in {"new", "spend", "issue", "done"}
        /\ pc[t] # "new" => presented[t] \in Requests /\ Row(presented[t]) # None
        /\ pc[t] \in {"spend", "issue"} => Approved(held[t])
        /\ token[t] # None => pc[t] = "done"
        /\ pc[t] = "issue" \/ token[t] # None => Row(presented[t]).spent
        /\ reply[t] # "none" => pc[t] # "new" /\ (pc[t] = "done" \/ reply[t] = "error")
        /\ reply[t] = "tokens" => token[t] # None
        /\ reply[t] # "code"

(* Without a race, whoever spends a credential is the first to do so.      *)
SpendersFirst ==
    \A t \in TokenRequests : presented[t] \notin raced =>
        /\ pc[t] = "spend" => ~ Row(presented[t]).spent
        /\ pc[t] = "issue" =>
               \A s \in TokenRequests : presented[s] = presented[t] => token[s] = None

(* The inductive invariant: what is in flight is alone or known to have    *)
(* raced, and every row, code and token goes back to a decision that       *)
(* approved (consent.service.ts, lines 59 to 98, auth.service.ts, lines 84 *)
(* to 168).                                                                *)
IInv ==
    /\ TypeOK
    /\ Alone
    /\ DecisionsKnown
    /\ CodesKnown
    /\ Undisturbed
    /\ OneCodePerConsent
    /\ RowsWereApproved
    /\ AccountsKnown
    /\ TokensKnown
    /\ ScopeWasApproved
    /\ SpendersFirst
    /\ SpentOnce
=============================================================================
